----------------------------- MODULE WireProofs -----------------------------
(***************************************************************************)
(* The proofs about Wire and Codec, in this order: every kind of item can  *)
(* be read from the bytes it is written as (Decodes), an index against the *)
(* same previous one; a stream of frames with messages between them stands *)
(* for one string of bytes (Framed); the items of a script are laid out in *)
(* one string (Laid), of which each direction of the connection has some   *)
(* read, some under way and some unwritten (Direction); every step keeps   *)
(* that; and from it follow the properties of Wire.                        *)
(***************************************************************************)
EXTENDS Wire, SequenceTheorems, WellFoundedInduction, TLAPS

\* What a byte is.
LEMMA ByteRange == \A x : x \in Byte <=> x \in Int /\ 0 <= x /\ x <= 255
  BY SMT DEF Byte

\* The four bytes of a number below 2^31.
LEMMA FourBytes ==
    ASSUME NEW u \in Int, 0 <= u, u <= 2147483647
    PROVE  /\ u % 256 \in Byte /\ (u \div 256) % 256 \in Byte /\ (u \div 65536) % 256 \in Byte
           /\ (u \div 16777216) % 256 \in Byte /\ (u \div 16777216) % 256 <= 127
           /\ u = (u % 256) + 256 * ((u \div 256) % 256) + 65536 * ((u \div 65536) % 256)
                  + 16777216 * ((u \div 16777216) % 256)
<1>1. u % 256 \in Int /\ 0 <= u % 256 /\ u % 256 <= 255 BY SMT
<1>2. (u \div 256) % 256 \in Int /\ 0 <= (u \div 256) % 256 /\ (u \div 256) % 256 <= 255 BY SMT
<1>3. (u \div 65536) % 256 \in Int /\ 0 <= (u \div 65536) % 256 /\ (u \div 65536) % 256 <= 255
  BY SMT
<1>4. (u \div 16777216) % 256 \in Int /\ 0 <= (u \div 16777216) % 256
      /\ (u \div 16777216) % 256 <= 127
  BY SMT
<1>5. u = (u % 256) + 256 * ((u \div 256) % 256) + 65536 * ((u \div 65536) % 256)
          + 16777216 * ((u \div 16777216) % 256)
  BY SMT
<1> QED BY <1>1, <1>2, <1>3, <1>4, <1>5, ByteRange, SMT

\* A function on 1..n is a sequence.
LEMMA FcnSeq ==
    ASSUME NEW n \in Nat, NEW S, NEW f \in [1..n -> S]
    PROVE  f \in Seq(S) /\ Len(f) = n
  OBVIOUS

\* The places of four bytes.
LEMMA ToFour == \A i : i \in 1..4 <=> i = 1 \/ i = 2 \/ i = 3 \/ i = 4
  OBVIOUS

\* The bytes of a number, those of a negative one inverted.
LEMMA ToLEFields ==
    ASSUME NEW x, Int32(x)
    PROVE  \E a, b, c, d \in Byte :
              /\ d <= 127
              /\ LET n == a + 256 * b + 65536 * c + 16777216 * d
                 IN  x = IF x < 0 THEN -n - 1 ELSE n
              /\ ToLE(x, 4) \in [1..4 -> Byte]
              /\ ToLE(x, 4)[1] = IF x < 0 THEN 255 - a ELSE a
              /\ ToLE(x, 4)[2] = IF x < 0 THEN 255 - b ELSE b
              /\ ToLE(x, 4)[3] = IF x < 0 THEN 255 - c ELSE c
              /\ ToLE(x, 4)[4] = IF x < 0 THEN 255 - d ELSE d
<1> DEFINE u == IF x < 0 THEN -(x + 1) ELSE x
           y(i) == (u \div <<1, 256, 65536, 16777216>>[i]) % 256
           g(i) == IF x < 0 THEN 255 - y(i) ELSE y(i)
<1>0. x \in Int /\ u \in Int /\ 0 <= u /\ u <= 2147483647 BY SMT DEF Int32
<1>1. ToLE(x, 4) = [i \in 1..4 |-> g(i)] BY DEF ToLE
<1>2. y(1) = u % 256 /\ y(2) = (u \div 256) % 256
      /\ y(3) = (u \div 65536) % 256 /\ y(4) = (u \div 16777216) % 256
  <2> HIDE DEF u
  <2>1. u \div 1 = u BY <1>0, SMT
  <2> QED BY <1>0, <2>1, SMT
<1> HIDE DEF y
<1>3. /\ y(1) \in Byte /\ y(2) \in Byte /\ y(3) \in Byte /\ y(4) \in Byte /\ y(4) <= 127
      /\ u = y(1) + 256 * y(2) + 65536 * y(3) + 16777216 * y(4)
  <2> HIDE DEF u
  <2> QED BY <1>0, <1>2, FourBytes, SMT
<1>4. g(1) \in Byte /\ g(2) \in Byte /\ g(3) \in Byte /\ g(4) \in Byte
  BY <1>0, <1>3, ByteRange, SMT
<1>5. PICK a \in Byte, b \in Byte, c \in Byte, d \in Byte : a = y(1) /\ b = y(2) /\ c = y(3) /\ d = y(4)
  BY <1>3
<1>6. PICK n \in Int : n = a + 256 * b + 65536 * c + 16777216 * d
  <2>1. a \in Int /\ b \in Int /\ c \in Int /\ d \in Int BY ByteRange
  <2> QED BY <2>1, SMT
<1>7. x = IF x < 0 THEN -n - 1 ELSE n
  <2>1. u = n BY <1>3, <1>5, <1>6, SMT
  <2> QED BY <1>0, <2>1, SMT
<1>8. \A i \in 1..4 : ToLE(x, 4)[i] = g(i) BY <1>1
<1>9. ToLE(x, 4) \in [1..4 -> Byte]
  <2> HIDE DEF g
  <2>2. \A i \in 1..4 : g(i) \in Byte BY <1>4, ToFour
  <2> QED BY <1>1, <2>2
<1>10. /\ ToLE(x, 4)[1] = IF x < 0 THEN 255 - a ELSE a
       /\ ToLE(x, 4)[2] = IF x < 0 THEN 255 - b ELSE b
       /\ ToLE(x, 4)[3] = IF x < 0 THEN 255 - c ELSE c
       /\ ToLE(x, 4)[4] = IF x < 0 THEN 255 - d ELSE d
  BY <1>5, <1>8, ToFour
<1>11. d <= 127 BY <1>3, <1>5
<1> QED BY <1>6, <1>7, <1>9, <1>10, <1>11, SMT

\* i32::from_le_bytes undoes to_le_bytes (io/varint.rs).
LEMMA IntInverts ==
    ASSUME NEW x, Int32(x)
    PROVE  FromLE(ToLE(x, 4)) = x
<1> DEFINE t == ToLE(x, 4)
<1>1. PICK a, b, c, d \in Byte :
              /\ d <= 127
              /\ LET n == a + 256 * b + 65536 * c + 16777216 * d
                 IN  x = IF x < 0 THEN -n - 1 ELSE n
              /\ ToLE(x, 4) \in [1..4 -> Byte]
              /\ ToLE(x, 4)[1] = IF x < 0 THEN 255 - a ELSE a
              /\ ToLE(x, 4)[2] = IF x < 0 THEN 255 - b ELSE b
              /\ ToLE(x, 4)[3] = IF x < 0 THEN 255 - c ELSE c
              /\ ToLE(x, 4)[4] = IF x < 0 THEN 255 - d ELSE d
  BY ToLEFields
<1>2. a \in Int /\ b \in Int /\ c \in Int /\ d \in Int /\ 0 <= d BY ByteRange
<1> HIDE DEF t
<1>3. CASE x < 0
  <2>1. t[1] = 255 - a /\ t[2] = 255 - b /\ t[3] = 255 - c /\ t[4] = 255 - d BY <1>1, <1>3 DEF t
  <2>2. t[4] >= 128 BY <1>1, <1>2, <2>1, SMT
  <2>3. FromLE(t) = -((255 - t[1]) + 256 * (255 - t[2]) + 65536 * (255 - t[3])
                      + 16777216 * (255 - t[4])) - 1
    BY <2>2, SMT DEF FromLE
  <2>4. 255 - (255 - a) = a /\ 255 - (255 - b) = b /\ 255 - (255 - c) = c /\ 255 - (255 - d) = d
    BY <1>2, SMT
  <2> QED BY <1>1, <1>3, <2>1, <2>3, <2>4, SMT DEF t
<1>4. CASE ~(x < 0)
  <2>1. t[1] = a /\ t[2] = b /\ t[3] = c /\ t[4] = d BY <1>1, <1>4 DEF t
  <2>2. ~(t[4] >= 128) BY <1>1, <1>2, <2>1, SMT
  <2>3. FromLE(t) = t[1] + 256 * t[2] + 65536 * t[3] + 16777216 * t[4]
    BY <2>2, SMT DEF FromLE
  <2> QED BY <1>1, <1>4, <2>1, <2>3, SMT DEF t
<1> QED BY <1>3, <1>4 DEF t

-----------------------------------------------------------------------------
(* varint and varlong.                                                     *)

\* A set of numbers has a least one; what is shown by it of every number is shown by
\* induction.
LEMMA LeastNatural ==
    ASSUME NEW T \in SUBSET Nat, T # {}
    PROVE  \E x \in T : \A y \in T : x <= y
<1>1. IsWellFoundedOn(OpToRel(<, Nat), Nat)
  BY NatLessThanWellFounded
<1>2. PICK x \in T : \A y \in T : ~ (<<y, x>> \in OpToRel(<, Nat))
  BY <1>1, WFMin
<1>3. ASSUME NEW y \in T PROVE x <= y
  <2>1. ~(y < x)
    BY <1>2, y \in Nat, x \in Nat, Zenon DEF OpToRel
  <2> QED BY <2>1
<1> QED BY <1>3

\* A set of numbers up to n has a greatest.
LEMMA MaxFacts ==
    ASSUME NEW n \in Nat, NEW S \in SUBSET (0..n), S # {}
    PROVE  Max(S) \in S /\ \A y \in S : y <= Max(S)
<1> DEFINE T == {n - y : y \in S}
<1>1. T \in SUBSET Nat /\ T # {}
  <2>1. \A y \in S : n - y \in Nat OBVIOUS
  <2>2. \A t \in T : t \in Nat BY <2>1
  <2>3. PICK y : y \in S OBVIOUS
  <2>4. n - y \in T BY <2>3
  <2> QED BY <2>2, <2>4
<1>2. PICK t \in T : \A y \in T : t <= y
  <2> HIDE DEF T
  <2> QED BY <1>1, LeastNatural
<1>3. PICK x \in S : t = n - x OBVIOUS
<1>4. \A y \in S : x >= y
  <2> TAKE y \in S
  <2>1. n - y \in T OBVIOUS
  <2>2. n - x <= n - y BY <1>2, <1>3, <2>1
  <2> QED BY <2>2
<1>5. \E z \in S : \A y \in S : z >= y BY <1>4
<1>6. Max(S) \in S /\ \A y \in S : Max(S) >= y BY <1>5, Zenon DEF Max
<1> QED BY <1>6

\* The bits of a marker as numbers.
LEMMA BitIs ==
    /\ Bit(0) = 1 /\ Bit(1) = 2 /\ Bit(2) = 4 /\ Bit(3) = 8 /\ Bit(4) = 16 /\ Bit(5) = 32
    /\ Bit(6) = 64 /\ Bit(7) = 128 /\ Bit(8) = 256
  BY SMT DEF Bit

\* How many bytes a marker announces.
LEMMA ExtraIs ==
    ASSUME NEW m \in Byte
    PROVE  Extra(m) = IF m < 128 THEN 0 ELSE IF m < 192 THEN 1 ELSE IF m < 224 THEN 2
                      ELSE IF m < 240 THEN 3 ELSE IF m < 248 THEN 4 ELSE IF m < 252 THEN 5 ELSE 6
<1>1. m \in Int /\ 0 <= m /\ m <= 255 BY ByteRange
<1>2. PICK q \in Int : q = m \div 4 BY <1>1, SMT
<1>3. /\ 0 <= q /\ q <= 63 /\ (q < 32 <=> m < 128) /\ (q < 48 <=> m < 192) /\ (q < 56 <=> m < 224)
      /\ (q < 60 <=> m < 240) /\ (q < 62 <=> m < 248) /\ (q < 63 <=> m < 252)
  BY <1>1, <1>2, SMT
<1>4. q \in 0..63 BY <1>3, SMT
<1>5. Extra(m) = IF q < 32 THEN 0 ELSE IF q < 48 THEN 1 ELSE IF q < 56 THEN 2
                 ELSE IF q < 60 THEN 3 ELSE IF q < 62 THEN 4 ELSE q - 57
  BY <1>2, <1>4 DEF Extra, INT_BYTE_EXTRA
<1> QED BY <1>1, <1>3, <1>5, SMT

\* The spare bits of a marker.
LEMMA BitFacts ==
    ASSUME NEW e \in Nat, e <= 5, NEW bit, bit = Bit(7 - e)
    PROVE  /\ bit \in Int /\ 1 <= bit /\ bit <= 128
           /\ e = 0 => bit = 128 /\ Bit(8 - (e + 1)) = 128 /\ Bit(8 - e) = 256
           /\ e = 1 => bit = 64 /\ Bit(8 - (e + 1)) = 64 /\ Bit(8 - e) = 128
           /\ e = 2 => bit = 32 /\ Bit(8 - (e + 1)) = 32 /\ Bit(8 - e) = 64
           /\ e = 3 => bit = 16 /\ Bit(8 - (e + 1)) = 16 /\ Bit(8 - e) = 32
           /\ e = 4 => bit = 8 /\ Bit(8 - (e + 1)) = 8 /\ Bit(8 - e) = 16
           /\ e = 5 => bit = 4 /\ Bit(8 - (e + 1)) = 4 /\ Bit(8 - e) = 8
           /\ e = 0 \/ e = 1 \/ e = 2 \/ e = 3 \/ e = 4 \/ e = 5
<1>1. e = 0 \/ e = 1 \/ e = 2 \/ e = 3 \/ e = 4 \/ e = 5 OBVIOUS
<1> QED BY <1>1, BitIs

\* The bits of a marker that are the highest byte's, and the two markers.
Spare(m) == m % Bit(8 - Extra(m))
LongMark(bit) == 256 - bit
ShortMark(e, h, bit) == IF e > 0 THEN h + 256 - 2 * bit ELSE h

\* The marker before a highest byte that does not fit in.
LEMMA MarkerLong ==
    ASSUME NEW e \in Nat, e <= 5, NEW bit, bit = Bit(7 - e)
    PROVE  \E m \in Byte : m = LongMark(bit) /\ Extra(m) = e + 1 /\ Spare(m) = 0
<1> DEFINE m == 256 - bit
<1>1. m \in Byte BY BitFacts, ByteRange, SMT
<1>2. Extra(m) = e + 1 BY <1>1, BitFacts, ExtraIs, SMT
<1>3. m % Bit(8 - (e + 1)) = 0 BY BitFacts, SMT
<1> HIDE DEF m
<1>4. m % Bit(8 - Extra(m)) = 0 BY <1>2, <1>3
<1> QED BY <1>1, <1>2, <1>4 DEF m, LongMark, Spare

\* The marker with the highest byte in it.
LEMMA MarkerShort ==
    ASSUME NEW e \in Nat, e <= 5, NEW bit, bit = Bit(7 - e), NEW h \in Int, 0 <= h, h < bit
    PROVE  \E m \in Byte : m = ShortMark(e, h, bit) /\ Extra(m) = e /\ Spare(m) = h
<1> DEFINE m == IF e > 0 THEN h + 256 - 2 * bit ELSE h
<1>1. m \in Byte BY BitFacts, ByteRange, SMT
<1>2. Extra(m) = e BY <1>1, BitFacts, ExtraIs, SMT
<1>3. m % Bit(8 - e) = h BY BitFacts, SMTT(30)
<1> HIDE DEF m
<1>4. m % Bit(8 - Extra(m)) = h BY <1>2, <1>3
<1> QED BY <1>1, <1>2, <1>4 DEF m, ShortMark, Spare

\* Behind its first m bytes x has but the byte in the marker's spare bits.
Rest(x, m, w, mk) ==
    (m + 1 <= w => x[m + 1] = Spare(mk)) /\ \A i \in (m + 2)..w : x[i] = 0

Marked(x, m, mk) == <<mk>> \o SubSeq(x, 1, m)

\* A marker before the first m bytes of x.
LEMMA VarTail ==
    ASSUME NEW w \in Nat, NEW x \in [1..w -> Byte], NEW m \in 0..w, NEW mk \in Byte,
           Rest(x, m, w, mk)
    PROVE  /\ Marked(x, m, mk) \in Seq(Byte) /\ Len(Marked(x, m, mk)) = m + 1
           /\ Marked(x, m, mk)[1] = mk /\ VarBytes(Marked(x, m, mk), w) = x
<1> DEFINE y == SubSeq(x, 1, m)
           B == <<mk>> \o y
           high == Spare(mk)
           buf == Append(y, high)
<1>1. x \in Seq(Byte) /\ Len(x) = w BY FcnSeq
<1>2. y \in Seq(Byte) /\ Len(y) = m /\ \A i \in 1..m : y[i] = x[i] BY <1>1
<1> HIDE DEF y
<1>3. B \in Seq(Byte) /\ Len(B) = m + 1 /\ B[1] = mk /\ Tail(B) = y BY <1>2
<1>4. VarBytes(B, w) = [i \in 1..w |-> IF i <= Len(buf) THEN buf[i] ELSE 0]
  BY <1>3 DEF VarBytes, Spare
<1> HIDE DEF high, B
<1>5. Len(buf) = m + 1 /\ buf[m + 1] = high /\ \A i \in 1..m : buf[i] = x[i] BY <1>2
<1> HIDE DEF buf
<1>6. ASSUME NEW i \in 1..w PROVE (IF i <= Len(buf) THEN buf[i] ELSE 0) = x[i]
  <2>1. CASE i <= m BY <1>5, <2>1
  <2>2. CASE i = m + 1 BY <1>5, <2>2 DEF high, Rest
  <2>3. CASE i > m + 1
    <3>1. i \in (m + 2)..w BY <2>3
    <3> QED BY <1>5, <2>3, <3>1 DEF Rest
  <2> QED BY <2>1, <2>2, <2>3
<1>7. VarBytes(B, w) = x BY <1>4, <1>6
<1> QED BY <1>3, <1>7 DEF Marked, B, y

\* Reading what write_varlong writes: as many bytes as its marker says, and
\* the number they are the bytes of.
LEMMA VarInverts ==
    ASSUME NEW w \in Nat, NEW mb \in Nat, mb >= 1, mb <= w, w - mb <= 5, NEW x \in [1..w -> Byte]
    PROVE  LET B == write_varlong(x, mb)
           IN  /\ B \in Seq(Byte) /\ Len(B) >= mb /\ Len(B) = mb + Extra(B[1])
               /\ VarBytes(B, w) = x
<1> DEFINE S == {mb} \cup {i \in DOMAIN x : x[i] # 0}
           B == write_varlong(x, mb)
<1>1. S \in SUBSET (0..w) /\ S # {} OBVIOUS
<1>2. PICK cnt : cnt = Max(S) OBVIOUS
<1>3. cnt \in S /\ \A y \in S : y <= cnt
  <2> HIDE DEF S
  <2> QED BY <1>1, <1>2, MaxFacts
<1>4. cnt \in 1..w /\ mb <= cnt /\ \A i \in (cnt + 1)..w : x[i] = 0 BY <1>3
<1>5. PICK e \in Nat : e = cnt - mb /\ e <= 5 /\ 7 + mb - cnt = 7 - e /\ cnt = mb + e BY <1>4
<1>6. PICK bit, h : bit = Bit(7 - e) /\ h = x[cnt] OBVIOUS
<1>6a. bit \in Int /\ 1 <= bit BY <1>5, <1>6, BitFacts
<1>6b. h \in Byte /\ h \in Int /\ 0 <= h
  <2>1. h \in Byte BY <1>4, <1>6
  <2> QED BY <2>1, ByteRange
<1>7. B = IF h >= bit THEN <<256 - bit>> \o SubSeq(x, 1, cnt)
          ELSE IF cnt > mb THEN <<h + 256 - 2 * bit>> \o SubSeq(x, 1, cnt - 1)
          ELSE <<h>> \o SubSeq(x, 1, cnt - 1)
  BY <1>2, <1>5, <1>6, ZenonT(40) DEF write_varlong
<1> HIDE DEF S, B
<1>8. CASE h >= bit
  <2>1. PICK mk \in Byte : mk = LongMark(bit) /\ Extra(mk) = e + 1 /\ Spare(mk) = 0
    BY <1>5, <1>6, MarkerLong, Zenon
  <2>2. B = Marked(x, cnt, mk) BY <1>7, <1>8, <2>1 DEF LongMark, Marked
  <2>3. cnt \in 0..w /\ (cnt + 1 <= w => x[cnt + 1] = 0) /\ \A i \in (cnt + 2)..w : x[i] = 0
    BY <1>4
  <2>4. B \in Seq(Byte) /\ Len(B) = cnt + 1 /\ B[1] = mk /\ VarBytes(B, w) = x
    <3>1. Rest(x, cnt, w, mk) BY <2>1, <2>3 DEF Rest
    <3>2. cnt \in 0..w BY <2>3
    <3> QED BY <2>2, <3>1, <3>2, VarTail, ZenonT(60)
  <2> QED BY <1>5, <2>1, <2>4 DEF B
<1>9. CASE ~(h >= bit)
  <2>0. h < bit BY <1>6a, <1>6b, <1>9
  <2>1. PICK mk \in Byte : mk = ShortMark(e, h, bit) /\ Extra(mk) = e /\ Spare(mk) = h
    <3>1. e \in Nat /\ e <= 5 /\ bit = Bit(7 - e) BY <1>5, <1>6
    <3>2. h \in Int /\ 0 <= h BY <1>6b
    <3> QED BY <3>1, <3>2, <2>0, MarkerShort, ZenonT(60)
  <2>2. B = Marked(x, cnt - 1, mk) BY <1>5, <1>7, <1>9, <2>1 DEF ShortMark, Marked
  <2>3. PICK m \in 0..w : m = cnt - 1 /\ m + 1 = cnt /\ m # w BY <1>4
  <2>4. x[m + 1] = Spare(mk) BY <1>6, <2>1, <2>3
  <2>5. \A i \in (m + 2)..w : x[i] = 0 BY <1>4, <2>3
  <2>6. B \in Seq(Byte) /\ Len(B) = m + 1 /\ B[1] = mk /\ VarBytes(B, w) = x
    <3>1. B = Marked(x, m, mk) BY <2>2, <2>3
    <3>2. Rest(x, m, w, mk) BY <2>4, <2>5 DEF Rest
    <3> QED BY <3>1, <3>2, VarTail, ZenonT(60)
  <2> QED BY <1>5, <2>1, <2>3, <2>6 DEF B
<1> QED BY <1>8, <1>9

-----------------------------------------------------------------------------
(* Every kind of item.                                                     *)

\* A reader of item asks for no more than B holds until it has all of B, and
\* then has the value.
Decodes(item, pv, B) ==
    /\ B \in Seq(Byte) /\ B # <<>>
    /\ \A n \in 0..(Len(B) - 1) : Needed(item, SubSeq(B, 1, n)) \in 1..(Len(B) - n)
    /\ Needed(item, B) = 0
    /\ Value(item, pv, B) = item.v

\* The first n elements of a sequence.
LEMMA PrefixFacts ==
    ASSUME NEW S, NEW B \in Seq(S), NEW n \in 0..Len(B)
    PROVE  /\ SubSeq(B, 1, n) \in Seq(S) /\ Len(SubSeq(B, 1, n)) = n
           /\ \A i \in 1..n : SubSeq(B, 1, n)[i] = B[i]
           /\ n > 0 => SubSeq(B, 1, n) # <<>>
  OBVIOUS

NeedsAll(item, len) == \A g \in Seq(Byte) : Needed(item, g) = len - Len(g)

\* Kinds of a fixed length.
LEMMA FixedDecodes ==
    ASSUME NEW item, NEW pv, NEW B \in Seq(Byte), NEW len \in Nat \ {0}, Len(B) = len,
           NeedsAll(item, len), Value(item, pv, B) = item.v
    PROVE  Decodes(item, pv, B)
<1>1. B # <<>> /\ Needed(item, B) = 0 BY DEF NeedsAll
<1>2. ASSUME NEW n \in 0..(Len(B) - 1) PROVE Needed(item, SubSeq(B, 1, n)) \in 1..(Len(B) - n)
  <2>1. n \in 0..Len(B) OBVIOUS
  <2>2. Len(SubSeq(B, 1, n)) = n /\ SubSeq(B, 1, n) \in Seq(Byte) BY <2>1, PrefixFacts
  <2>3. Needed(item, SubSeq(B, 1, n)) = len - n BY <2>2 DEF NeedsAll
  <2> QED BY <2>3
<1> QED BY <1>1, <1>2 DEF Decodes

\* write_byte and read_byte.
LEMMA ByteDecodes ==
    ASSUME NEW item, NEW pv, item.k = "byte", Encodable(item)
    PROVE  Decodes(item, pv, <<item.v>>)
<1>0. item.v \in Byte BY SMT DEF Encodable
<1>1. <<item.v>> \in Seq(Byte) /\ Len(<<item.v>>) = 1 BY <1>0
<1>2. NeedsAll(item, 1) BY DEF Needed, NeedsAll
<1>3. Value(item, pv, <<item.v>>) = item.v BY DEF Value
<1> QED BY <1>1, <1>2, <1>3, 1 \in Nat \ {0}, FixedDecodes, Zenon

\* write_shortint and read_shortint: two bytes, the lower one first.
LEMMA ShortDecodes ==
    ASSUME NEW item, NEW pv, item.k = "shortint", Encodable(item)
    PROVE  Decodes(item, pv, ToLE(item.v, 2))
<1> DEFINE x == item.v
           B == ToLE(x, 2)
           y(i) == (x \div <<1, 256, 65536, 16777216>>[i]) % 256
<1>0. x \in Nat /\ ~(x < 0) BY SMT DEF Encodable
<1>1. B = [i \in 1..2 |-> y(i)] BY <1>0 DEF ToLE
<1>2. y(1) = x % 256 /\ y(2) = (x \div 256) % 256
  <2>1. x \in Int BY <1>0
  <2> HIDE DEF x
  <2>2. x \div 1 = x BY <2>1, SMT
  <2> QED BY <2>1, <2>2, SMT
<1>3. /\ x % 256 \in Byte /\ (x \div 256) % 256 \in Byte
      /\ x = (x % 256) + 256 * ((x \div 256) % 256)
  <2>1. x \in Int /\ 0 <= x /\ x <= 65535 BY SMT DEF Encodable
  <2> HIDE DEF x
  <2>2. x % 256 \in Int /\ 0 <= x % 256 /\ x % 256 <= 255 BY <2>1, SMT
  <2>3. (x \div 256) % 256 \in Int /\ 0 <= (x \div 256) % 256 /\ (x \div 256) % 256 <= 255
    BY <2>1, SMT
  <2>4. x = (x % 256) + 256 * ((x \div 256) % 256) BY <2>1, SMT
  <2> QED BY <2>2, <2>3, <2>4, ByteRange, SMT
<1> HIDE DEF y
<1>4. \A i \in 1..2 : y(i) \in Byte
  <2>1. \A i \in 1..2 : i = 1 \/ i = 2 OBVIOUS
  <2> QED BY <1>2, <1>3, <2>1
<1>5. B \in [1..2 -> Byte] /\ B[1] = y(1) /\ B[2] = y(2) BY <1>1, <1>4
<1> HIDE DEF B
<1>6. B \in Seq(Byte) /\ Len(B) = 2
  <2>1. PICK two \in Nat : two = 2 OBVIOUS
  <2>2. B \in [1..two -> Byte] BY <1>5, <2>1
  <2>3. B \in Seq(Byte) /\ Len(B) = two BY <2>2, FcnSeq, Zenon
  <2> QED BY <2>1, <2>3
<1>7. NeedsAll(item, 2) BY DEF Needed, NeedsAll
<1>8. Value(item, pv, B) = B[1] + 256 * B[2] BY DEF Value
<1>9. Value(item, pv, B) = item.v BY <1>2, <1>3, <1>5, <1>8
<1>10. Decodes(item, pv, B) BY <1>6, <1>7, <1>9, 2 \in Nat \ {0}, FixedDecodes, Zenon
<1> QED BY <1>10 DEF B

\* write_int and read_int.
LEMMA IntDecodes ==
    ASSUME NEW item, NEW pv, item.k = "int", Encodable(item)
    PROVE  Decodes(item, pv, ToLE(item.v, 4))
<1>0. Int32(item.v) BY SMT DEF Encodable
<1>1. ToLE(item.v, 4) \in [1..4 -> Byte] BY <1>0, ToLEFields
<1>2. ToLE(item.v, 4) \in Seq(Byte) /\ Len(ToLE(item.v, 4)) = 4
  <2>1. PICK four \in Nat : four = 4 OBVIOUS
  <2>2. ToLE(item.v, 4) \in [1..four -> Byte] BY <1>1, <2>1
  <2>3. ToLE(item.v, 4) \in Seq(Byte) /\ Len(ToLE(item.v, 4)) = four BY <2>2, FcnSeq, Zenon
  <2> QED BY <2>1, <2>3
<1>3. NeedsAll(item, 4) BY DEF Needed, NeedsAll
<1>4. Value(item, pv, ToLE(item.v, 4)) = item.v BY <1>0, IntInverts DEF Value
<1> QED BY <1>2, <1>3, <1>4, 4 \in Nat \ {0}, FixedDecodes, Zenon

\* Bytes as they are, for which the reader knows the length.
LEMMA RawDecodes ==
    ASSUME NEW item, NEW pv, item.k = "raw", Encodable(item)
    PROVE  Decodes(item, pv, item.v)
<1>0. item.v \in Seq(Byte) /\ item.v # <<>> BY SMT DEF Encodable
<1>1. Len(item.v) \in Nat \ {0} BY <1>0
<1>2. NeedsAll(item, Len(item.v)) BY DEF Needed, NeedsAll
<1>3. Value(item, pv, item.v) = item.v BY DEF Value
<1> QED BY <1>0, <1>1, <1>2, <1>3, FixedDecodes

\* write_varint and read_varint: the first byte tells how many more there are.
LEMMA VarintDecodes ==
    ASSUME NEW item, NEW pv, item.k = "varint", Encodable(item)
    PROVE  Decodes(item, pv, write_varint(item.v))
<1> DEFINE x == ToLE(item.v, 4)
           B == write_varlong(x, 1)
<1>0. Int32(item.v) BY SMT DEF Encodable
<1>1. x \in [1..4 -> Byte] BY <1>0, ToLEFields
<1>2. B \in Seq(Byte) /\ Len(B) >= 1 /\ Len(B) = 1 + Extra(B[1]) /\ VarBytes(B, 4) = x
  <2> HIDE DEF x
  <2>1. PICK w \in Nat, mb \in Nat : w = 4 /\ mb = 1 /\ mb >= 1 /\ mb <= w /\ w - mb <= 5
    OBVIOUS
  <2>2. x \in [1..w -> Byte] BY <1>1, <2>1
  <2>3. LET b == write_varlong(x, mb)
        IN  b \in Seq(Byte) /\ Len(b) >= mb /\ Len(b) = mb + Extra(b[1]) /\ VarBytes(b, w) = x
    BY <2>1, <2>2, VarInverts
  <2> QED BY <2>1, <2>3
<1>3. write_varint(item.v) = B BY DEF write_varint
<1>4. Value(item, pv, B) = item.v
  <2>1. Value(item, pv, B) = FromLE(VarBytes(B, 4)) BY DEF Value, read_varint
  <2> QED BY <1>0, <1>2, <2>1, IntInverts
<1> HIDE DEF B
<1>5. /\ \A g : g = <<>> => Needed(item, g) = 1
      /\ \A g : g # <<>> => Needed(item, g) = (1 + Extra(g[1])) - Len(g)
  BY Zenon DEF Needed
<1>6. B # <<>> /\ Needed(item, B) = 0 BY <1>2, <1>5
<1>7. ASSUME NEW n \in 0..(Len(B) - 1) PROVE Needed(item, SubSeq(B, 1, n)) \in 1..(Len(B) - n)
  <2> DEFINE g == SubSeq(B, 1, n)
  <2>1. n \in 0..Len(B) BY <1>2
  <2>2. g \in Seq(Byte) /\ Len(g) = n /\ (n > 0 => g # <<>>) /\ \A i \in 1..n : g[i] = B[i] BY <1>2, <2>1, PrefixFacts
  <2> HIDE DEF g
  <2>3. CASE n = 0 
    <3>1. g = <<>> BY <2>3 DEF g
    <3>2. Needed(item, g) = 1 BY <1>5, <2>2, <3>1
    <3> QED BY <1>2, <2>3, <3>2 DEF g
  <2>4. CASE n > 0
    <3>1. g[1] = B[1] BY <2>2, <2>4
    <3>2. Needed(item, g) = Len(B) - n BY <1>2, <1>5, <2>2, <2>4, <3>1
    <3> QED BY <1>2, <3>2 DEF g
  <2> QED BY <2>3, <2>4
<1> QED BY <1>2, <1>3, <1>4, <1>6, <1>7 DEF Decodes

\* write_varlong and read_varlong, of 3 bytes at least or of 4.
LEMMA VarlongDecodes ==
    ASSUME NEW item, NEW pv, item.k = "varlong", Encodable(item)
    PROVE  Decodes(item, pv, write_varlong(item.v, item.mb))
<1> DEFINE B == write_varlong(item.v, item.mb)
<1>0. item.v \in [1..8 -> Byte] /\ item.mb \in {3, 4} BY SMT DEF Encodable
<1>1. PICK mb \in Nat : mb = item.mb /\ mb >= 3 /\ mb <= 8 /\ 8 - mb <= 5 BY <1>0
<1>2. B \in Seq(Byte) /\ Len(B) >= mb /\ Len(B) = mb + Extra(B[1]) /\ VarBytes(B, 8) = item.v
  <2>1. PICK w \in Nat : w = 8 OBVIOUS
  <2>2. item.v \in [1..w -> Byte] BY <1>0, <2>1
  <2>3. mb >= 1 /\ mb <= w /\ w - mb <= 5 BY <1>1, <2>1
  <2> QED BY <1>1, <2>1, <2>2, <2>3, VarInverts, ZenonT(40)
<1> HIDE DEF B
<1>4. Value(item, pv, B) = item.v BY <1>2 DEF Value, read_varlong
<1>5. /\ \A g : Len(g) < item.mb => Needed(item, g) = item.mb - Len(g)
      /\ \A g : ~(Len(g) < item.mb) => Needed(item, g) = (item.mb + Extra(g[1])) - Len(g)
  BY Zenon DEF Needed
<1>6. B # <<>> /\ Needed(item, B) = 0 BY <1>1, <1>2, <1>5
<1>7. ASSUME NEW n \in 0..(Len(B) - 1) PROVE Needed(item, SubSeq(B, 1, n)) \in 1..(Len(B) - n)
  <2> DEFINE g == SubSeq(B, 1, n)
  <2>1. n \in 0..Len(B) BY <1>2
  <2>2. g \in Seq(Byte) /\ Len(g) = n /\ \A i \in 1..n : g[i] = B[i] BY <1>2, <2>1, PrefixFacts
  <2> HIDE DEF g
  <2>3. CASE n < mb
    <3>1. Needed(item, g) = mb - n BY <1>1, <1>5, <2>2, <2>3
    <3> QED BY <1>2, <2>3, <3>1 DEF g
  <2>4. CASE ~(n < mb)
    <3>1. g[1] = B[1] BY <1>1, <2>2, <2>4
    <3>2. Needed(item, g) = Len(B) - n BY <1>1, <1>2, <1>5, <2>2, <2>4, <3>1
    <3> QED BY <1>2, <3>2 DEF g
  <2> QED BY <2>3, <2>4
<1> QED BY <1>2, <1>4, <1>6, <1>7 DEF Decodes, B

\* b is y and then z: the first part of any long enough prefix, and the second.
Joined(b, y, z) ==
    /\ b = y \o z /\ Len(b) = Len(y) + Len(z)
    /\ \A n \in Len(y)..Len(b) : SubSeq(SubSeq(b, 1, n), 1, Len(y)) = y
    /\ SubSeq(b, Len(y) + 1, Len(b)) = z
    /\ SubSeq(b, 1, Len(b)) = b

\* The parts of two sequences joined.
LEMMA JoinParts ==
    ASSUME NEW S, NEW y \in Seq(S), NEW z \in Seq(S)
    PROVE  \E b \in Seq(S) : Joined(b, y, z)
<1>0. PICK b : b = y \o z OBVIOUS
<1>1. b \in Seq(S) /\ Len(b) = Len(y) + Len(z) BY <1>0
<1>2. ASSUME NEW n \in Len(y)..Len(b) PROVE SubSeq(SubSeq(b, 1, n), 1, Len(y)) = y
  BY <1>0
<1>3. SubSeq(b, Len(y) + 1, Len(b)) = z BY <1>0
<1>4. SubSeq(b, 1, Len(b)) = b BY <1>1
<1> QED BY <1>0, <1>1, <1>2, <1>3, <1>4, Zenon DEF Joined

\* A number of eight bytes whose upper half is zero is its lower half.
LEMMA ShortLong ==
    ASSUME NEW four \in Nat, NEW x \in Seq(Byte), Len(x) = four + four,
           \A i \in (four + 1)..(four + four) : x[i] = 0
    PROVE  SubSeq(x, 1, four) \o [i \in 1..four |-> 0] = x
<1> DEFINE y == SubSeq(x, 1, four)
           z == [i \in 1..four |-> 0]
<1>1. y \in Seq(Byte) /\ Len(y) = four /\ \A i \in 1..four : y[i] = x[i] OBVIOUS
<1>2. z \in Seq(Nat) /\ Len(z) = four /\ \A i \in 1..four : z[i] = 0 OBVIOUS
<1> HIDE DEF y, z
<1>3. Len(y \o z) = four + four /\ DOMAIN (y \o z) = 1..(four + four) BY <1>1, <1>2
<1>4. ASSUME NEW i \in 1..(four + four) PROVE (y \o z)[i] = x[i]
  <2>1. CASE i <= four BY <1>1, <1>2, <2>1
  <2>2. CASE ~(i <= four) BY <1>1, <1>2, <2>2
  <2> QED BY <2>1, <2>2
<1>5. y \o z \in Seq(Byte \cup Nat) BY <1>1, <1>2
<1>6. y \o z = x BY <1>3, <1>4, <1>5
<1> QED BY <1>6 DEF y, z

\* One call of write_all, or two.
LEMMA SentIs ==
    /\ \A y \in Seq(Byte) : Sent(<<y>>, FALSE) = y
    /\ \A y, z : Sent(<<y, z>>, FALSE) = y \o z
<1>1. ASSUME NEW y \in Seq(Byte) PROVE Sent(<<y>>, FALSE) = y
  <2>1. 1 \in DOMAIN <<y>> /\ 2 \notin DOMAIN <<y>> /\ <<y>>[1] = y OBVIOUS
  <2>2. Sent(<<y>>, FALSE) = y \o <<>> BY <2>1 DEF Sent
  <2>3. y \o <<>> = y OBVIOUS
  <2> QED BY <2>2, <2>3
<1>2. ASSUME NEW y, NEW z PROVE Sent(<<y, z>>, FALSE) = y \o z BY DEF Sent
<1> QED BY <1>1, <1>2

\* The calls of write_all that write an item write bytes.
Calls(c) == /\ c = <<c[1]>> \/ c = <<c[1], c[2]>>
            /\ \A i \in DOMAIN c : c[i] \in Seq(Byte)

\* One call of write_all, or two.
LEMMA CallsAre ==
    /\ \A y \in Seq(Byte) : Calls(<<y>>)
    /\ \A y, z \in Seq(Byte) : Calls(<<y, z>>)
<1>1. ASSUME NEW y \in Seq(Byte) PROVE Calls(<<y>>)
  <2>1. DOMAIN <<y>> = {1} /\ <<y>>[1] = y OBVIOUS
  <2> QED BY <2>1 DEF Calls
<1>2. ASSUME NEW y \in Seq(Byte), NEW z \in Seq(Byte) PROVE Calls(<<y, z>>)
  <2>1. DOMAIN <<y, z>> = {1, 2} /\ <<y, z>>[1] = y /\ <<y, z>>[2] = z OBVIOUS
  <2> QED BY <2>1 DEF Calls
<1> QED BY <1>1, <1>2

\* read_longint asks for 4 bytes, and for 8 more when they are all ones.
LEMMA LongintNeeds ==
    ASSUME NEW item, item.k = "longint", NEW four, four = 4
    PROVE  /\ \A g : Len(g) < four \/ SubSeq(g, 1, four) # Sentinel => Needed(item, g) = four - Len(g)
           /\ \A g : ~(Len(g) < four \/ SubSeq(g, 1, four) # Sentinel)
                       => Needed(item, g) = 12 - Len(g)
           /\ \A pv, g : Value(item, pv, g) = read_longint(g)
<1>1. \A g : Len(g) < 4 \/ SubSeq(g, 1, 4) # Sentinel => Needed(item, g) = 4 - Len(g)
  BY Zenon DEF Needed
<1>2. \A g : ~(Len(g) < 4 \/ SubSeq(g, 1, 4) # Sentinel) => Needed(item, g) = 12 - Len(g)
  BY Zenon DEF Needed
<1>3. \A pv, g : Value(item, pv, g) = read_longint(g) BY Zenon DEF Value
<1> QED BY <1>1, <1>2, <1>3, Zenon

\* write_longint and read_longint.
LEMMA LongintDecodes ==
    ASSUME NEW item, NEW pv, item.k = "longint", Encodable(item)
    PROVE  /\ Decodes(item, pv, Sent(write_longint(item.v), FALSE))
           /\ Calls(write_longint(item.v))
<1> DEFINE small == item.v[4] < 128 /\ \A i \in 5..8 : item.v[i] = 0
<1>1. PICK four, x : four \in Nat /\ four = 4 /\ x = item.v OBVIOUS
<1>2. x \in [1..8 -> Byte] BY <1>1, SMT DEF Encodable
<1>3. x \in Seq(Byte) /\ Len(x) = four + four
  <2>1. PICK eight \in Nat : eight = 8 OBVIOUS
  <2>2. x \in [1..eight -> Byte] BY <1>2, <2>1
  <2>3. x \in Seq(Byte) /\ Len(x) = eight BY <2>2, FcnSeq, Zenon
  <2> QED BY <1>1, <2>1, <2>3
<1>4. /\ \A g : Len(g) < four \/ SubSeq(g, 1, four) # Sentinel => Needed(item, g) = four - Len(g)
      /\ \A g : ~(Len(g) < four \/ SubSeq(g, 1, four) # Sentinel)
                  => Needed(item, g) = 12 - Len(g)
      /\ \A g : Value(item, pv, g) = read_longint(g)
  BY <1>1, LongintNeeds, Zenon
<1>5. Sentinel \in Seq(Byte) /\ Len(Sentinel) = four /\ Sentinel[four] = 255
  <2>1. 255 \in Byte BY ByteRange
  <2> QED BY <1>1, <2>1, SMT DEF Sentinel
<1> HIDE DEF small
<1>6. CASE small
  <2> DEFINE B == SubSeq(x, 1, four)
  <2>1. write_longint(x) = <<B>> BY <1>1, <1>6, Zenon DEF write_longint, small
  <2>2. B \in Seq(Byte) /\ Len(B) = four /\ \A i \in 1..four : B[i] = x[i] BY <1>1, <1>3
  <2>4. SubSeq(B, 1, four) = B BY <2>2
  <2> HIDE DEF B
  <2>3. Sent(write_longint(x), FALSE) = B BY <2>1, <2>2, SentIs
  <2>5. ~(B[four] >= 128)
    <3>1. four \in 1..four /\ four \in 1..8 BY <1>1
    <3>2. B[four] = x[four] /\ x[four] \in Byte BY <1>2, <2>2, <3>1
    <3>3. x[four] < 128 BY <1>1, <1>6, Zenon DEF small
    <3> QED BY <3>2, <3>3, ByteRange
  <2>6. B # Sentinel BY <1>5, <2>5, SMT
  <2>7. Needed(item, B) = 0 BY <1>4, <2>2, <2>4, <2>6
  <2>8. ASSUME NEW n \in 0..(Len(B) - 1) PROVE Needed(item, SubSeq(B, 1, n)) \in 1..(Len(B) - n)
    <3>1. n \in 0..Len(B) BY <2>2
    <3>2. Len(SubSeq(B, 1, n)) = n BY <2>2, <3>1, PrefixFacts
    <3>4. n < four BY <2>2
    <3>3. Needed(item, SubSeq(B, 1, n)) = four - n BY <1>4, <3>2, <3>4, Zenon
    <3> QED BY <2>2, <3>3
  <2>9. read_longint(B) = x
    <3>1. read_longint(B) = B \o [i \in 1..four |-> IF B[four] >= 128 THEN 255 ELSE 0]
      BY <1>1, <2>4, <2>6, Zenon DEF read_longint
    <3>2. [i \in 1..four |-> IF B[four] >= 128 THEN 255 ELSE 0] = [i \in 1..four |-> 0]
      BY <2>5
    <3>3. \A i \in (four + 1)..(four + four) : x[i] = 0
      <4>1. four + 1 = 5 /\ four + four = 8 BY <1>1
      <4>2. \A i \in 5..8 : x[i] = 0 BY <1>1, <1>6, Zenon DEF small
      <4> QED BY <4>1, <4>2, Zenon
    <3>4. B \o [i \in 1..four |-> 0] = x BY <1>1, <1>3, <3>3, ShortLong DEF B
    <3> QED BY <3>1, <3>2, <3>4, Zenon
  <2>10. B # <<>> BY <1>1, <2>2
  <2>11. Decodes(item, pv, B) BY <1>1, <1>4, <2>2, <2>7, <2>8, <2>9, <2>10, Zenon DEF Decodes
  <2>12. Calls(write_longint(x)) BY <2>1, <2>2, CallsAre, Zenon
  <2> QED BY <1>1, <2>3, <2>11, <2>12, Zenon
<1>7. CASE ~small
  <2>1. PICK B \in Seq(Byte) : Joined(B, Sentinel, x)
    <3>1. Sentinel \in Seq(Byte) BY <1>5
    <3> QED BY <1>3, <3>1, JoinParts, Zenon
  <2>2. write_longint(x) = <<Sentinel, x>> BY <1>1, <1>7, Zenon DEF write_longint, small
  <2>3. Sent(write_longint(x), FALSE) = B BY <2>1, <2>2, SentIs, Zenon DEF Joined
  <2>4. /\ B \in Seq(Byte) /\ Len(B) = Len(Sentinel) + Len(x)
        /\ \A n \in Len(Sentinel)..Len(B) : SubSeq(SubSeq(B, 1, n), 1, Len(Sentinel)) = Sentinel
        /\ SubSeq(B, Len(Sentinel) + 1, Len(B)) = x /\ SubSeq(B, 1, Len(B)) = B
    BY <2>1, Zenon DEF Joined
  <2>5. Len(B) = 12 /\ Len(Sentinel) + 1 = 5 BY <1>1, <1>3, <1>5, <2>4
  <2>6. ASSUME NEW n \in 0..(Len(B)), n >= four PROVE Needed(item, SubSeq(B, 1, n)) = 12 - n
    <3>1. Len(SubSeq(B, 1, n)) = n BY <2>4, PrefixFacts
    <3>2. n \in Len(Sentinel)..Len(B) BY <1>1, <1>5, <2>5, <2>6
    <3>3. SubSeq(SubSeq(B, 1, n), 1, four) = Sentinel BY <1>5, <2>4, <3>2, Zenon
    <3>4. ~(n < four) BY <1>1, <2>5, <2>6
    <3> QED BY <1>4, <3>1, <3>3, <3>4, Zenon
  <2>7. Needed(item, B) = 0
    <3>1. Len(B) \in 0..Len(B) /\ Len(B) >= four BY <1>1, <2>5
    <3>2. Needed(item, SubSeq(B, 1, Len(B))) = 12 - Len(B) BY <2>6, <3>1
    <3>3. Needed(item, B) = 12 - Len(B) BY <2>4, <3>2, Zenon
    <3> QED BY <2>5, <3>3
  <2>8. ASSUME NEW n \in 0..(Len(B) - 1) PROVE Needed(item, SubSeq(B, 1, n)) \in 1..(Len(B) - n)
    <3>0. n \in 0..Len(B) BY <2>5
    <3>1. CASE n < four
      <4>2. Len(SubSeq(B, 1, n)) = n BY <2>4, <3>0, PrefixFacts
      <4>3. Needed(item, SubSeq(B, 1, n)) = four - n BY <1>4, <3>1, <4>2, Zenon
      <4> QED BY <1>1, <2>5, <3>1, <4>3
    <3>2. CASE ~(n < four)
      <4>1. n >= four BY <1>1, <3>2, <2>5
      <4>2. Needed(item, SubSeq(B, 1, n)) = 12 - n BY <2>6, <3>0, <4>1
      <4> QED BY <2>5, <4>2
    <3> QED BY <3>1, <3>2
  <2>9. read_longint(B) = x
    <3>1. Len(B) \in Len(Sentinel)..Len(B) BY <1>1, <1>5, <2>5
    <3>4. SubSeq(SubSeq(B, 1, Len(B)), 1, Len(Sentinel)) = Sentinel BY <2>4, <3>1
    <3>2. SubSeq(B, 1, 4) = Sentinel BY <1>1, <1>5, <2>4, <3>4
    <3>3. SubSeq(B, 5, 12) = x BY <2>4, <2>5, Zenon
    <3> QED BY <3>2, <3>3, Zenon DEF read_longint
  <2>10. B # <<>> BY <2>5
  <2>11. Decodes(item, pv, B) BY <1>1, <1>4, <2>4, <2>7, <2>8, <2>9, <2>10, Zenon DEF Decodes
  <2>12. Calls(write_longint(x)) BY <1>3, <1>5, <2>2, CallsAre, Zenon
  <2> QED BY <1>1, <2>3, <2>11, <2>12, Zenon
<1> QED BY <1>6, <1>7

\* Two sequences of one element joined.
LEMMA TwoJoined ==
    ASSUME NEW S, NEW a \in S, NEW b \in S
    PROVE  <<a>> \o <<b>> = <<a, b>>
<1>1. <<a>> \in Seq(S) /\ <<b>> \in Seq(S) /\ <<a, b>> \in Seq(S) OBVIOUS
<1>2. <<a>> \o <<b>> \in Seq(S) /\ Len(<<a>> \o <<b>>) = 2 BY <1>1
<1>3. \A i \in 1..2 : (<<a>> \o <<b>>)[i] = <<a, b>>[i]
  <2>1. (<<a>> \o <<b>>)[1] = a BY <1>1
  <2>2. (<<a>> \o <<b>>)[2] = b BY <1>1
  <2> QED BY <2>1, <2>2
<1>4. Len(<<a, b>>) = 2 OBVIOUS
<1> QED BY <1>1, <1>2, <1>3, <1>4, SeqEqual, Zenon

VHeader(len) == IF len > 127 THEN <<(len \div 256) + 128, len % 256>> ELSE <<len>>

\* What a reader makes of a header, or of more.
LEMMA VHeaderIs ==
    ASSUME NEW len \in Nat, len <= 32767
    PROVE  LET hd == VHeader(len)
           IN  /\ hd \in Seq(Byte) /\ Len(hd) \in {1, 2}
               /\ \A g : g[1] = hd[1] => VstringHeader(g) = Len(hd)
               /\ \A g : g[1] = hd[1] /\ (Len(hd) = 2 => g[2] = hd[2]) => VstringLen(g) = len
<1> DEFINE hd == VHeader(len)
<1>1. CASE len > 127
  <2>1. PICK a, b : a = (len \div 256) + 128 /\ b = len % 256 OBVIOUS
  <2>2. /\ a \in Int /\ 128 <= a /\ a <= 255 /\ b \in Int /\ 0 <= b /\ b <= 255
        /\ len = (a - 128) * 256 + b
    BY <1>1, <2>1, SMT
  <2>3. hd = <<a, b>> BY <1>1, <2>1 DEF VHeader
  <2>4. a \in Byte /\ b \in Byte BY <2>2, ByteRange
  <2>5. hd \in Seq(Byte) /\ Len(hd) = 2 /\ hd[1] = a /\ hd[2] = b BY <2>3, <2>4
  <2>6. a >= 128 BY <2>2
  <2> HIDE DEF hd
  <2>7. \A g : g[1] = a => VstringHeader(g) = 2 BY <2>6 DEF VstringHeader
  <2>8. \A g : g[1] = a /\ g[2] = b => VstringLen(g) = len BY <2>2, <2>6 DEF VstringLen
  <2> QED BY <2>5, <2>7, <2>8 DEF hd
<1>2. CASE ~(len > 127)
  <2>1. hd = <<len>> BY <1>2 DEF VHeader
  <2>2. len \in Byte /\ ~(len >= 128) BY <1>2, ByteRange
  <2>3. hd \in Seq(Byte) /\ Len(hd) = 1 /\ hd[1] = len BY <2>1, <2>2
  <2> HIDE DEF hd
  <2>4. \A g : g[1] = len => VstringHeader(g) = 1 /\ VstringLen(g) = len
    BY <2>2 DEF VstringHeader, VstringLen
  <2> QED BY <2>3, <2>4 DEF hd
<1> QED BY <1>1, <1>2

\* read_vstring asks for a byte, for a second one if the first has its high bit set, and
\* for the text.
LEMMA VstringNeeds ==
    ASSUME NEW item, item.k = "vstring"
    PROVE  /\ \A g : g = <<>> => Needed(item, g) = 1
           /\ \A g : g # <<>> /\ Len(g) < VstringHeader(g) => Needed(item, g) = 1
           /\ \A g : g # <<>> /\ ~(Len(g) < VstringHeader(g))
                     => Needed(item, g) = (VstringHeader(g) + VstringLen(g)) - Len(g)
           /\ \A pv, g : Value(item, pv, g) = SubSeq(g, VstringHeader(g) + 1, Len(g))
<1>1. \A g : g = <<>> => Needed(item, g) = 1 BY Zenon DEF Needed
<1>2. \A g : g # <<>> /\ Len(g) < VstringHeader(g) => Needed(item, g) = 1 BY Zenon DEF Needed
<1>3. \A g : g # <<>> /\ ~(Len(g) < VstringHeader(g))
             => Needed(item, g) = (VstringHeader(g) + VstringLen(g)) - Len(g)
  BY Zenon DEF Needed
<1>4. \A pv, g : Value(item, pv, g) = SubSeq(g, VstringHeader(g) + 1, Len(g))
  BY Zenon DEF Value, read_vstring
<1> QED BY <1>1, <1>2, <1>3, <1>4, Zenon

\* write_vstring and read_vstring.
LEMMA VstringDecodes ==
    ASSUME NEW item, NEW pv, item.k = "vstring", Encodable(item)
    PROVE  /\ Decodes(item, pv, Sent(write_vstring(item.v), FALSE))
           /\ Calls(write_vstring(item.v))
<1>1. PICK s, len, hd : s = item.v /\ len = Len(s) /\ hd = VHeader(len) OBVIOUS
<1>2. s \in Seq(Byte) /\ len \in Nat /\ len <= 32767
  <2>1. s \in Seq(Byte) /\ len <= 32767 BY <1>1, SMT DEF Encodable
  <2> QED BY <1>1, <2>1
<1>3. /\ hd \in Seq(Byte) /\ Len(hd) \in {1, 2}
      /\ \A g : g[1] = hd[1] => VstringHeader(g) = Len(hd)
      /\ \A g : g[1] = hd[1] /\ (Len(hd) = 2 => g[2] = hd[2]) => VstringLen(g) = len
  BY <1>1, <1>2, VHeaderIs, SMT
<1>4. PICK B \in Seq(Byte) : Joined(B, hd, s)
  <2>1. s \in Seq(Byte) BY <1>2
  <2> QED BY <1>3, <2>1, JoinParts, Zenon
<1>5. Calls(write_vstring(s)) /\ Sent(write_vstring(s), FALSE) = B
  <2>0. B = hd \o s BY <1>4, Zenon DEF Joined
  <2>1. write_vstring(s) = <<hd>> \o (IF len > 0 THEN <<s>> ELSE <<>>)
    BY <1>1, SMT DEF write_vstring, VHeader
  <2>2. CASE len > 0
    <3>1. write_vstring(s) = <<hd, s>>
      <4>1. write_vstring(s) = <<hd>> \o <<s>> BY <2>1, <2>2, Zenon
      <4>2. s \in Seq(Byte) BY <1>2
      <4> QED BY <1>3, <4>1, <4>2, TwoJoined, Zenon
    <3>2. s \in Seq(Byte) BY <1>2
    <3> QED BY <1>3, <2>0, <3>1, <3>2, CallsAre, SentIs, Zenon
  <2>3. CASE ~(len > 0)
    <3>1. write_vstring(s) = <<hd>> BY <2>1, <2>3
    <3>2. s = <<>> BY <1>1, <1>2, <2>3
    <3>3. B = hd BY <1>3, <2>0, <3>2
    <3> QED BY <1>3, <3>1, <3>3, CallsAre, SentIs, Zenon
  <2> QED BY <2>2, <2>3
<1>6. /\ Len(B) = Len(hd) + len
      /\ \A n \in Len(hd)..Len(B) : SubSeq(SubSeq(B, 1, n), 1, Len(hd)) = hd
      /\ SubSeq(B, Len(hd) + 1, Len(B)) = s
      /\ SubSeq(B, 1, Len(B)) = B
  BY <1>1, <1>4, Zenon DEF Joined
<1>7. \A i \in 1..Len(hd) : B[i] = hd[i]
  <2>1. B = hd \o s BY <1>4, Zenon DEF Joined
  <2> QED BY <1>2, <1>3, <2>1
<1>8. ASSUME NEW g \in Seq(Byte), Len(g) > 0, \A i \in 1..Len(g) : g[i] = B[i], Len(g) <= Len(B)
      PROVE  /\ Len(g) < Len(hd) => Needed(item, g) = 1
             /\ ~(Len(g) < Len(hd)) => Needed(item, g) = Len(B) - Len(g)
             /\ VstringHeader(g) = Len(hd)
  <2>1. g # <<>> /\ g[1] = hd[1] BY <1>3, <1>7, <1>8
  <2>2. VstringHeader(g) = Len(hd) BY <1>3, <2>1
  <2>3. Len(g) < Len(hd) => Needed(item, g) = 1 BY <2>1, <2>2, VstringNeeds, Zenon
  <2>4. CASE ~(Len(g) < Len(hd))
    <3>1. Len(hd) = 2 => g[2] = hd[2] BY <1>3, <1>7, <1>8, <2>4
    <3>2. VstringLen(g) = len BY <1>3, <2>1, <3>1
    <3>3. Needed(item, g) = (Len(hd) + len) - Len(g)
      <4>1. Needed(item, g) = (VstringHeader(g) + VstringLen(g)) - Len(g)
        BY <2>1, <2>2, <2>4, VstringNeeds, Zenon
      <4> QED BY <2>2, <3>2, <4>1
    <3> QED BY <1>6, <3>3, <2>2, <2>4
  <2> QED BY <2>2, <2>3, <2>4
<1>9. Len(B) > 0 /\ ~(Len(B) < Len(hd)) /\ B # <<>> BY <1>2, <1>3, <1>6
<1>10. Needed(item, B) = 0 /\ Value(item, pv, B) = s
  <2>1. Needed(item, B) = Len(B) - Len(B) /\ VstringHeader(B) = Len(hd) BY <1>8, <1>9
  <2>2. Value(item, pv, B) = SubSeq(B, VstringHeader(B) + 1, Len(B)) BY VstringNeeds, Zenon
  <2>3. Value(item, pv, B) = s BY <1>6, <2>1, <2>2, Zenon
  <2> QED BY <2>1, <2>3
<1>11. ASSUME NEW n \in 0..(Len(B) - 1) PROVE Needed(item, SubSeq(B, 1, n)) \in 1..(Len(B) - n)
  <2>1. PICK g : g = SubSeq(B, 1, n) OBVIOUS
  <2>2. n \in 0..Len(B) OBVIOUS
  <2>3. g \in Seq(Byte) /\ Len(g) = n /\ \A i \in 1..n : g[i] = B[i] BY <2>1, <2>2, PrefixFacts
  <2>4. CASE n = 0
    <3>1. g = <<>> BY <2>3, <2>4
    <3>2. Needed(item, g) = 1 BY <3>1, VstringNeeds, Zenon
    <3> QED BY <1>9, <2>1, <2>4, <3>2
  <2>5. CASE n > 0
    <3>1. /\ n < Len(hd) => Needed(item, g) = 1
          /\ ~(n < Len(hd)) => Needed(item, g) = Len(B) - n
      <4>1. Len(g) > 0 /\ Len(g) <= Len(B) /\ \A i \in 1..Len(g) : g[i] = B[i] BY <2>3, <2>5
      <4>2. /\ Len(g) < Len(hd) => Needed(item, g) = 1
            /\ ~(Len(g) < Len(hd)) => Needed(item, g) = Len(B) - Len(g)
        BY <1>8, <2>3, <4>1, Zenon
      <4> QED BY <2>3, <4>2
    <3> QED BY <1>2, <1>3, <1>6, <2>1, <3>1
  <2> QED BY <2>4, <2>5
<1>12. Decodes(item, pv, B) BY <1>1, <1>9, <1>10, <1>11, Zenon DEF Decodes
<1> QED BY <1>1, <1>5, <1>12, Zenon

\* The three forms of a code, and the number each stands for.
NdxForm(c) ==
    \/ Len(c) = 1 /\ c[1] # 254
    \/ Len(c) = 3 /\ c[1] = 254 /\ c[2] < 128
    \/ Len(c) = 5 /\ c[1] = 254 /\ ~(c[2] < 128)

NdxShape(c, a, last) ==
    \/ Len(c) = 1 /\ c[1] # 254 /\ a = last + c[1]
    \/ Len(c) = 3 /\ c[1] = 254 /\ c[2] < 128 /\ a = last + c[2] * 256 + c[3]
    \/ /\ Len(c) = 5 /\ c[1] = 254 /\ ~(c[2] < 128)
       /\ a = (c[2] - 128) * 16777216 + c[3] + c[4] * 256 + c[5] * 65536

CodeOf(c, a, last) ==
    c \in Seq(Byte) /\ c[1] # 0 /\ c[1] # 255 /\ NdxForm(c) /\ NdxShape(c, a, last)

\* The form of the bytes of an index: one byte, or two or four behind an escape.
LEMMA NdxCodeIs ==
    ASSUME NEW a, Int32(a), 0 <= a, NEW last \in Int
    PROVE  CodeOf(NdxCode(a, last), a, last)
<1> DEFINE c == NdxCode(a, last)
<1>0. a \in Int BY DEF Int32
<1>1. PICK diff \in Int : diff = a - last BY <1>0
<1>2. CASE diff \in 1..253
  <2>1. c = <<diff>> BY <1>1, <1>2 DEF NdxCode
  <2>2. diff \in Byte /\ diff # 0 /\ diff # 255 /\ diff # 254 BY <1>2, ByteRange, SMT
  <2>3. a = last + diff BY <1>0, <1>1
  <2>4. c \in Seq(Byte) /\ Len(c) = 1 /\ c[1] = diff BY <2>1, <2>2
  <2> HIDE DEF c
  <2> QED BY <2>2, <2>3, <2>4, SMT DEF NdxShape, NdxForm, CodeOf, c
<1>3. CASE diff \notin 1..253 /\ (diff < 0 \/ diff > 32767)
  <2>1. PICK d, b0, b1, b2 : /\ d = (a \div 16777216) + 128 /\ b0 = a % 256
                             /\ b1 = (a \div 256) % 256 /\ b2 = (a \div 65536) % 256
    OBVIOUS
  <2>2. c = <<254, d, b0, b1, b2>> BY <1>1, <1>3, <2>1 DEF NdxCode
  <2>3. a <= 2147483647 BY SMT DEF Int32
  <2>4. b0 \in Byte /\ b1 \in Byte /\ b2 \in Byte BY <1>0, <2>1, <2>3, FourBytes, SMT
  <2>5. d \in Int /\ 128 <= d /\ d <= 255 BY <1>0, <2>1, <2>3, SMT
  <2>6. a = (d - 128) * 16777216 + b0 + b1 * 256 + b2 * 65536
    <3>1. PICK q \in Int : q = a \div 16777216 /\ 0 <= q /\ q <= 127 BY <1>0, <2>3, SMT
    <3>2. q % 256 = q BY <3>1, SMT
    <3>3. a = (a % 256) + 256 * ((a \div 256) % 256) + 65536 * ((a \div 65536) % 256)
                  + 16777216 * ((a \div 16777216) % 256)
      BY <1>0, <2>3, FourBytes, SMT
    <3>4. b0 \in Int /\ b1 \in Int /\ b2 \in Int BY <2>4, ByteRange
    <3>5. a = b0 + 256 * b1 + 65536 * b2 + 16777216 * q BY <2>1, <3>1, <3>2, <3>3, SMT
    <3>6. d - 128 = q BY <2>1, <3>1, SMT
    <3> QED BY <1>0, <2>5, <3>1, <3>4, <3>5, <3>6, SMT
  <2>7. 254 \in Byte /\ d \in Byte BY <2>5, ByteRange, SMT
  <2>8. c \in Seq(Byte) BY <2>2, <2>4, <2>7
  <2>9. Len(c) = 5 /\ c[1] = 254 /\ c[2] = d /\ c[3] = b0 /\ c[4] = b1 /\ c[5] = b2 BY <2>2
  <2>10. ~(d < 128) BY <2>5
  <2> HIDE DEF c
  <2>11. NdxForm(c) /\ NdxShape(c, a, last) BY <2>6, <2>9, <2>10, SMT DEF NdxShape, NdxForm
  <2>12. c[1] # 0 /\ c[1] # 255 BY <2>9, SMT
  <2> QED BY <2>8, <2>11, <2>12, SMT DEF CodeOf, c
<1>4. CASE diff \notin 1..253 /\ ~(diff < 0 \/ diff > 32767)
  <2>1. PICK d, b : d = diff \div 256 /\ b = diff % 256 OBVIOUS
  <2>2. c = <<254, d, b>> BY <1>1, <1>4, <2>1 DEF NdxCode
  <2>3. /\ d \in Int /\ 0 <= d /\ d < 128 /\ b \in Int /\ 0 <= b /\ b <= 255
        /\ diff = d * 256 + b
    BY <1>4, <2>1, SMT
  <2>4. a = last + d * 256 + b BY <1>0, <1>1, <2>3, SMT
  <2>5. 254 \in Byte /\ d \in Byte /\ b \in Byte BY <2>3, ByteRange, SMT
  <2>6. c \in Seq(Byte) /\ Len(c) = 3 /\ c[1] = 254 /\ c[2] = d /\ c[3] = b BY <2>2, <2>5
  <2> HIDE DEF c
  <2>7. NdxForm(c) /\ NdxShape(c, a, last) BY <2>3, <2>4, <2>6, SMT DEF NdxShape, NdxForm
  <2>8. c[1] # 0 /\ c[1] # 255 BY <2>6, SMT
  <2> QED BY <2>6, <2>7, <2>8, SMT DEF CodeOf, c
<1> QED BY <1>2, <1>3, <1>4

\* B is a sign, if f is 2, and then c.
Signed(B, f, c) ==
    /\ f \in {1, 2} /\ Len(B) = (f + Len(c)) - 1 /\ B[1] # 0 /\ (B[1] = 255 <=> f = 2)
    /\ \A i \in 1..Len(c) : B[(f + i) - 1] = c[i]

\* An index from its code, with or without the byte that tells that it is below 0.
LEMMA SignedIs ==
    ASSUME NEW c \in Seq(Byte), c # <<>>, c[1] # 0, c[1] # 255
    PROVE  /\ Signed(c, 1, c)
           /\ <<255>> \o c \in Seq(Byte) /\ Signed(<<255>> \o c, 2, c)
<1>1. Signed(c, 1, c) BY DEF Signed
<1>2. 255 \in Byte BY ByteRange
<1>3. <<255>> \in Seq(Byte) /\ Len(<<255>>) = 1 /\ <<255>>[1] = 255 BY <1>2
<1>4. PICK s \in Seq(Byte) : s = <<255>> /\ Len(s) = 1 /\ s[1] = 255 BY <1>3
<1>5. s \o c \in Seq(Byte) /\ Signed(s \o c, 2, c) BY <1>4, SMT DEF Signed
<1> QED BY <1>1, <1>4, <1>5

\* A reader that has less than B goes on, and stops with B.
LEMMA NdxStops ==
    ASSUME NEW c \in Seq(Byte), NEW f, NEW B \in Seq(Byte), NdxForm(c), Signed(B, f, c)
    PROVE  /\ B # <<>> /\ NdxFirst(B) = f /\ NdxComplete(B)
           /\ \A n \in 0..(Len(B) - 1) : ~NdxComplete(SubSeq(B, 1, n))
<1>1. f \in {1, 2} /\ Len(c) \in {1, 3, 5} BY DEF Signed, NdxForm
<1>2. Len(B) = (f + Len(c)) - 1 /\ B[f] = c[1] /\ (Len(c) > 1 => B[f + 1] = c[2])
  <2>1. \A i \in 1..Len(c) : B[(f + i) - 1] = c[i] BY DEF Signed
  <2>2. 1 \in 1..Len(c) /\ (f + 1) - 1 = f /\ (Len(c) > 1 => 2 \in 1..Len(c)) /\ (f + 2) - 1 = f + 1
    <3>0. f \in Nat /\ Len(c) \in Nat /\ Len(c) >= 1
      <4>1. f \in Nat BY <1>1
      <4>2. Len(c) \in Nat OBVIOUS
      <4>3. \A m : m \in {1, 3, 5} => m >= 1 OBVIOUS
      <4>4. Len(c) >= 1 BY <1>1, <4>3, Zenon
      <4> QED BY <4>1, <4>2, <4>4
    <3>1. PICK m \in Nat, k \in Nat : m = Len(c) /\ m >= 1 /\ k = f BY <3>0, Zenon
    <3>2. 1 \in 1..m /\ (k + 1) - 1 = k /\ (m > 1 => 2 \in 1..m) /\ (k + 2) - 1 = k + 1 BY <3>1
    <3> QED BY <3>1, <3>2, Zenon
  <2>3. Len(B) = (f + Len(c)) - 1 BY DEF Signed
  <2>4. B[f] = c[1] BY <2>1, <2>2
  <2>5. Len(c) > 1 => B[f + 1] = c[2] BY <2>1, <2>2
  <2> QED BY <2>3, <2>4, <2>5
<1>3. B[1] # 0 /\ (B[1] = 255 <=> f = 2) BY DEF Signed
<1>4. ASSUME NEW g \in Seq(Byte), Len(g) > 0, Len(g) <= Len(B), \A i \in 1..Len(g) : g[i] = B[i]
      PROVE  NdxFirst(g) = f /\ (NdxComplete(g) <=> Len(g) = Len(B))
  <2>1. g[1] = B[1] /\ g # <<>> BY <1>4
  <2>2. NdxFirst(g) = f BY <1>1, <1>3, <2>1, SMT DEF NdxFirst
  <2>3. NdxComplete(g) <=> \/ Len(g) >= f /\ g[f] # 254
                           \/ Len(g) >= f + 2 /\ g[f + 1] < 128
                           \/ Len(g) = f + 4
    <3>1. g[1] # 0 BY <1>3, <2>1
    <3>2. PICK k : k = 254 OBVIOUS
    <3>3. NdxComplete(g) <=> \/ Len(g) >= f /\ g[f] # k
                             \/ Len(g) >= f + 2 /\ g[f + 1] < 128
                             \/ Len(g) = f + 4
      BY <2>1, <2>2, <3>1, <3>2, SMT DEF NdxComplete
    <3> QED BY <3>2, <3>3
  <2>4. Len(g) >= f => g[f] = c[1]
    <3>1. Len(g) >= f => f \in 1..Len(g) BY <1>1
    <3> QED BY <1>2, <1>4, <3>1
  <2>5. Len(g) >= f + 2 /\ Len(c) > 1 => g[f + 1] = c[2]
    <3>1. Len(g) >= f + 2 => f + 1 \in 1..Len(g) BY <1>1
    <3> QED BY <1>2, <1>4, <3>1
  <2>6. PICK n \in Nat, m \in Nat : n = Len(g) /\ m = Len(c) OBVIOUS
  <2>7. NdxComplete(g) <=> Len(g) = Len(B)
    <3>1. CASE m = 1 /\ c[1] # 254
      BY <1>1, <1>2, <1>4, <2>3, <2>4, <2>5, <2>6, <3>1
    <3>2. CASE m = 3 /\ c[1] = 254 /\ c[2] < 128
      BY <1>1, <1>2, <1>4, <2>3, <2>4, <2>5, <2>6, <3>2
    <3>3. CASE m = 5 /\ c[1] = 254 /\ ~(c[2] < 128)
      BY <1>1, <1>2, <1>4, <2>3, <2>4, <2>5, <2>6, <3>3
    <3> QED BY <2>6, <3>1, <3>2, <3>3 DEF NdxForm
  <2> QED BY <2>2, <2>7
<1>5. ASSUME NEW n \in 0..(Len(B) - 1) PROVE ~NdxComplete(SubSeq(B, 1, n))
  <2>1. PICK g : g = SubSeq(B, 1, n) OBVIOUS
  <2>2. n \in 0..Len(B) OBVIOUS
  <2>3. g \in Seq(Byte) /\ Len(g) = n /\ \A i \in 1..n : g[i] = B[i] BY <2>1, <2>2, PrefixFacts
  <2>4. CASE n = 0
    <3>1. g = <<>> BY <2>3, <2>4
    <3>2. ~NdxComplete(g) BY <3>1, Zenon DEF NdxComplete
    <3> QED BY <2>1, <3>2
  <2>5. CASE n > 0
    <3>1. Len(g) > 0 /\ Len(g) <= Len(B) /\ Len(g) # Len(B) BY <2>3, <2>5
    <3>2. \A i \in 1..Len(g) : g[i] = B[i] BY <2>3
    <3>3. ~NdxComplete(g) BY <1>4, <2>3, <3>1, <3>2, Zenon
    <3> QED BY <2>1, <3>3
  <2> QED BY <2>4, <2>5
<1>6. Len(B) > 0 /\ B # <<>> /\ Len(B) <= Len(B) BY <1>1, <1>2
<1>7. NdxFirst(B) = f /\ NdxComplete(B) BY <1>4, <1>6, Zenon
<1> QED BY <1>5, <1>6, <1>7

\* What the two previous indices of a stream are.
Prev(p) == DOMAIN p = {"pos", "neg"} /\ p.pos \in Int /\ p.neg \in Int

\* read_ndx adds up what write_ndx has taken apart, at every distance from the previous index.
LEMMA NdxValue ==
    ASSUME NEW c \in Seq(Byte), NEW f, NEW B \in Seq(Byte), NdxForm(c), Signed(B, f, c),
           NEW pv, Prev(pv), NEW a, NdxShape(c, a, IF f = 2 THEN pv.neg ELSE pv.pos)
    PROVE  read_ndx(pv, B) = IF f = 2 THEN -a ELSE a
<1>1. PICK last : last = IF f = 2 THEN pv.neg ELSE pv.pos BY SMT
<1>2. NdxFirst(B) = f BY NdxStops
<1>3. B[1] # 0 BY DEF Signed
<1>4. PICK num : num = IF B[f] # 254 THEN last + B[f]
               ELSE IF B[f + 1] < 128 THEN last + B[f + 1] * 256 + B[f + 2]
               ELSE (B[f + 1] - 128) * 16777216 + B[f + 2]
                    + B[f + 3] * 256 + B[f + 4] * 65536
  BY SMT
<1>5. read_ndx(pv, B) = IF f = 2 THEN -num ELSE num
  BY <1>1, <1>2, <1>3, <1>4, SMT DEF read_ndx
<1>6. num = a
  <2>0. \A i \in 1..Len(c) : B[(f + i) - 1] = c[i] BY DEF Signed
  <2>1. f \in {1, 2} BY DEF Signed
  <2>2. (f + 1) - 1 = f /\ (f + 2) - 1 = f + 1 /\ (f + 3) - 1 = f + 2 /\ (f + 4) - 1 = f + 3
        /\ (f + 5) - 1 = f + 4
    BY <2>1, SMT
  <2>3. NdxShape(c, a, last) BY <1>1, Zenon
  <2>4. CASE Len(c) = 1 /\ c[1] # 254 /\ a = last + c[1]
    <3>1. 1 \in 1..Len(c) BY <2>4, SMT
    <3>2. B[(f + 1) - 1] = c[1] BY <2>0, <3>1, Zenon
    <3>3. B[f] = c[1] BY <2>2, <3>2, Zenon
    <3> QED BY <1>4, <2>4, <3>3, SMT
  <2>5. CASE Len(c) = 3 /\ c[1] = 254 /\ c[2] < 128 /\ a = last + c[2] * 256 + c[3]
    <3>1. 1 \in 1..Len(c) /\ 2 \in 1..Len(c) /\ 3 \in 1..Len(c) BY <2>5, SMT
    <3>2. B[f] = c[1] /\ B[f + 1] = c[2] /\ B[f + 2] = c[3] BY <2>0, <2>2, <3>1, SMTT(30)
    <3> QED BY <1>4, <2>5, <3>2, SMT
  <2>6. CASE /\ Len(c) = 5 /\ c[1] = 254 /\ ~(c[2] < 128)
             /\ a = (c[2] - 128) * 16777216 + c[3] + c[4] * 256 + c[5] * 65536
    <3>1. 1 \in 1..Len(c) /\ 2 \in 1..Len(c) /\ 3 \in 1..Len(c) /\ 4 \in 1..Len(c) /\ 5 \in 1..Len(c)
      BY <2>6, SMT
    <3>2. B[f] = c[1] /\ B[f + 1] = c[2] /\ B[f + 2] = c[3] /\ B[f + 3] = c[4] /\ B[f + 4] = c[5]
      BY <2>0, <2>2, <3>1, SMT
    <3> QED BY <1>4, <2>6, <3>2, SMT
  <2> QED BY <2>3, <2>4, <2>5, <2>6, SMT DEF NdxShape
<1> QED BY <1>5, <1>6, SMT

\* write_ndx and read_ndx, given the same previous index.
LEMMA NdxDecodes ==
    ASSUME NEW item, NEW pv, Prev(pv), item.k = "ndx", Encodable(item)
    PROVE  Decodes(item, pv, write_ndx(pv, item.v))
<1>1. PICK x : x = item.v OBVIOUS
<1>2. Int32(x) /\ x # -2147483647 - 1 BY <1>1, SMT DEF Encodable
<1>3. PICK a : a = IF x < 0 THEN -x ELSE x OBVIOUS
<1>4. x \in Int /\ a \in Int /\ Int32(a) /\ 0 <= a BY <1>2, <1>3, SMT DEF Int32
<1>5. \A g : Value(item, pv, g) = read_ndx(pv, g) BY Zenon DEF Value
<1>6. \A g : (NdxComplete(g) => Needed(item, g) = 0) /\ (~NdxComplete(g) => Needed(item, g) = 1)
  BY Zenon DEF Needed
<1>7. ASSUME NEW B \in Seq(Byte), B # <<>>, NdxComplete(B), read_ndx(pv, B) = x,
             \A n \in 0..(Len(B) - 1) : ~NdxComplete(SubSeq(B, 1, n))
      PROVE  Decodes(item, pv, B)
  <2>1. \A n \in 0..(Len(B) - 1) : Needed(item, SubSeq(B, 1, n)) = 1 BY <1>6, <1>7, Zenon
  <2>2. \A n \in 0..(Len(B) - 1) : 1 \in 1..(Len(B) - n) OBVIOUS
  <2> QED BY <1>1, <1>5, <1>6, <1>7, <2>1, <2>2, Zenon DEF Decodes
<1>8. CASE x = NDX_DONE
  <2>1. write_ndx(pv, x) = <<0>> BY <1>8, SMT DEF write_ndx
  <2>2. PICK B : B = <<0>> OBVIOUS
  <2>3. B \in Seq(Byte) /\ B # <<>> /\ B[1] = 0 /\ Len(B) = 1
    <3>1. 0 \in Byte BY ByteRange
    <3> QED BY <2>2, <3>1
  <2>4. NdxComplete(B) BY <2>3, Zenon DEF NdxComplete
  <2>5. read_ndx(pv, B) = x BY <1>8, <2>3, SMT DEF read_ndx
  <2>6. ASSUME NEW n \in 0..(Len(B) - 1) PROVE ~NdxComplete(SubSeq(B, 1, n))
    <3>1. n = 0 BY <2>3
    <3>2. SubSeq(B, 1, n) = <<>> BY <2>3, <3>1
    <3>3. ~NdxComplete(<<>>) BY Zenon DEF NdxComplete
    <3> QED BY <3>2, <3>3
  <2>7. Decodes(item, pv, B) BY <1>7, <2>3, <2>4, <2>5, <2>6, Zenon
  <2> QED BY <1>1, <2>1, <2>2, <2>7, Zenon
<1>9. ASSUME NEW f, NEW c, NEW last, CodeOf(c, a, last), last = (IF f = 2 THEN pv.neg ELSE pv.pos),
             NEW B \in Seq(Byte), Signed(B, f, c), x = IF f = 2 THEN -a ELSE a
      PROVE  Decodes(item, pv, B)
  <2>1. c \in Seq(Byte) /\ NdxForm(c) /\ NdxShape(c, a, last) BY <1>9, SMT DEF CodeOf
  <2>2. /\ B # <<>> /\ NdxComplete(B)
        /\ \A n \in 0..(Len(B) - 1) : ~NdxComplete(SubSeq(B, 1, n))
    BY <1>9, <2>1, NdxStops, Zenon
  <2>3. NdxShape(c, a, IF f = 2 THEN pv.neg ELSE pv.pos) BY <1>9, <2>1, Zenon
  <2>4. read_ndx(pv, B) = IF f = 2 THEN -a ELSE a BY <1>9, <2>1, <2>3, NdxValue, Zenon
  <2>5. read_ndx(pv, B) = x BY <1>9, <2>4, Zenon
  <2> QED BY <1>7, <2>2, <2>5, Zenon
<1>10. \A last \in Int : CodeOf(NdxCode(a, last), a, last) BY <1>4, NdxCodeIs, Zenon
<1>11. ASSUME NEW c, NEW last, CodeOf(c, a, last)
       PROVE  /\ c \in Seq(Byte) /\ Signed(c, 1, c)
              /\ <<255>> \o c \in Seq(Byte) /\ Signed(<<255>> \o c, 2, c)
  <2>1. c \in Seq(Byte) /\ c[1] # 0 /\ c[1] # 255 /\ NdxForm(c) BY <1>11, SMT DEF CodeOf
  <2>2. c # <<>> BY <2>1 DEF NdxForm
  <2> QED BY <2>1, <2>2, SignedIs, SMT
<1>12. CASE x # NDX_DONE /\ x < 0
  <2>1. PICK c, last : c = NdxCode(a, last) /\ last = pv.neg OBVIOUS
  <2>2. CodeOf(c, a, last) BY <1>10, <2>1 DEF Prev
  <2>3. PICK B : B = <<255>> \o c OBVIOUS
  <2>4. B \in Seq(Byte) /\ Signed(B, 2, c) BY <1>11, <2>2, <2>3, SMT
  <2>5. write_ndx(pv, x) = B
    <3>1. write_ndx(pv, x) = <<255>> \o NdxCode(-x, pv.neg) BY <1>12, SMT DEF write_ndx
    <3>2. -x = a BY <1>3, <1>12
    <3> QED BY <2>1, <2>3, <3>1, <3>2, SMT
  <2>6. x = -a BY <1>3, <1>4, <1>12
  <2>7. x = (IF 2 = 2 THEN -a ELSE a) /\ last = IF 2 = 2 THEN pv.neg ELSE pv.pos BY <2>1, <2>6
  <2>8. Decodes(item, pv, B) BY <1>9, <2>2, <2>4, <2>7, Zenon
  <2> QED BY <1>1, <2>5, <2>8, Zenon
<1>13. CASE x # NDX_DONE /\ ~(x < 0)
  <2>1. PICK B, last : B = NdxCode(a, last) /\ last = pv.pos OBVIOUS
  <2>2. CodeOf(B, a, last) BY <1>10, <2>1 DEF Prev
  <2>4. B \in Seq(Byte) /\ Signed(B, 1, B) BY <1>11, <2>2, SMT
  <2>5. write_ndx(pv, x) = B
    <3>1. write_ndx(pv, x) = NdxCode(x, pv.pos) BY <1>13, SMT DEF write_ndx
    <3>2. x = a BY <1>3, <1>13
    <3> QED BY <2>1, <3>1, <3>2, SMT
  <2>6. x = a BY <1>3, <1>13
  <2>7. x = (IF 1 = 2 THEN -a ELSE a) /\ last = IF 1 = 2 THEN pv.neg ELSE pv.pos BY <2>1, <2>6
  <2>8. Decodes(item, pv, B) BY <1>9, <2>2, <2>4, <2>7, Zenon
  <2> QED BY <1>1, <2>5, <2>8, Zenon
<1> QED BY <1>8, <1>12, <1>13

\* The kinds of items.
LEMMA Kinds ==
    ASSUME NEW item, Encodable(item), item.k # "mux"
    PROVE  item.k \in {"byte", "shortint", "int", "longint", "varint", "varlong", "ndx", "vstring", "raw"}
  BY SMT DEF Encodable

\* Every item but "mux" is written with bytes a reader of it decodes.
LEMMA ItemDecodes ==
    ASSUME NEW item, Encodable(item), item.k # "mux", NEW pv, Prev(pv)
    PROVE  Decodes(item, pv, Sent(Written(item, pv), FALSE)) /\ Calls(Written(item, pv))
<1>0. ASSUME NEW B, Written(item, pv) = <<B>>, Decodes(item, pv, B)
      PROVE  Decodes(item, pv, Sent(Written(item, pv), FALSE)) /\ Calls(Written(item, pv))
  <2>1. B \in Seq(Byte) BY <1>0, Zenon DEF Decodes
  <2>2. Sent(<<B>>, FALSE) = B BY <2>1, SentIs, Zenon
  <2>3. Calls(<<B>>) BY <2>1, CallsAre, Zenon
  <2> QED BY <1>0, <2>2, <2>3, Zenon
<1>1. CASE item.k = "byte"
  <2>1. Written(item, pv) = <<<<item.v>>>> BY <1>1, Zenon DEF Written
  <2> QED BY <1>0, <1>1, <2>1, ByteDecodes, Zenon
<1>2. CASE item.k = "shortint"
  <2>1. Written(item, pv) = <<ToLE(item.v, 2)>> BY <1>2, Zenon DEF Written
  <2> QED BY <1>0, <1>2, <2>1, ShortDecodes, Zenon
<1>3. CASE item.k = "int"
  <2>1. Written(item, pv) = <<ToLE(item.v, 4)>> BY <1>3, Zenon DEF Written
  <2> QED BY <1>0, <1>3, <2>1, IntDecodes, Zenon
<1>4. CASE item.k = "longint"
  <2>1. Written(item, pv) = write_longint(item.v) BY <1>4, Zenon DEF Written
  <2> QED BY <1>4, <2>1, LongintDecodes, Zenon
<1>5. CASE item.k = "varint"
  <2>1. Written(item, pv) = <<write_varint(item.v)>> BY <1>5, Zenon DEF Written
  <2> QED BY <1>0, <1>5, <2>1, VarintDecodes, Zenon
<1>6. CASE item.k = "varlong"
  <2>1. Written(item, pv) = <<write_varlong(item.v, item.mb)>> BY <1>6, Zenon DEF Written
  <2> QED BY <1>0, <1>6, <2>1, VarlongDecodes, Zenon
<1>7. CASE item.k = "ndx"
  <2>1. Written(item, pv) = <<write_ndx(pv, item.v)>> BY <1>7, Zenon DEF Written
  <2> QED BY <1>0, <1>7, <2>1, NdxDecodes, Zenon
<1>8. CASE item.k = "vstring"
  <2>1. Written(item, pv) = write_vstring(item.v) BY <1>8, Zenon DEF Written
  <2> QED BY <1>8, <2>1, VstringDecodes, Zenon
<1>9. CASE item.k = "raw"
  <2>1. Written(item, pv) = <<item.v>> BY <1>9, Zenon DEF Written
  <2> QED BY <1>0, <1>9, <2>1, RawDecodes, Zenon
<1> QED BY <1>1, <1>2, <1>3, <1>4, <1>5, <1>6, <1>7, <1>8, <1>9, Kinds

-----------------------------------------------------------------------------
(* Frames.                                                                 *)

\* What a frame may hold.
Fits(t) == t \in Seq(Byte) /\ Len(t) <= FrameMax

Frame(code, t) == Header(code, Len(t)) \o t

\* A header, wherever it stands, is read as it was written.
LEMMA HeaderIs ==
    ASSUME NEW t, Fits(t), NEW code \in MsgCodes
    PROVE  /\ Header(code, Len(t)) \in Seq(Byte) /\ Len(Header(code, Len(t))) = 4
           /\ \A h : (\A i \in 1..4 : h[i] = Header(code, Len(t))[i])
                       => HeaderCode(h) = code /\ HeaderLen(h) = Len(t)
<1>1. PICK len : len = Len(t) OBVIOUS
<1>2. len \in Int /\ 0 <= len /\ len <= 16777215 BY <1>1, WireAssumption, SMT DEF Fits
<1>3. PICK a, b, c, d : /\ a = len % 256 /\ b = (len \div 256) % 256 /\ c = len \div 65536
                        /\ d = MPLEX_BASE + code
  OBVIOUS
<1>4. code \in Int /\ 0 <= code /\ code <= 102 BY SMT DEF MsgCodes
<1>5. a \in Byte /\ b \in Byte /\ c \in Byte /\ d \in Byte
  <2>1. a \in Int /\ 0 <= a /\ a <= 255 /\ b \in Int /\ 0 <= b /\ b <= 255 BY <1>2, <1>3, SMT
  <2>2. c \in Int /\ 0 <= c /\ c <= 255 BY <1>2, <1>3, SMT
  <2>3. d \in Int /\ 0 <= d /\ d <= 255 BY <1>3, <1>4, SMT DEF MPLEX_BASE
  <2> QED BY <2>1, <2>2, <2>3, ByteRange, SMT
<1>6. a + 256 * b + 65536 * c = len
  <2>1. a + 256 * b = len % 65536 BY <1>2, <1>3, SMT
  <2>2. (len % 65536) + 65536 * (len \div 65536) = len BY <1>2, SMT
  <2> QED BY <1>2, <1>3, <2>1, <2>2, SMT
<1>7. Header(code, len) = <<a, b, c, d>> BY <1>3, SMT DEF Header
<1>8. /\ Header(code, len) \in Seq(Byte) /\ Len(Header(code, len)) = 4
      /\ Header(code, len)[1] = a /\ Header(code, len)[2] = b
      /\ Header(code, len)[3] = c /\ Header(code, len)[4] = d
  BY <1>5, <1>7
<1>9. ASSUME NEW h, \A i \in 1..4 : h[i] = Header(code, len)[i]
      PROVE  HeaderCode(h) = code /\ HeaderLen(h) = len
  <2>1. h[1] = a /\ h[2] = b /\ h[3] = c /\ h[4] = d BY <1>8, <1>9, ToFour
  <2>2. HeaderLen(h) = len BY <1>6, <2>1, SMT DEF HeaderLen
  <2>3. ~(d < MPLEX_BASE) /\ d - MPLEX_BASE = code BY <1>3, <1>4, SMT DEF MPLEX_BASE
  <2>4. HeaderCode(h) = code BY <2>1, <2>3, Zenon DEF HeaderCode
  <2> QED BY <2>2, <2>4
<1> QED BY <1>1, <1>8, <1>9, Zenon

\* A frame is four bytes and its payload.
LEMMA FrameIs ==
    ASSUME NEW t, Fits(t), NEW code \in MsgCodes
    PROVE  Frame(code, t) \in Seq(Byte) /\ Len(Frame(code, t)) = 4 + Len(t)
<1>1. t \in Seq(Byte) BY DEF Fits
<1>2. PICK h \in Seq(Byte) : h = Header(code, Len(t)) /\ Len(h) = 4 BY HeaderIs, Zenon
<1>3. h \o t \in Seq(Byte) /\ Len(h \o t) = Len(h) + Len(t) BY <1>1
<1> QED BY <1>2, <1>3, Zenon DEF Frame

\* The pairs of a framed stream F and the data B in its frames: the smallest set that
\* has the empty pair and grows by data frames and by messages.
Closed(K) ==
    /\ <<<<>>, <<>>>> \in K
    /\ \A F, B, t : <<F, B>> \in K /\ Fits(t) => <<F \o Frame(Data, t), B \o t>> \in K
    /\ \A F, B, t : \A code \in MsgCodes :
         <<F, B>> \in K /\ Fits(t) /\ code # Data => <<F \o Frame(code, t), B>> \in K

Streams == Seq(Byte) \X Seq(Byte)

Framed(F, B) == \A K \in SUBSET Streams : Closed(K) => <<F, B>> \in K

\* All pairs are such a set.
LEMMA StreamsClosed == Closed(Streams)
<1>1. <<<<>>, <<>>>> \in Streams
  <2>1. <<>> \in Seq(Byte) OBVIOUS
  <2> QED BY <2>1, Zenon DEF Streams
<1>2. ASSUME NEW F, NEW B, NEW t, NEW code \in MsgCodes, <<F, B>> \in Streams, Fits(t)
      PROVE  <<F \o Frame(code, t), B \o t>> \in Streams /\ <<F \o Frame(code, t), B>> \in Streams
  <2>1. F \in Seq(Byte) /\ B \in Seq(Byte)
    <3>1. PICK S : S = Seq(Byte) OBVIOUS
    <3>2. <<F, B>> \in S \X S BY <1>2, <3>1, Zenon DEF Streams
    <3>3. F \in S /\ B \in S BY <3>2
    <3> QED BY <3>1, <3>3, Zenon
  <2>2. Frame(code, t) \in Seq(Byte) BY <1>2, FrameIs, Zenon
  <2>3. t \in Seq(Byte) BY <1>2 DEF Fits
  <2>4. F \o Frame(code, t) \in Seq(Byte) /\ B \o t \in Seq(Byte) BY <2>1, <2>2, <2>3
  <2> QED BY <2>1, <2>4, Zenon DEF Streams
<1>3. Data \in MsgCodes BY DEF Data, MsgCodes
<1> QED BY <1>1, <1>2, <1>3, Zenon DEF Closed

\* Either is a sequence of bytes.
LEMMA FramedTyped ==
    ASSUME NEW F, NEW B, Framed(F, B)
    PROVE  F \in Seq(Byte) /\ B \in Seq(Byte)
<1>1. Streams \in SUBSET Streams OBVIOUS
<1>2. <<F, B>> \in Streams BY <1>1, StreamsClosed, Zenon DEF Framed
<1>3. PICK S : S = Seq(Byte) OBVIOUS
<1>4. <<F, B>> \in S \X S BY <1>2, <1>3, Zenon DEF Streams
<1>5. F \in S /\ B \in S BY <1>4
<1> QED BY <1>3, <1>5, Zenon

\* Nothing is a framed stream of nothing.
LEMMA FramedEmpty == Framed(<<>>, <<>>)
  BY Zenon DEF Framed, Closed

\* A data frame or a message more.
LEMMA FramedMore ==
    ASSUME NEW F, NEW B, Framed(F, B), NEW t, Fits(t)
    PROVE  /\ Framed(F \o Frame(Data, t), B \o t)
           /\ \A code \in MsgCodes : code # Data => Framed(F \o Frame(code, t), B)
  BY Zenon DEF Framed, Closed

\* Joining three sequences.
Regroups(s, t, u) == (s \o t) \o u = s \o (t \o u)

\* Joining is associative.
LEMMA Assoc ==
    ASSUME NEW S, NEW s \in Seq(S), NEW t \in Seq(S), NEW u \in Seq(S)
    PROVE  Regroups(s, t, u)
  BY ConcatAssociative DEF Regroups

\* Joining nothing.
LEMMA EmptyJoin ==
    ASSUME NEW S, NEW s \in Seq(S)
    PROVE  s \o <<>> = s /\ <<>> \o s = s
  BY ConcatEmptySeq

\* The length of two sequences joined.
LEMMA JoinTyped ==
    ASSUME NEW S, NEW s \in Seq(S), NEW t \in Seq(S)
    PROVE  s \o t \in Seq(S) /\ Len(s \o t) = Len(s) + Len(t)
  OBVIOUS

\* The first frame of F, and what is left of F and B behind it.
FirstFrame(F, B, code, t, F2, B2) ==
    /\ code \in MsgCodes /\ Fits(t) /\ Framed(F2, B2)
    /\ F = Frame(code, t) \o F2
    /\ B = IF code = Data THEN t \o B2 ELSE B2

HasFirst(F, B) == \E code, t, F2, B2 : FirstFrame(F, B, code, t, F2, B2)

\* A frame more at the end leaves the first one first.
LEMMA FirstFrameMore ==
    ASSUME NEW F, NEW B, HasFirst(F, B), NEW t, Fits(t), NEW code \in MsgCodes
    PROVE  HasFirst(F \o Frame(code, t), IF code = Data THEN B \o t ELSE B)
<1>1. PICK c, s, F2, B2 : FirstFrame(F, B, c, s, F2, B2) BY Zenon DEF HasFirst
<1>2. /\ c \in MsgCodes /\ Fits(s) /\ Framed(F2, B2)
      /\ F = Frame(c, s) \o F2
      /\ B = IF c = Data THEN s \o B2 ELSE B2
  BY <1>1, Zenon DEF FirstFrame
<1>3. F2 \in Seq(Byte) /\ B2 \in Seq(Byte) /\ s \in Seq(Byte) /\ t \in Seq(Byte)
  BY <1>2, FramedTyped, Zenon DEF Fits
<1>4. Frame(c, s) \in Seq(Byte) /\ Frame(code, t) \in Seq(Byte) BY <1>2, FrameIs, Zenon
<1>5. F \o Frame(code, t) = Frame(c, s) \o (F2 \o Frame(code, t))
  <2>1. Regroups(Frame(c, s), F2, Frame(code, t)) BY <1>3, <1>4, Assoc, Zenon
  <2>2. F = Frame(c, s) \o F2 BY <1>2
  <2> QED BY <2>1, <2>2 DEF Regroups
<1>6. (s \o B2) \o t = s \o (B2 \o t)
  <2>1. Regroups(s, B2, t) BY <1>3, Assoc, Zenon
  <2> QED BY <2>1 DEF Regroups
<1>7. CASE code = Data
  <2>1. Framed(F2 \o Frame(code, t), B2 \o t) BY <1>2, <1>7, FramedMore, Zenon
  <2>2. B \o t = IF c = Data THEN s \o (B2 \o t) ELSE B2 \o t BY <1>2, <1>6, Zenon
  <2>3. FirstFrame(F \o Frame(code, t), B \o t, c, s, F2 \o Frame(code, t), B2 \o t)
    BY <1>2, <1>5, <2>1, <2>2, Zenon DEF FirstFrame
  <2> QED BY <1>7, <2>3, Zenon DEF HasFirst
<1>8. CASE code # Data
  <2>1. Framed(F2 \o Frame(code, t), B2) BY <1>2, <1>8, FramedMore, Zenon
  <2>3. FirstFrame(F \o Frame(code, t), B, c, s, F2 \o Frame(code, t), B2)
    BY <1>2, <1>5, <2>1, Zenon DEF FirstFrame
  <2> QED BY <1>8, <2>3, Zenon DEF HasFirst
<1> QED BY <1>7, <1>8

\* A framed stream is empty or begins with a frame.
LEMMA FramedFirst ==
    ASSUME NEW F, NEW B, Framed(F, B)
    PROVE  (F = <<>> /\ B = <<>>) \/ HasFirst(F, B)
<1> DEFINE Good(f, b) == Framed(f, b) /\ ((f = <<>> /\ b = <<>>) \/ HasFirst(f, b))
           K == {x \in Streams : \E f, b : x = <<f, b>> /\ Good(f, b)}
<1>1. ASSUME NEW f, NEW b, <<f, b>> \in K PROVE Good(f, b)
  <2>1. PICK f2, b2 : <<f, b>> = <<f2, b2>> /\ Good(f2, b2) BY <1>1, Zenon
  <2>2. f = f2 /\ b = b2
    <3>1. <<f, b>> = <<f2, b2>> BY <2>1
    <3> QED BY ONLY <3>1
  <2> QED BY <2>1, <2>2, Zenon
<1>2. ASSUME NEW f, NEW b, Good(f, b) PROVE <<f, b>> \in K
  <2>1. f \in Seq(Byte) /\ b \in Seq(Byte) BY <1>2, FramedTyped, Zenon
  <2>2. <<f, b>> \in Streams BY <2>1, Zenon DEF Streams
  <2> QED BY <1>2, <2>2, Zenon
<1>3. Good(<<>>, <<>>) BY FramedEmpty, Zenon
<1>4. ASSUME NEW f, NEW b, Good(f, b), NEW t, Fits(t), NEW code \in MsgCodes
      PROVE  Good(f \o Frame(code, t), IF code = Data THEN b \o t ELSE b)
  <2>1. Framed(f \o Frame(code, t), IF code = Data THEN b \o t ELSE b)
    BY <1>4, FramedMore, Zenon
  <2>2. CASE HasFirst(f, b) BY <1>4, <2>1, <2>2, FirstFrameMore, Zenon
  <2>3. CASE f = <<>> /\ b = <<>>
    <3>1. Frame(code, t) \in Seq(Byte) /\ t \in Seq(Byte) BY <1>4, FrameIs, Zenon DEF Fits
    <3>5. \A z \in Seq(Byte) : <<>> \o z = z \o <<>>
      <4> TAKE z \in Seq(Byte)
      <4>1. z \o <<>> = z /\ <<>> \o z = z BY EmptyJoin, Zenon
      <4> QED BY <4>1, Zenon
    <3>6. <<>> \o Frame(code, t) = Frame(code, t) \o <<>> /\ <<>> \o t = t \o <<>> BY <3>1, <3>5, Zenon
    <3>2. f \o Frame(code, t) = Frame(code, t) \o <<>> BY <2>3, <3>6
    <3>3. b \o t = t \o <<>> BY <2>3, <3>6
    <3>4. FirstFrame(f \o Frame(code, t), IF code = Data THEN b \o t ELSE b, code, t, <<>>, <<>>)
      BY <1>4, <2>3, <3>2, <3>3, FramedEmpty, Zenon DEF FirstFrame
    <3> QED BY <2>1, <3>4, Zenon DEF HasFirst
  <2> QED BY <1>4, <2>2, <2>3, Zenon
<1>5. K \in SUBSET Streams OBVIOUS
<1> HIDE DEF K, Good
<1>6. Data \in MsgCodes BY DEF Data, MsgCodes
<1>7. Closed(K)
  <2>1. <<<<>>, <<>>>> \in K BY <1>2, <1>3, Zenon
  <2>2. ASSUME NEW f, NEW b, NEW t, <<f, b>> \in K, Fits(t)
        PROVE  <<f \o Frame(Data, t), b \o t>> \in K
    <3>1. Good(f, b) BY <1>1, <2>2, Zenon
    <3>2. Good(f \o Frame(Data, t), IF Data = Data THEN b \o t ELSE b) BY <1>4, <1>6, <2>2, <3>1, Zenon
    <3> QED BY <1>2, <3>2, Zenon
  <2>3. ASSUME NEW f, NEW b, NEW t, NEW code \in MsgCodes, <<f, b>> \in K, Fits(t), code # Data
        PROVE  <<f \o Frame(code, t), b>> \in K
    <3>1. Good(f, b) BY <1>1, <2>3, Zenon
    <3>2. Good(f \o Frame(code, t), IF code = Data THEN b \o t ELSE b) BY <1>4, <2>3, <3>1, Zenon
    <3> QED BY <1>2, <2>3, <3>2, Zenon
  <2> QED BY <2>1, <2>2, <2>3, Zenon DEF Closed
<1>8. <<F, B>> \in K BY <1>5, <1>7, Zenon DEF Framed
<1> QED BY <1>1, <1>8, Zenon DEF Good

\* Parts of a sequence.
LEMMA PartFacts ==
    ASSUME NEW S, NEW s \in Seq(S), NEW m \in 1..(Len(s) + 1), NEW n \in 0..Len(s), m <= n
    PROVE  SubSeq(s, m, n) \in Seq(S) /\ Len(SubSeq(s, m, n)) = n - m + 1
  OBVIOUS

\* A sequence is its first part and the rest.
LEMMA SplitFacts ==
    ASSUME NEW S, NEW s \in Seq(S), NEW n \in 0..Len(s), NEW k \in 0..n
    PROVE  /\ SubSeq(s, 1, k) \in Seq(S) /\ SubSeq(s, k + 1, n) \in Seq(S)
           /\ SubSeq(s, 1, n) = SubSeq(s, 1, k) \o SubSeq(s, k + 1, n)
  OBVIOUS

-----------------------------------------------------------------------------
(* Frames(bytes).                                                          *)

\* The chunk that ends after byte i.
Chunk(i) == IF i % FrameMax = 0 THEN FrameMax ELSE i % FrameMax

\* The last chunk of i bytes is no longer than a frame may be.
LEMMA ChunkIs ==
    ASSUME NEW i \in Nat, i > 0
    PROVE  Chunk(i) \in Nat /\ 1 <= Chunk(i) /\ Chunk(i) <= i /\ Chunk(i) <= FrameMax
<1>1. PICK m \in Nat : m = FrameMax /\ m > 0
  <2>1. FrameMax \in Nat /\ FrameMax > 0 BY WireAssumption, SMT
  <2> QED BY <2>1
<1>2. PICK q \in Int, r \in Int : r = i % m /\ i = m * q + r /\ 0 <= r /\ r < m BY <1>1, SMT
<1>3. q >= 0 BY <1>1, <1>2, SMT
<1>4. m * q >= 0 BY <1>1, <1>3, SMT
<1>5. r = 0 => q >= 1 BY <1>2, <1>3, SMT
<1>6. r = 0 => m * q >= m BY <1>1, <1>5, SMT
<1>7. Chunk(i) = IF r = 0 THEN m ELSE r BY <1>1, <1>2 DEF Chunk
<1> QED BY <1>1, <1>2, <1>4, <1>6, <1>7, SMT

\* Induction, over a set of numbers.
LEMMA SetInduction ==
    ASSUME NEW S, 0 \in S, \A n \in Nat : n \in S => n + 1 \in S
    PROVE  \A n \in Nat : n \in S
<1> SUFFICES ASSUME Nat \ S # {} PROVE FALSE OBVIOUS
<1>1. PICK x \in Nat \ S : \A y \in Nat \ S : x <= y BY LeastNatural
<1>2. x # 0 /\ x - 1 \in Nat OBVIOUS
<1>3. x - 1 \in S BY <1>1, <1>2
<1> QED BY <1>2, <1>3

\* The first i bytes in frames, given those before the last chunk.
FrameStep(g, bytes, i) ==
    IF i = 0 THEN <<>>
    ELSE g[i - Chunk(i)] \o Header(Data, Chunk(i)) \o SubSeq(bytes, (i - Chunk(i)) + 1, i)

\* There is a function that gives the frames of the first bytes.
LEMMA FramesExist ==
    ASSUME NEW bytes, NEW n \in Nat
    PROVE  \E g : g = [i \in 0..n |-> FrameStep(g, bytes, i)]
<1> DEFINE T == {m \in Nat : \E g : g = [i \in 0..m |-> FrameStep(g, bytes, i)]}
<1>1. 0 \in T
  <2>1. PICK g : g = [i \in 0..0 |-> <<>>] OBVIOUS
  <2>2. \A i \in 0..0 : FrameStep(g, bytes, i) = <<>> BY DEF FrameStep
  <2>3. g = [i \in 0..0 |-> FrameStep(g, bytes, i)] BY <2>1, <2>2
  <2> QED BY <2>3
<1>2. ASSUME NEW m \in Nat, m \in T PROVE m + 1 \in T
  <2>1. PICK g : g = [i \in 0..m |-> FrameStep(g, bytes, i)] BY <1>2
  <2>2. PICK h : h = [i \in 0..(m + 1) |-> IF i <= m THEN g[i] ELSE FrameStep(g, bytes, i)] OBVIOUS
  <2>3. ASSUME NEW i \in 0..(m + 1) PROVE FrameStep(h, bytes, i) = FrameStep(g, bytes, i)
    <3>1. CASE i = 0 BY <3>1, Zenon DEF FrameStep
    <3>2. CASE i # 0
      <4>1. i - Chunk(i) \in 0..m /\ i - Chunk(i) \in 0..(m + 1) /\ i - Chunk(i) <= m
        <5>1. i \in Nat /\ i > 0 BY <3>2
        <5>2. PICK c \in Nat : c = Chunk(i) /\ 1 <= c /\ c <= i BY <5>1, ChunkIs
        <5> QED BY <5>2
      <4>2. h[i - Chunk(i)] = g[i - Chunk(i)] BY <2>2, <4>1
      <4> QED BY <3>2, <4>2, Zenon DEF FrameStep
    <3> QED BY <3>1, <3>2
  <2>4. ASSUME NEW i \in 0..(m + 1)
        PROVE  (IF i <= m THEN g[i] ELSE FrameStep(g, bytes, i)) = FrameStep(h, bytes, i)
    <3>1. CASE i <= m
      <4>1. i \in 0..m BY <3>1
      <4>2. g[i] = FrameStep(g, bytes, i) BY <2>1, <4>1
      <4> QED BY <2>3, <3>1, <4>2, Zenon
    <3>2. CASE ~(i <= m) BY <2>3, <3>2, Zenon
    <3> QED BY <3>1, <3>2
  <2>5. h = [i \in 0..(m + 1) |-> FrameStep(h, bytes, i)] BY <2>2, <2>4
  <2> QED BY <2>5
<1>3. \A m \in Nat : m \in T
  <2> HIDE DEF T
  <2> QED BY <1>1, <1>2, SetInduction
<1> QED BY <1>3

\* The frames of i bytes: those of all but the last chunk, and a frame of that.
LEMMA FramesIs ==
    ASSUME NEW bytes \in Seq(Byte)
    PROVE  \E g : /\ Frames(bytes) = g[Len(bytes)]
                  /\ \A i \in 0..Len(bytes) : g[i] = FrameStep(g, bytes, i)
<1> DEFINE body(g, i) ==
             IF i = 0 THEN <<>>
             ELSE LET chunk == IF i % FrameMax = 0 THEN FrameMax ELSE i % FrameMax
                  IN  g[i - chunk] \o Header(Data, chunk) \o SubSeq(bytes, i - chunk + 1, i)
           f == CHOOSE g : g = [i \in 0..Len(bytes) |-> body(g, i)]
<1>1. Frames(bytes) = f[Len(bytes)] BY Zenon DEF Frames
<1>2. ASSUME NEW g, NEW i \in 0..Len(bytes) PROVE body(g, i) = FrameStep(g, bytes, i)
  <2>1. CASE i = 0 BY <2>1, Zenon DEF FrameStep
  <2>2. CASE i # 0
    <3>1. i \in Nat /\ i > 0 BY <2>2
    <3>2. Chunk(i) \in Nat BY <3>1, ChunkIs
    <3>3. PICK c \in Nat : c = Chunk(i) BY <3>2
    <3>4. i - c + 1 = (i - c) + 1 BY <3>1
    <3>5. FrameStep(g, bytes, i) = g[i - c] \o Header(Data, c) \o SubSeq(bytes, (i - c) + 1, i)
      BY <2>2, <3>3, Zenon DEF FrameStep
    <3>6. body(g, i) = g[i - c] \o Header(Data, c) \o SubSeq(bytes, i - c + 1, i)
      BY <2>2, <3>3, Zenon DEF Chunk
    <3> QED BY <3>4, <3>5, <3>6, Zenon
  <2> QED BY <2>1, <2>2
<1>3. PICK g : g = [i \in 0..Len(bytes) |-> FrameStep(g, bytes, i)]
  <2>1. Len(bytes) \in Nat OBVIOUS
  <2> QED BY <2>1, FramesExist
<1> HIDE DEF body
<1>4. g = [i \in 0..Len(bytes) |-> body(g, i)] BY <1>2, <1>3
<1>5. f = [i \in 0..Len(bytes) |-> body(f, i)] BY <1>4, Zenon
<1> HIDE DEF f
<1>6. \A i \in 0..Len(bytes) : f[i] = FrameStep(f, bytes, i) BY <1>2, <1>5
<1> QED BY <1>1, <1>6, Zenon

\* A call of write_all on a framed stream.
LEMMA FramesFramed ==
    ASSUME NEW F, NEW B, Framed(F, B), NEW bytes \in Seq(Byte)
    PROVE  Frames(bytes) \in Seq(Byte) /\ Framed(F \o Frames(bytes), B \o bytes)
<1>1. PICK f : /\ Frames(bytes) = f[Len(bytes)]
               /\ \A i \in 0..Len(bytes) : f[i] = FrameStep(f, bytes, i)
  BY FramesIs
<1>2. PICK len \in Nat : len = Len(bytes) OBVIOUS
<1> DEFINE T == {i \in Nat : \A j \in Nat : j <= i /\ j <= len =>
                   f[j] \in Seq(Byte) /\ Framed(F \o f[j], B \o SubSeq(bytes, 1, j))}
<1>3. F \in Seq(Byte) /\ B \in Seq(Byte) BY FramedTyped, Zenon
<1>4. f[0] \in Seq(Byte) /\ Framed(F \o f[0], B \o SubSeq(bytes, 1, 0))
  <2>1. 0 \in 0..Len(bytes) BY <1>2
  <2>2. f[0] = <<>> BY <1>1, <2>1, Zenon DEF FrameStep
  <2>3. SubSeq(bytes, 1, 0) = <<>> OBVIOUS
  <2>4. <<>> \in Seq(Byte) OBVIOUS
  <2> QED BY <1>3, <2>2, <2>3, <2>4, EmptyJoin, Zenon
<1>5. 0 \in T
  <2>1. \A j \in Nat : j <= 0 => j = 0 OBVIOUS
  <2> QED BY <1>4, <2>1
<1>6. ASSUME NEW i \in Nat, i \in T PROVE i + 1 \in T
  <2>1. \A j \in Nat : j <= i /\ j <= len =>
           f[j] \in Seq(Byte) /\ Framed(F \o f[j], B \o SubSeq(bytes, 1, j))
    BY <1>6
  <2> SUFFICES ASSUME i + 1 <= len
      PROVE  f[i + 1] \in Seq(Byte) /\ Framed(F \o f[i + 1], B \o SubSeq(bytes, 1, i + 1))
    <3>1. \A j \in Nat : j <= i + 1 => j <= i \/ j = i + 1 OBVIOUS
    <3> QED BY <2>1, <3>1
  <2>2. PICK n \in Nat : n = i + 1 /\ n > 0 /\ n <= len OBVIOUS
  <2>3. PICK c \in Nat : c = Chunk(n) /\ 1 <= c /\ c <= n /\ c <= FrameMax BY <2>2, ChunkIs
  <2>4. PICK k \in Nat : k = n - c /\ k <= i /\ k <= len BY <2>2, <2>3
  <2>5. f[k] \in Seq(Byte) /\ Framed(F \o f[k], B \o SubSeq(bytes, 1, k)) BY <2>1, <2>4
  <2>6. PICK t \in Seq(Byte) : t = SubSeq(bytes, k + 1, n) /\ Len(t) = c
    <3>1. SubSeq(bytes, k + 1, n) \in Seq(Byte) /\ Len(SubSeq(bytes, k + 1, n)) = c
      <4>1. k + 1 \in 1..(Len(bytes) + 1) /\ n \in 0..Len(bytes) /\ n - (k + 1) + 1 = c /\ k + 1 <= n
        BY <1>2, <2>2, <2>3, <2>4
      <4>2. PICK m \in 1..(Len(bytes) + 1) : m = k + 1 /\ m <= n /\ n - m + 1 = c BY <4>1
      <4>3. SubSeq(bytes, m, n) \in Seq(Byte) /\ Len(SubSeq(bytes, m, n)) = n - m + 1
        BY <4>1, <4>2, PartFacts, Zenon
      <4> QED BY <4>2, <4>3
    <3> QED BY <3>1
  <2>7. Fits(t) /\ Data \in MsgCodes BY <2>3, <2>6 DEF Fits, Data, MsgCodes
  <2>8. Frame(Data, t) \in Seq(Byte) BY <2>7, FrameIs, Zenon
  <2>9. f[n] = f[k] \o Frame(Data, t)
    <3>1. n \in 0..Len(bytes) /\ n # 0 BY <1>2, <2>2
    <3>2. f[n] = f[k] \o Header(Data, c) \o t
      BY <1>1, <2>3, <2>4, <2>6, <3>1, Zenon DEF FrameStep
    <3>3. Header(Data, c) \in Seq(Byte) BY <2>6, <2>7, HeaderIs, Zenon
    <3>4. f[k] \o Header(Data, c) \o t = f[k] \o (Header(Data, c) \o t)
      <4>1. Regroups(f[k], Header(Data, c), t) BY <2>5, <3>3, Assoc, Zenon
      <4> QED BY <4>1 DEF Regroups
    <3> QED BY <2>6, <3>2, <3>4, Zenon DEF Frame
  <2>10. SubSeq(bytes, 1, n) = SubSeq(bytes, 1, k) \o t /\ SubSeq(bytes, 1, k) \in Seq(Byte)
    <3>1. k \in 0..n /\ n \in 0..Len(bytes) BY <1>2, <2>2, <2>3, <2>4
    <3> QED BY <2>6, <3>1, SplitFacts, Zenon
  <2>11. f[n] \in Seq(Byte) BY <2>5, <2>8, <2>9, JoinTyped, Zenon
  <2>12. Framed((F \o f[k]) \o Frame(Data, t), (B \o SubSeq(bytes, 1, k)) \o t)
    BY <2>5, <2>7, FramedMore, Zenon
  <2>13. (F \o f[k]) \o Frame(Data, t) = F \o f[n]
    <3>1. Regroups(F, f[k], Frame(Data, t)) BY <1>3, <2>5, <2>8, Assoc, Zenon
    <3> QED BY <2>9, <3>1 DEF Regroups
  <2>14. (B \o SubSeq(bytes, 1, k)) \o t = B \o SubSeq(bytes, 1, n)
    <3>1. Regroups(B, SubSeq(bytes, 1, k), t) BY <1>3, <2>10, Assoc, Zenon
    <3> QED BY <2>10, <3>1 DEF Regroups
  <2> QED BY <2>2, <2>11, <2>12, <2>13, <2>14, Zenon
<1>7. \A i \in Nat : i \in T
  <2> HIDE DEF T
  <2> QED BY <1>5, <1>6, SetInduction
<1>8. f[len] \in Seq(Byte) /\ Framed(F \o f[len], B \o SubSeq(bytes, 1, len))
  <2>1. len \in T /\ len <= len BY <1>7
  <2> QED BY <2>1, Zenon
<1>9. SubSeq(bytes, 1, len) = bytes
  <2>1. SubSeq(bytes, 1, Len(bytes)) = bytes OBVIOUS
  <2> QED BY <1>2, <2>1
<1> QED BY <1>1, <1>2, <1>8, <1>9, Zenon

-----------------------------------------------------------------------------
(* The items of a script.                                                  *)

\* What WireAssumption says of a script.
Script(items) ==
    /\ Len(items) \in Nat /\ items = [i \in 1..Len(items) |-> items[i]]
    /\ \A i \in 1..Len(items) : Encodable(items[i])
    /\ \A i, j \in 1..Len(items) : items[i].k = "mux" /\ items[j].k = "mux" => i = j

\* The first n items.
LEMMA FirstItems ==
    ASSUME NEW items, Script(items), NEW n \in 0..Len(items)
    PROVE  /\ DOMAIN SubSeq(items, 1, n) = 1..n
           /\ \A i \in 1..n : SubSeq(items, 1, n)[i] = items[i]
<1>1. PICK S : S = {items[i] : i \in 1..Len(items)} OBVIOUS
<1>2. Len(items) \in Nat /\ items = [i \in 1..Len(items) |-> items[i]] BY DEF Script
<1>3. items \in Seq(S)
  <2>1. PICK m \in Nat : m = Len(items) BY <1>2
  <2>2. items \in [1..m -> S] BY <1>1, <1>2, <2>1
  <2> QED BY <2>2, FcnSeq, Zenon
<1>4. n \in 0..Len(items) OBVIOUS
<1>5. /\ SubSeq(items, 1, n) \in Seq(S) /\ Len(SubSeq(items, 1, n)) = n
      /\ \A i \in 1..n : SubSeq(items, 1, n)[i] = items[i]
  BY <1>3, PrefixFacts, Zenon
<1>6. DOMAIN SubSeq(items, 1, n) = 1..Len(SubSeq(items, 1, n)) BY <1>5
<1> QED BY <1>5, <1>6, Zenon

\* Places of indices below 0, or of the others, among the first n.
Places(items, n, neg) ==
    {i \in 1..n : /\ items[i].k = "ndx" /\ items[i].v # NDX_DONE /\ (items[i].v < 0) = neg}

\* The last index among the first n items, by its place.
LEMMA LastIndexIs ==
    ASSUME NEW items, Script(items), NEW n \in 0..Len(items), NEW neg
    PROVE  LastIndex(SubSeq(items, 1, n), neg) =
             IF Places(items, n, neg) # {} THEN items[Max(Places(items, n, neg))].v ELSE -1
<1>1. PICK s : s = SubSeq(items, 1, n) OBVIOUS
<1>2. DOMAIN s = 1..n /\ \A i \in 1..n : s[i] = items[i] BY <1>1, FirstItems, Zenon
<1> DEFINE S == {i \in DOMAIN s : s[i].k = "ndx" /\ s[i].v # NDX_DONE /\ (s[i].v < 0) = neg}
           T == Places(items, n, neg)
<1>3. LastIndex(s, neg) = IF S # {} THEN s[Max(S)].v ELSE -1 BY Zenon DEF LastIndex
<1>4. S = T BY <1>2 DEF Places
<1>5. T # {} => Max(T) \in 1..n
  <2>1. n \in Nat /\ T \in SUBSET (0..n)
    <3>1. n \in Nat BY DEF Script
    <3> QED BY <3>1 DEF Places
  <2>2. T # {} => Max(T) \in T BY <2>1, MaxFacts, Zenon
  <2> QED BY <2>2 DEF Places
<1> HIDE DEF S, T
<1>6. T # {} => s[Max(T)] = items[Max(T)] BY <1>2, <1>5
<1> QED BY <1>1, <1>3, <1>4, <1>6, Zenon DEF T

\* One item more.
LEMMA PlacesGrow ==
    ASSUME NEW items, NEW n \in Nat, NEW neg
    PROVE  LET it == items[n + 1]
               new == it.k = "ndx" /\ it.v # NDX_DONE /\ (it.v < 0) = neg
               P == Places(items, n + 1, neg)
           IN  /\ new => P # {} /\ Max(P) = n + 1
               /\ ~new => P = Places(items, n, neg)
<1> DEFINE new == items[n + 1].k = "ndx" /\ items[n + 1].v # NDX_DONE /\ (items[n + 1].v < 0) = neg
           P == Places(items, n + 1, neg)
<1>1. ASSUME new PROVE P # {} /\ Max(P) = n + 1
  <2>1. n + 1 \in P BY <1>1 DEF Places
  <2>2. P \in SUBSET (0..(n + 1)) /\ n + 1 \in Nat BY DEF Places
  <2>3. Max(P) \in P /\ \A y \in P : y <= Max(P) BY <2>1, <2>2, MaxFacts
  <2> HIDE DEF P
  <2>4. Max(P) \in 0..(n + 1) /\ n + 1 <= Max(P) BY <2>1, <2>2, <2>3
  <2> QED BY <2>1, <2>4
<1>2. ASSUME ~new PROVE P = Places(items, n, neg)
  <2>1. \A i : i \in 1..(n + 1) <=> i \in 1..n \/ i = n + 1 OBVIOUS
  <2> QED BY <1>2, <2>1, Zenon DEF Places
<1> QED BY <1>1, <1>2, Zenon

\* The previous indices after the first n items.
LastAt(items, n) == Last(SubSeq(items, 1, n))

\* At first those one starts with; then each item changes them as NdxAfter says.
LEMMA LastIs ==
    ASSUME NEW items, Script(items)
    PROVE  /\ LastAt(items, 0) = NdxStart
           /\ \A n \in 0..Len(items) : Prev(LastAt(items, n))
           /\ \A n \in 0..(Len(items) - 1) :
                LastAt(items, n + 1) = IF items[n + 1].k # "ndx" THEN LastAt(items, n)
                                       ELSE NdxAfter(LastAt(items, n), items[n + 1].v)
<1> DEFINE I(n, neg) == IF Places(items, n, neg) # {} THEN items[Max(Places(items, n, neg))].v ELSE -1
<1>0. Len(items) \in Nat BY DEF Script
<1>1. \A n \in 0..Len(items) : LastAt(items, n) = [pos |-> I(n, FALSE), neg |-> -I(n, TRUE)]
  BY LastIndexIs DEF LastAt, Last
<1>2. ASSUME NEW n \in 0..Len(items), NEW neg \in BOOLEAN PROVE I(n, neg) \in Int
  <2>1. PICK T : T = Places(items, n, neg) OBVIOUS
  <2>2. CASE T = {} BY <2>1, <2>2
  <2>3. CASE T # {}
    <3>1. n \in Nat /\ T \in SUBSET (0..n) BY <1>0, <2>1 DEF Places
    <3>2. Max(T) \in T BY <2>3, <3>1, MaxFacts
    <3>3. PICK m : m = Max(T) OBVIOUS
    <3>4. m \in 1..n /\ items[m].k = "ndx" BY <2>1, <3>2, <3>3 DEF Places
    <3>5. m \in 1..Len(items) BY <1>0, <3>4
    <3>6. Encodable(items[m]) BY <3>5, Zenon DEF Script
    <3>7. items[m].v \in Int BY <3>4, <3>6, SMT DEF Encodable, Int32
    <3> QED BY <2>1, <2>3, <3>3, <3>7, Zenon
  <2> QED BY <2>2, <2>3
<1>a. PICK p : p = [n \in 0..Len(items) |-> I(n, FALSE)] OBVIOUS
<1>b. PICK q : q = [n \in 0..Len(items) |-> I(n, TRUE)] OBVIOUS
<1>c. ASSUME NEW n \in 0..Len(items) PROVE I(n, FALSE) = p[n] /\ I(n, TRUE) = q[n] BY <1>a, <1>b
<1>d. \A n \in 0..Len(items) : p[n] \in Int /\ q[n] \in Int BY <1>2, <1>c, Zenon
<1>e. \A n \in 0..Len(items) : LastAt(items, n) = [pos |-> p[n], neg |-> -q[n]] BY <1>1, <1>c, Zenon
<1>3. LastAt(items, 0) = NdxStart
  <2>1. \A neg : Places(items, 0, neg) = {} BY DEF Places
  <2>2. I(0, FALSE) = -1 /\ I(0, TRUE) = -1 BY <2>1, Zenon
  <2>3. 0 \in 0..Len(items) BY <1>0
  <2> HIDE DEF I
  <2>4. p[0] = -1 /\ q[0] = -1 BY <1>c, <2>2, <2>3, Zenon
  <2>5. LastAt(items, 0) = [pos |-> p[0], neg |-> -q[0]] BY <1>e, <2>3, Zenon
  <2> QED BY <2>4, <2>5, SMT DEF NdxStart
<1>4. ASSUME NEW n \in 0..Len(items) PROVE Prev(LastAt(items, n))
  <2> HIDE DEF I
  <2>1. p[n] \in Int /\ q[n] \in Int BY <1>d
  <2>2. LastAt(items, n) = [pos |-> p[n], neg |-> -q[n]] BY <1>e
  <2> QED BY <2>1, <2>2 DEF Prev
<1>5. ASSUME NEW n \in 0..(Len(items) - 1)
      PROVE  LastAt(items, n + 1) = IF items[n + 1].k # "ndx" THEN LastAt(items, n)
                                    ELSE NdxAfter(LastAt(items, n), items[n + 1].v)
  <2>1. n \in Nat /\ n \in 0..Len(items) /\ n + 1 \in 0..Len(items) /\ n + 1 \in 1..Len(items) BY <1>0
  <2>2. PICK it : it = items[n + 1] OBVIOUS
  <2> DEFINE new(neg) == it.k = "ndx" /\ it.v # NDX_DONE /\ (it.v < 0) = neg
  <2>3. \A neg : /\ new(neg) => I(n + 1, neg) = it.v
                 /\ ~new(neg) => I(n + 1, neg) = I(n, neg)
    <3> TAKE neg
    <3>1. PICK P : P = Places(items, n + 1, neg) OBVIOUS
    <3>2. (new(neg) => P # {} /\ Max(P) = n + 1) /\ (~new(neg) => P = Places(items, n, neg))
      BY <2>1, <2>2, <3>1, PlacesGrow, Zenon
    <3> QED BY <2>2, <3>1, <3>2, Zenon
  <2> HIDE DEF I
  <2>a. PICK p1 \in Int, q1 \in Int : p1 = p[n] /\ q1 = -q[n] BY <1>d, <2>1
  <2>b. PICK p2 \in Int, q2 \in Int : p2 = p[n + 1] /\ q2 = -q[n + 1] BY <1>d, <2>1
  <2>4. PICK a, b : /\ a = [pos |-> p1, neg |-> q1] /\ b = [pos |-> p2, neg |-> q2]
                    /\ LastAt(items, n) = a /\ LastAt(items, n + 1) = b
    BY <1>e, <2>1, <2>a, <2>b, Zenon
  <2>9. /\ new(FALSE) => p2 = it.v
        /\ ~new(FALSE) => p2 = p1
        /\ new(TRUE) => q2 = -it.v
        /\ ~new(TRUE) => q2 = q1
    BY <1>c, <2>1, <2>3, <2>a, <2>b, Zenon
  <2>5. CASE it.k # "ndx" BY <2>2, <2>9, <2>4, <2>5, Zenon
  <2>6. CASE it.k = "ndx" /\ it.v = NDX_DONE
    BY <2>2, <2>9, <2>4, <2>6, Zenon DEF NdxAfter
  <2>7. CASE it.k = "ndx" /\ it.v # NDX_DONE /\ it.v < 0
    <3>1. new(TRUE) /\ ~new(FALSE) BY <2>7
    <3>2. q2 = -it.v /\ p2 = p1 BY <2>9, <3>1
    <3>3. NdxAfter(a, it.v) = [a EXCEPT !.neg = -it.v] BY <2>7, Zenon DEF NdxAfter
    <3>4. [a EXCEPT !.neg = q2] = b BY <2>4, <3>2
    <3> QED BY <2>2, <2>4, <2>7, <3>2, <3>3, <3>4, Zenon
  <2>8. CASE it.k = "ndx" /\ it.v # NDX_DONE /\ ~(it.v < 0)
    <3>1. new(FALSE) /\ ~new(TRUE) BY <2>8
    <3>2. p2 = it.v /\ q2 = q1 BY <2>9, <3>1
    <3>3. NdxAfter(a, it.v) = [a EXCEPT !.pos = it.v] BY <2>8, Zenon DEF NdxAfter
    <3>4. [a EXCEPT !.pos = p2] = b BY <2>4, <3>2
    <3> QED BY <2>2, <2>4, <2>8, <3>2, <3>3, <3>4, Zenon
  <2> QED BY <2>5, <2>6, <2>7, <2>8
<1> QED BY <1>3, <1>4, <1>5

-----------------------------------------------------------------------------
(* What the items of a script amount to: a string of bytes, with the place *)
(* at which each item ends.                                                *)

\* The bytes of item k, whatever the frames they travel in.
Enc(items, k) ==
    IF items[k].k = "mux" THEN <<>>
    ELSE Sent(Written(items[k], LastAt(items, k - 1)), FALSE)

Part(S, u, v) == SubSeq(S, u + 1, v)

\* S is the bytes of the first n items, and pos[k] of them those of the first k.
Laid(items, n, S, pos) ==
    /\ S \in Seq(Byte) /\ pos \in [0..n -> Nat]
    /\ pos[0] = 0 /\ pos[n] = Len(S)
    /\ \A k \in 1..n : /\ pos[k - 1] <= pos[k] /\ pos[k] <= Len(S)
                       /\ Part(S, pos[k - 1], pos[k]) = Enc(items, k)

\* An item that is not the switch to frames is some bytes, and can be read from them.
LEMMA EncDecodes ==
    ASSUME NEW items, Script(items), NEW k \in 1..Len(items), items[k].k # "mux"
    PROVE  /\ Decodes(items[k], LastAt(items, k - 1), Enc(items, k))
           /\ Calls(Written(items[k], LastAt(items, k - 1)))
<1>1. Len(items) \in Nat /\ k - 1 \in 0..Len(items) BY DEF Script
<1>2. Prev(LastAt(items, k - 1)) BY <1>1, LastIs
<1>3. Encodable(items[k]) BY Zenon DEF Script
<1> QED BY <1>2, <1>3, ItemDecodes, Zenon DEF Enc

\* The bytes of an item; the switch to frames has none.
LEMMA EncTyped ==
    ASSUME NEW items, Script(items), NEW k \in 1..Len(items)
    PROVE  Enc(items, k) \in Seq(Byte) /\ (items[k].k = "mux" => Enc(items, k) = <<>>)
<1>1. CASE items[k].k = "mux"
  <2>1. <<>> \in Seq(Byte) OBVIOUS
  <2> QED BY <1>1, <2>1, Zenon DEF Enc
<1>2. CASE items[k].k # "mux" BY <1>2, EncDecodes, Zenon DEF Decodes
<1> QED BY <1>1, <1>2

\* Bytes joined behind S leave its parts alone.
LEMMA PartBefore ==
    ASSUME NEW S \in Seq(Byte), NEW E \in Seq(Byte)
    PROVE  /\ S \o E \in Seq(Byte) /\ Len(S \o E) = Len(S) + Len(E)
           /\ Part(S \o E, Len(S), Len(S) + Len(E)) = E
           /\ \A u, v \in Nat : u <= v /\ v <= Len(S) => Part(S \o E, u, v) = Part(S, u, v)
  BY DEF Part

\* Every script has its bytes.
LEMMA LaidExists ==
    ASSUME NEW items, Script(items)
    PROVE  \E S, pos : Laid(items, Len(items), S, pos)
<1> DEFINE T == {n \in Nat : n <= Len(items) => \E S, pos : Laid(items, n, S, pos)}
<1>0. Len(items) \in Nat BY DEF Script
<1>1. 0 \in T
  <2>1. PICK S : S = <<>> OBVIOUS
  <2>2. PICK pos : pos = [k \in 0..0 |-> 0] OBVIOUS
  <2>3. Laid(items, 0, S, pos) BY <2>1, <2>2 DEF Laid
  <2> QED BY <2>3
<1>2. ASSUME NEW n \in Nat, n \in T PROVE n + 1 \in T
  <2> SUFFICES ASSUME n + 1 <= Len(items) PROVE \E S, pos : Laid(items, n + 1, S, pos) OBVIOUS
  <2>1. PICK S, pos : Laid(items, n, S, pos) BY <1>0, <1>2
  <2>2. PICK E \in Seq(Byte) : E = Enc(items, n + 1)
    <3>1. n + 1 \in 1..Len(items) BY <1>0
    <3> QED BY <3>1, EncTyped
  <2>3. PICK S2 : S2 = S \o E OBVIOUS
  <2>4. PICK q : q = [k \in 0..(n + 1) |-> IF k <= n THEN pos[k] ELSE Len(S) + Len(E)] OBVIOUS
  <2>5. /\ S \in Seq(Byte) /\ pos \in [0..n -> Nat] /\ pos[0] = 0 /\ pos[n] = Len(S)
        /\ \A k \in 1..n : /\ pos[k - 1] <= pos[k] /\ pos[k] <= Len(S)
                           /\ Part(S, pos[k - 1], pos[k]) = Enc(items, k)
    BY <2>1, Zenon DEF Laid
  <2>6. /\ S2 \in Seq(Byte) /\ Len(S2) = Len(S) + Len(E)
        /\ Part(S2, Len(S), Len(S) + Len(E)) = E
        /\ \A u, v \in Nat : u <= v /\ v <= Len(S) => Part(S2, u, v) = Part(S, u, v)
    BY <2>3, <2>5, PartBefore
  <2>7. q \in [0..(n + 1) -> Nat] /\ q[0] = 0 /\ q[n + 1] = Len(S2) /\ q[n] = Len(S)
    BY <2>4, <2>5, <2>6
  <2>8. ASSUME NEW k \in 1..(n + 1)
        PROVE  /\ q[k - 1] <= q[k] /\ q[k] <= Len(S2)
               /\ Part(S2, q[k - 1], q[k]) = Enc(items, k)
    <3>1. CASE k <= n
      <4>1. k \in 1..n /\ k \in 0..n /\ k - 1 \in 0..n BY <3>1
      <4>2. q[k] = pos[k] /\ q[k - 1] = pos[k - 1] BY <2>4, <4>1
      <4>3. pos[k] \in Nat /\ pos[k - 1] \in Nat BY <2>5, <4>1
      <4>4. /\ pos[k - 1] <= pos[k] /\ pos[k] <= Len(S)
            /\ Part(S, pos[k - 1], pos[k]) = Enc(items, k) BY <2>5, <4>1, Zenon
      <4>5. Part(S2, pos[k - 1], pos[k]) = Part(S, pos[k - 1], pos[k]) BY <2>6, <4>3, <4>4, Zenon
      <4>6. pos[k] <= Len(S2) BY <2>5, <2>6, <4>3, <4>4
      <4> QED BY <4>2, <4>4, <4>5, <4>6, Zenon
    <3>2. CASE ~(k <= n)
      <4>1. k = n + 1 /\ k - 1 = n BY <3>2
      <4>2. q[k - 1] = Len(S) /\ q[k] = Len(S) + Len(E) BY <2>6, <2>7, <4>1
      <4>3. Part(S2, q[k - 1], q[k]) = Enc(items, k) BY <2>2, <2>6, <4>1, <4>2, Zenon
      <4> QED BY <2>5, <2>6, <4>2, <4>3
    <3> QED BY <3>1, <3>2
  <2>9. Laid(items, n + 1, S2, q) BY <2>6, <2>7, <2>8, Zenon DEF Laid
  <2> QED BY <2>9
<1>3. \A n \in Nat : n \in T
  <2> HIDE DEF T
  <2> QED BY <1>1, <1>2, SetInduction
<1> QED BY <1>0, <1>3

\* The places are in order.
LEMMA PlacesOrder ==
    ASSUME NEW items, NEW n \in Nat, NEW S, NEW pos, Laid(items, n, S, pos),
           NEW j \in 0..n, NEW k \in 0..n, j <= k
    PROVE  pos[j] <= pos[k]
<1> DEFINE T == {m \in Nat : m <= n /\ j <= m => pos[j] <= pos[m]}
<1>0. pos \in [0..n -> Nat] /\ \A m \in 1..n : pos[m - 1] <= pos[m] BY Zenon DEF Laid
<1>1. 0 \in T BY <1>0
<1>2. ASSUME NEW m \in Nat, m \in T PROVE m + 1 \in T
  <2> SUFFICES ASSUME m + 1 <= n, j <= m + 1 PROVE pos[j] <= pos[m + 1] OBVIOUS
  <2>1. m + 1 \in 1..n /\ m + 1 \in 0..n /\ m \in 0..n /\ (m + 1) - 1 = m OBVIOUS
  <2>2. pos[m] <= pos[m + 1] BY <1>0, <2>1
  <2>3. pos[m] \in Nat /\ pos[m + 1] \in Nat /\ pos[j] \in Nat BY <1>0, <2>1
  <2>4. CASE j = m + 1 BY <2>3, <2>4
  <2>5. CASE j # m + 1
    <3>1. pos[j] <= pos[m] BY <1>2, <2>5
    <3> QED BY <2>2, <2>3, <3>1
  <2> QED BY <2>4, <2>5
<1>3. \A m \in Nat : m \in T
  <2> HIDE DEF T
  <2> QED BY <1>1, <1>2, SetInduction
<1> QED BY <1>3

-----------------------------------------------------------------------------
(* The values of the first items.                                          *)

ValuesStep(v, items, i) ==
    IF i = 0 THEN <<>> ELSE IF items[i].k = "mux" THEN v[i - 1] ELSE Append(v[i - 1], items[i].v)

\* There is a function that lists them.
LEMMA ValuesExist ==
    ASSUME NEW items, NEW n \in Nat
    PROVE  \E v : v = [i \in 0..n |-> ValuesStep(v, items, i)]
<1> DEFINE T == {m \in Nat : \E v : v = [i \in 0..m |-> ValuesStep(v, items, i)]}
<1>1. 0 \in T
  <2>1. PICK v : v = [i \in 0..0 |-> <<>>] OBVIOUS
  <2>2. \A i \in 0..0 : ValuesStep(v, items, i) = <<>> BY DEF ValuesStep
  <2>3. v = [i \in 0..0 |-> ValuesStep(v, items, i)] BY <2>1, <2>2
  <2> QED BY <2>3
<1>2. ASSUME NEW m \in Nat, m \in T PROVE m + 1 \in T
  <2>1. PICK v : v = [i \in 0..m |-> ValuesStep(v, items, i)] BY <1>2
  <2>2. PICK w : w = [i \in 0..(m + 1) |-> IF i <= m THEN v[i] ELSE ValuesStep(v, items, i)] OBVIOUS
  <2>3. ASSUME NEW i \in 0..(m + 1) PROVE ValuesStep(w, items, i) = ValuesStep(v, items, i)
    <3>1. CASE i = 0 BY <3>1, Zenon DEF ValuesStep
    <3>2. CASE i # 0
      <4>1. i - 1 \in 0..(m + 1) /\ i - 1 <= m BY <3>2
      <4>2. w[i - 1] = v[i - 1] BY <2>2, <4>1
      <4> QED BY <3>2, <4>2, Zenon DEF ValuesStep
    <3> QED BY <3>1, <3>2
  <2>4. ASSUME NEW i \in 0..(m + 1)
        PROVE  (IF i <= m THEN v[i] ELSE ValuesStep(v, items, i)) = ValuesStep(w, items, i)
    <3>1. CASE i <= m
      <4>1. i \in 0..m BY <3>1
      <4>2. v[i] = ValuesStep(v, items, i) BY <2>1, <4>1
      <4> QED BY <2>3, <3>1, <4>2, Zenon
    <3>2. CASE ~(i <= m) BY <2>3, <3>2, Zenon
    <3> QED BY <3>1, <3>2
  <2>5. w = [i \in 0..(m + 1) |-> ValuesStep(w, items, i)] BY <2>2, <2>4
  <2> QED BY <2>5
<1>3. \A m \in Nat : m \in T
  <2> HIDE DEF T
  <2> QED BY <1>1, <1>2, SetInduction
<1> QED BY <1>3

\* One item more is one value more, but for the switch to frames.
LEMMA ValuesAre ==
    ASSUME NEW items, Script(items)
    PROVE  /\ ValuesOf(items, 0) = <<>>
           /\ \A n \in 1..Len(items) :
                 ValuesOf(items, n) = IF items[n].k = "mux" THEN ValuesOf(items, n - 1)
                                      ELSE Append(ValuesOf(items, n - 1), items[n].v)
<1> DEFINE body(v, i) == IF i = 0 THEN <<>>
                         ELSE IF items[i].k = "mux" THEN v[i - 1] ELSE Append(v[i - 1], items[i].v)
           f == CHOOSE v : v = [i \in 0..Len(items) |-> body(v, i)]
<1>0. Len(items) \in Nat BY DEF Script
<1>1. \A n : ValuesOf(items, n) = f[n] BY Zenon DEF ValuesOf
<1>2. ASSUME NEW v, NEW i \in 0..Len(items) PROVE body(v, i) = ValuesStep(v, items, i)
  BY Zenon DEF ValuesStep
<1>3. PICK v : v = [i \in 0..Len(items) |-> ValuesStep(v, items, i)]
  BY <1>0, ValuesExist
<1> HIDE DEF body
<1>4. v = [i \in 0..Len(items) |-> body(v, i)] BY <1>2, <1>3
<1>5. f = [i \in 0..Len(items) |-> body(f, i)] BY <1>4, Zenon
<1> HIDE DEF f
<1>6. \A i \in 0..Len(items) : f[i] = ValuesStep(f, items, i) BY <1>2, <1>5
<1>7. f[0] = <<>>
  <2>1. 0 \in 0..Len(items) BY <1>0
  <2> QED BY <1>6, <2>1, Zenon DEF ValuesStep
<1>8. ASSUME NEW n \in 1..Len(items)
      PROVE  f[n] = IF items[n].k = "mux" THEN f[n - 1] ELSE Append(f[n - 1], items[n].v)
  <2>1. n \in 0..Len(items) /\ n # 0 BY <1>0
  <2> QED BY <1>6, <2>1, Zenon DEF ValuesStep
<1> QED BY <1>1, <1>7, <1>8, Zenon

\* Values are sequences, and later ones go on from earlier ones.
LEMMA ValuesTyped ==
    ASSUME NEW items, Script(items), NEW n \in 0..Len(items)
    PROVE  ValuesOf(items, n) \in Seq({items[j].v : j \in 1..Len(items)})
<1> DEFINE X == {items[j].v : j \in 1..Len(items)}
           T == {m \in Nat : m <= Len(items) => ValuesOf(items, m) \in Seq(X)}
<1>0. Len(items) \in Nat BY DEF Script
<1> HIDE DEF X
<1>1. 0 \in T
  <2>1. <<>> \in Seq(X) OBVIOUS
  <2> QED BY <2>1, ValuesAre, Zenon
<1>2. ASSUME NEW m \in Nat, m \in T PROVE m + 1 \in T
  <2> SUFFICES ASSUME m + 1 <= Len(items) PROVE ValuesOf(items, m + 1) \in Seq(X) OBVIOUS
  <2>1. m + 1 \in 1..Len(items) /\ (m + 1) - 1 = m BY <1>0
  <2>2. PICK s : s = ValuesOf(items, m) OBVIOUS
  <2>3. s \in Seq(X) BY <1>0, <1>2, <2>2
  <2>4. ValuesOf(items, m + 1) = IF items[m + 1].k = "mux" THEN s ELSE Append(s, items[m + 1].v)
    BY <2>1, <2>2, ValuesAre
  <2>5. PICK x \in X : x = items[m + 1].v BY <2>1 DEF X
  <2>6. s \in Seq(X) /\ Append(s, x) \in Seq(X) BY <2>3
  <2> QED BY <2>4, <2>5, <2>6, Zenon
<1>3. \A m \in Nat : m \in T
  <2> HIDE DEF T
  <2> QED BY <1>1, <1>2, SetInduction
<1>4. n \in Nat /\ n <= Len(items) BY <1>0
<1> QED BY <1>3, <1>4 DEF X

\* The value of an item among the first n has its place among theirs.
LEMMA ValuesAhead ==
    ASSUME NEW items, Script(items), NEW i \in 1..Len(items), items[i].k # "mux",
           NEW n \in i..Len(items)
    PROVE  LET before == Len(ValuesOf(items, i - 1))
           IN  /\ before < Len(ValuesOf(items, n))
               /\ ValuesOf(items, n)[before + 1] = items[i].v
<1>0. Len(items) \in Nat /\ i \in Nat /\ n \in Nat BY DEF Script
<1>1. PICK X : \A m \in 0..Len(items) : ValuesOf(items, m) \in Seq(X) BY ValuesTyped
<1>2. PICK b \in Nat : b = Len(ValuesOf(items, i - 1))
  <2>1. i - 1 \in 0..Len(items) BY <1>0
  <2> QED BY <1>1, <2>1
<1> DEFINE Has(m) == b < Len(ValuesOf(items, m)) /\ ValuesOf(items, m)[b + 1] = items[i].v
           T == {m \in Nat : i <= m /\ m <= Len(items) => Has(m)}
<1>3. 0 \in T OBVIOUS
<1>4. ASSUME NEW m \in Nat, m \in T PROVE m + 1 \in T
  <2> SUFFICES ASSUME i <= m + 1, m + 1 <= Len(items) PROVE Has(m + 1) OBVIOUS
  <2>1. m + 1 \in 1..Len(items) /\ (m + 1) - 1 = m /\ m \in 0..Len(items) BY <1>0
  <2>2. PICK s \in Seq(X) : s = ValuesOf(items, m) BY <1>1, <2>1
  <2>3. ValuesOf(items, m + 1) = IF items[m + 1].k = "mux" THEN s ELSE Append(s, items[m + 1].v)
    BY <2>1, <2>2, ValuesAre
  <2>4. PICK t : t = ValuesOf(items, m + 1) OBVIOUS
  <2>5. CASE i = m + 1
    <3>1. Len(s) = b /\ t = Append(s, items[i].v) BY <1>2, <2>1, <2>2, <2>3, <2>4, <2>5, Zenon
    <3>2. b < Len(t) /\ t[b + 1] = items[i].v BY <3>1
    <3> QED BY <2>4, <3>2, Zenon
  <2>6. CASE i # m + 1
    <3>1. i <= m /\ m <= Len(items) BY <1>0, <2>6
    <3>2. b < Len(s) /\ s[b + 1] = items[i].v BY <1>4, <2>2, <3>1, Zenon
    <3>3. t = s \/ t = Append(s, items[m + 1].v) BY <2>3, <2>4, Zenon
    <3>4. b < Len(t) /\ t[b + 1] = items[i].v BY <3>2, <3>3, SMTT(30)
    <3> QED BY <2>4, <3>4, Zenon
  <2> QED BY <2>5, <2>6
<1>5. \A m \in Nat : m \in T
  <2> HIDE DEF T
  <2> QED BY <1>3, <1>4, SetInduction
<1>6. Has(n) BY <1>0, <1>5
<1> QED BY <1>2, <1>6, Zenon

-----------------------------------------------------------------------------
(* The bytes under way.                                                    *)

\* An item written to a framed stream.
LEMMA SentFramed ==
    ASSUME NEW F, NEW B, Framed(F, B), NEW c, Calls(c)
    PROVE  /\ Sent(c, TRUE) \in Seq(Byte) /\ Sent(c, FALSE) \in Seq(Byte)
           /\ Framed(F \o Sent(c, TRUE), B \o Sent(c, FALSE))
<1>0. F \in Seq(Byte) /\ B \in Seq(Byte) BY FramedTyped, Zenon
<1>1. CASE c = <<c[1]>>
  <2>1. PICK y : y = c[1] OBVIOUS
  <2>2. 1 \in DOMAIN c /\ 2 \notin DOMAIN c
    <3>1. DOMAIN <<y>> = {1} OBVIOUS
    <3> QED BY <1>1, <2>1, <3>1
  <2>3. y \in Seq(Byte) BY <2>1, <2>2 DEF Calls
  <2>4. Frames(y) \in Seq(Byte) /\ Framed(F \o Frames(y), B \o y) BY <2>3, FramesFramed, Zenon
  <2>5. Sent(c, TRUE) = Frames(y) \o <<>> /\ Sent(c, FALSE) = y \o <<>> BY <2>1, <2>2, Zenon DEF Sent
  <2>6. Sent(c, TRUE) = Frames(y) /\ Sent(c, FALSE) = y BY <2>3, <2>4, <2>5, EmptyJoin, Zenon
  <2> QED BY <2>3, <2>4, <2>6, Zenon
<1>2. CASE c = <<c[1], c[2]>>
  <2>1. PICK y, z : y = c[1] /\ z = c[2] OBVIOUS
  <2>2. 1 \in DOMAIN c /\ 2 \in DOMAIN c
    <3>1. DOMAIN <<y, z>> = {1, 2} OBVIOUS
    <3> QED BY <1>2, <2>1, <3>1
  <2>3. y \in Seq(Byte) /\ z \in Seq(Byte) BY <2>1, <2>2 DEF Calls
  <2>4. Frames(y) \in Seq(Byte) /\ Framed(F \o Frames(y), B \o y) BY <2>3, FramesFramed, Zenon
  <2>5. Frames(z) \in Seq(Byte) /\ Framed((F \o Frames(y)) \o Frames(z), (B \o y) \o z)
    BY <2>3, <2>4, FramesFramed, Zenon
  <2>6. Sent(c, TRUE) = Frames(y) \o Frames(z) /\ Sent(c, FALSE) = y \o z BY <2>1, <2>2, Zenon DEF Sent
  <2>7. Sent(c, TRUE) \in Seq(Byte) /\ Sent(c, FALSE) \in Seq(Byte)
    BY <2>3, <2>4, <2>5, <2>6, JoinTyped, Zenon
  <2>8. (F \o Frames(y)) \o Frames(z) = F \o Sent(c, TRUE)
    <3>1. Regroups(F, Frames(y), Frames(z)) BY <1>0, <2>4, <2>5, Assoc, Zenon
    <3> QED BY <2>6, <3>1, Zenon DEF Regroups
  <2>9. (B \o y) \o z = B \o Sent(c, FALSE)
    <3>1. Regroups(B, y, z) BY <1>0, <2>3, Assoc, Zenon
    <3> QED BY <2>6, <3>1, Zenon DEF Regroups
  <2> QED BY <2>5, <2>7, <2>8, <2>9, Zenon
<1> QED BY <1>1, <1>2, Zenon DEF Calls

\* Sequences by their elements.
LEMMA SameSeq ==
    ASSUME NEW X, NEW s \in Seq(X), NEW t \in Seq(X), Len(s) = Len(t), \A j \in 1..Len(s) : s[j] = t[j]
    PROVE  s = t
  OBVIOUS

IsJoin(q, s, t) ==
    /\ q \in Seq(Byte) /\ Len(q) = Len(s) + Len(t)
    /\ \A j \in 1..Len(s) : q[j] = s[j]
    /\ \A j \in 1..Len(t) : q[Len(s) + j] = t[j]

\* Two strings of bytes joined, by their bytes.
LEMMA JoinIs ==
    ASSUME NEW s \in Seq(Byte), NEW t \in Seq(Byte)
    PROVE  IsJoin(s \o t, s, t)
<1>1. PICK X : X = Byte OBVIOUS
<1>2. s \in Seq(X) /\ t \in Seq(X) BY <1>1
<1>3. /\ s \o t \in Seq(X) /\ Len(s \o t) = Len(s) + Len(t)
      /\ \A j \in 1..Len(s) : (s \o t)[j] = s[j]
      /\ \A j \in 1..Len(t) : (s \o t)[Len(s) + j] = t[j]
  BY <1>2
<1> QED BY <1>1, <1>3, Zenon DEF IsJoin

\* A part of a string, by its elements.
LEMMA PartIs ==
    ASSUME NEW X, NEW S \in Seq(X), NEW u \in Nat, NEW v \in Nat, u <= v, v <= Len(S)
    PROVE  /\ Part(S, u, v) \in Seq(X) /\ Len(Part(S, u, v)) = v - u
           /\ \A j \in 1..(v - u) : Part(S, u, v)[j] = S[u + j]
  BY DEF Part

IsDrop(q, P, n) ==
    q \in Seq(Byte) /\ Len(q) = Len(P) - n /\ \A j \in 1..(Len(P) - n) : q[j] = P[n + j]

\* What is left behind the first n bytes, byte by byte.
LEMMA DropIs ==
    ASSUME NEW P \in Seq(Byte), NEW n \in Nat, n <= Len(P)
    PROVE  IsDrop(Drop(P, n), P, n)
<1>1. PICK X : X = Byte OBVIOUS
<1>2. P \in Seq(X) BY <1>1
<1>3. /\ Drop(P, n) \in Seq(X) /\ Len(Drop(P, n)) = Len(P) - n
      /\ \A j \in 1..(Len(P) - n) : Drop(P, n)[j] = P[n + j]
  BY <1>2 DEF Drop
<1> QED BY <1>1, <1>3, Zenon DEF IsDrop

\* Two parts of a string side by side.
Adjoining(S, u, v, w) ==
    /\ Part(S, u, v) \in Seq(Byte) /\ Len(Part(S, u, v)) = v - u
    /\ Part(S, u, v) \o Part(S, v, w) = Part(S, u, w)
    /\ SubSeq(Part(S, u, w), 1, v - u) = Part(S, u, v)

\* Adjoining parts make one.
LEMMA PartJoin ==
    ASSUME NEW S \in Seq(Byte), NEW u \in Nat, NEW v \in Nat, NEW w \in Nat,
           u <= v, v <= w, w <= Len(S)
    PROVE  Adjoining(S, u, v, w)
  BY DEF Part, Adjoining

\* t is what follows the first R bytes of S.
Follows(S, R, t) == \A j \in 1..Len(t) : S[R + j] = t[j]

\* A part that begins with t.
Splits(S, u, w, t, B) == u + Len(t) <= w /\ Part(S, u + Len(t), w) = B /\ Follows(S, u, t)

\* If a part is t and then B, then it begins with t and goes on with B.
LEMMA PartSplit ==
    ASSUME NEW S \in Seq(Byte), NEW u \in Nat, NEW w \in Nat, u <= w, w <= Len(S),
           NEW t \in Seq(Byte), NEW B \in Seq(Byte), Part(S, u, w) = t \o B
    PROVE  Splits(S, u, w, t, B)
<1>1. PICK m \in Nat : m = Len(t) OBVIOUS
<1>2. PICK X : X = Part(S, u, w) OBVIOUS
<1>3. X \in Seq(Byte) /\ Len(X) = w - u /\ \A j \in 1..(w - u) : X[j] = S[u + j]
  BY <1>2, PartIs, Zenon
<1>a. X = t \o B BY <1>2
<1>4. Len(X) = m + Len(B) /\ (\A j \in 1..m : X[j] = t[j]) /\ \A j \in 1..Len(B) : X[m + j] = B[j]
  <2>1. IsJoin(X, t, B) BY <1>a, JoinIs, Zenon
  <2> QED BY <1>1, <2>1, Zenon DEF IsJoin
<1>5. \A j \in 1..Len(B) : X[m + j] = B[j] BY <1>4
<1>6. u + m <= w BY <1>3, <1>4
<1>7. \A j \in 1..m : S[u + j] = t[j] BY <1>3, <1>4, <1>6
<1>9. Part(S, u + m, w) = B
  <2>1. PICK Y : Y = Part(S, u + m, w) OBVIOUS
  <2>0. u + m \in Nat BY <1>6
  <2>2. Y \in Seq(Byte) /\ Len(Y) = w - (u + m) /\ \A j \in 1..(w - (u + m)) : Y[j] = S[(u + m) + j]
    BY <1>6, <2>0, <2>1, PartIs, ZenonT(60)
  <2>3. Len(Y) = Len(B)
    <3>1. PICK y, z : y = Len(Y) /\ z = Len(B) OBVIOUS
    <3>2. y \in Nat /\ z \in Nat BY <2>2, <3>1
    <3>3. w - u = m + z BY <1>3, <1>4, <3>1
    <3>4. y = w - (u + m) BY <2>2, <3>1
    <3> QED BY <3>1, <3>2, <3>3, <3>4
  <2>4. ASSUME NEW j \in 1..Len(B) PROVE Y[j] = B[j]
    <3>1. X[m + j] = B[j] BY <1>5
    <3>2. m + j \in 1..(w - u) BY <1>3, <1>4
    <3>3. X[m + j] = S[u + (m + j)] BY <1>3, <3>2
    <3>4. Y[j] = S[(u + m) + j] BY <2>2, <2>3
    <3>5. u + (m + j) = (u + m) + j OBVIOUS
    <3> QED BY <3>1, <3>3, <3>4, <3>5
  <2>5. Y = B BY <2>2, <2>3, <2>4, SameSeq, Zenon
  <2> QED BY <2>1, <2>5
<1> QED BY <1>1, <1>6, <1>7, <1>9 DEF Follows, Splits

\* P is what is under way to a reader that has R bytes of S behind it: a more bytes of
\* S and then F, or as much of it as a break has left.
Ahead(P, S, R, a, F, ct) ==
    /\ Len(P) <= a + Len(F) /\ (~ct => Len(P) = a + Len(F))
    /\ \A j \in 1..Len(P) : P[j] = IF j <= a THEN S[R + j] ELSE F[j - a]

\* More bytes of S are written as they are, up to b behind R.
LEMMA AheadPlain ==
    ASSUME NEW S \in Seq(Byte), NEW P \in Seq(Byte), NEW R \in Nat, NEW a \in Nat, NEW b \in Nat,
           a <= b, R + b <= Len(S), Ahead(P, S, R, a, <<>>, FALSE)
    PROVE  Ahead(P \o Part(S, R + a, R + b), S, R, b, <<>>, FALSE)
<1>1. PICK E : E = Part(S, R + a, R + b) OBVIOUS
<1>0. R + a \in Nat /\ R + b \in Nat /\ R + a <= R + b /\ (R + b) - (R + a) = b - a OBVIOUS
<1>2. E \in Seq(Byte) /\ Len(E) = b - a /\ \A j \in 1..(b - a) : E[j] = S[(R + a) + j]
  <2>1. /\ E \in Seq(Byte) /\ Len(E) = (R + b) - (R + a)
        /\ \A j \in 1..((R + b) - (R + a)) : E[j] = S[(R + a) + j]
    BY <1>0, <1>1, PartIs, ZenonT(60)
  <2> QED BY <1>0, <2>1, Zenon
<1>3. Len(P) = a /\ \A j \in 1..a : P[j] = S[R + j]
  <2>1. Len(<<>>) = 0 OBVIOUS
  <2>2. Len(P) = a + Len(<<>>) /\ \A j \in 1..Len(P) : P[j] = IF j <= a THEN S[R + j] ELSE <<>>[j - a]
    BY Zenon DEF Ahead
  <2> QED BY <2>1, <2>2
<1>4. PICK Q : Q = P \o E OBVIOUS
<1>9. /\ Q \in Seq(Byte) /\ Len(Q) = Len(P) + Len(E)
      /\ \A j \in 1..Len(P) : Q[j] = P[j]
      /\ \A j \in 1..Len(E) : Q[Len(P) + j] = E[j]
  <2>1. IsJoin(Q, P, E) BY <1>2, <1>4, JoinIs, Zenon
  <2> QED BY <2>1, Zenon DEF IsJoin
<1>5. Len(Q) = b BY <1>2, <1>3, <1>9
<1>6. ASSUME NEW j \in 1..b PROVE Q[j] = S[R + j]
  <2>1. CASE j <= a BY <1>3, <1>9, <2>1
  <2>2. CASE ~(j <= a)
    <3>1. j - a \in 1..(b - a) /\ Len(P) + (j - a) = j BY <1>3, <2>2
    <3>2. Q[j] = E[j - a] BY <1>2, <1>9, <3>1
    <3>3. E[j - a] = S[(R + a) + (j - a)] BY <1>2, <3>1
    <3>4. (R + a) + (j - a) = R + j OBVIOUS
    <3> QED BY <3>2, <3>3, <3>4
  <2> QED BY <2>1, <2>2
<1>7. Ahead(Q, S, R, b, <<>>, FALSE)
  <2>1. Len(<<>>) = 0 OBVIOUS
  <2>2. Len(Q) <= b + Len(<<>>) /\ Len(Q) = b + Len(<<>>) BY <1>5, <2>1
  <2>3. \A j \in 1..Len(Q) : Q[j] = IF j <= b THEN S[R + j] ELSE <<>>[j - b] BY <1>5, <1>6
  <2> QED BY <2>2, <2>3, Zenon DEF Ahead
<1> QED BY <1>1, <1>4, <1>7

\* Frames G are written.
LEMMA AheadFrames ==
    ASSUME NEW S, NEW P \in Seq(Byte), NEW R \in Nat, NEW a \in Nat,
           NEW F \in Seq(Byte), NEW G \in Seq(Byte), Ahead(P, S, R, a, F, FALSE)
    PROVE  Ahead(P \o G, S, R, a, F \o G, FALSE)
<1>1. PICK Q : Q = P \o G OBVIOUS
<1>2. PICK H : H = F \o G OBVIOUS
<1>3. Len(P) = a + Len(F) /\ \A j \in 1..Len(P) : P[j] = IF j <= a THEN S[R + j] ELSE F[j - a]
  BY Zenon DEF Ahead
<1>7. /\ Q \in Seq(Byte) /\ Len(Q) = Len(P) + Len(G)
      /\ \A j \in 1..Len(P) : Q[j] = P[j]
      /\ \A j \in 1..Len(G) : Q[Len(P) + j] = G[j]
  <2>1. IsJoin(Q, P, G) BY <1>1, JoinIs, Zenon
  <2> QED BY <2>1, Zenon DEF IsJoin
<1>8. /\ H \in Seq(Byte) /\ Len(H) = Len(F) + Len(G)
      /\ \A j \in 1..Len(F) : H[j] = F[j]
      /\ \A j \in 1..Len(G) : H[Len(F) + j] = G[j]
  <2>1. IsJoin(H, F, G) BY <1>2, JoinIs, Zenon
  <2> QED BY <2>1, Zenon DEF IsJoin
<1>4. Len(Q) = a + Len(H) BY <1>3, <1>7, <1>8
<1>5. ASSUME NEW j \in 1..Len(Q) PROVE Q[j] = IF j <= a THEN S[R + j] ELSE H[j - a]
  <2>1. CASE j <= Len(P)
    <3>0. j \in 1..Len(P) BY <2>1
    <3>1. Q[j] = P[j] BY <1>7, <3>0
    <3>2. P[j] = IF j <= a THEN S[R + j] ELSE F[j - a] BY <1>3, <3>0
    <3>3. ~(j <= a) => j - a \in 1..Len(F) BY <1>3, <3>0
    <3>4. ~(j <= a) => H[j - a] = F[j - a] BY <1>8, <3>3
    <3> QED BY <3>1, <3>2, <3>4, Zenon
  <2>2. CASE ~(j <= Len(P))
    <3>3. Len(Q) = Len(P) + Len(G) BY <1>7
    <3>4. j - Len(P) \in 1..Len(G) BY <2>2, <3>3
    <3>0. PICK k \in 1..Len(G) : k = j - Len(P) BY <3>4
    <3>1. Len(P) + k = j /\ Len(F) + k = j - a /\ ~(j <= a) BY <1>3, <3>0
    <3>2. Q[j] = G[k] /\ H[j - a] = G[k] BY <1>7, <1>8, <3>1
    <3> QED BY <3>1, <3>2, Zenon
  <2> QED BY <2>1, <2>2
<1>6. Ahead(Q, S, R, a, H, FALSE)
  <2>1. Len(Q) <= a + Len(H) BY <1>4, <1>8
  <2> QED BY <1>4, <1>5, <2>1, Zenon DEF Ahead
<1> QED BY <1>1, <1>2, <1>6

\* n bytes of S are read.
LEMMA AheadRead ==
    ASSUME NEW S \in Seq(Byte), NEW P \in Seq(Byte), NEW R \in Nat, NEW a \in Nat, NEW F \in Seq(Byte), NEW ct,
           R + a <= Len(S), NEW n \in Nat, n <= a, n <= Len(P), Ahead(P, S, R, a, F, ct)
    PROVE  /\ SubSeq(P, 1, n) = Part(S, R, R + n)
           /\ Drop(P, n) \in Seq(Byte)
           /\ Ahead(Drop(P, n), S, R + n, a - n, F, ct)
<1>1. PICK Q : Q = Drop(P, n) OBVIOUS
<1>2. Q \in Seq(Byte) /\ Len(Q) = Len(P) - n /\ \A j \in 1..Len(Q) : Q[j] = P[n + j]
  <2>1. IsDrop(Q, P, n) BY <1>1, DropIs, Zenon
  <2> QED BY <2>1, Zenon DEF IsDrop
<1>3. /\ Len(P) <= a + Len(F) /\ (~ct => Len(P) = a + Len(F))
      /\ \A j \in 1..Len(P) : P[j] = IF j <= a THEN S[R + j] ELSE F[j - a]
  BY DEF Ahead
<1>4. Len(Q) <= (a - n) + Len(F) /\ (~ct => Len(Q) = (a - n) + Len(F)) BY <1>2, <1>3
<1>5. ASSUME NEW j \in 1..Len(Q) PROVE Q[j] = IF j <= a - n THEN S[(R + n) + j] ELSE F[j - (a - n)]
  <2>1. n + j \in 1..Len(P) BY <1>2
  <2>2. Q[j] = P[n + j] BY <1>2
  <2>3. P[n + j] = IF n + j <= a THEN S[R + (n + j)] ELSE F[(n + j) - a] BY <1>3, <2>1
  <2>4. R + (n + j) = (R + n) + j /\ (n + j) - a = j - (a - n) /\ (n + j <= a <=> j <= a - n) OBVIOUS
  <2> QED BY <2>2, <2>3, <2>4
<1>6. Ahead(Q, S, R + n, a - n, F, ct) BY <1>4, <1>5, Zenon DEF Ahead
<1>7. SubSeq(P, 1, n) = Part(S, R, R + n)
  <2>0. R + n \in Nat /\ R <= R + n /\ R + n <= Len(S) /\ (R + n) - R = n /\ n \in 0..Len(P) OBVIOUS
  <2>1. PICK X : X = SubSeq(P, 1, n) OBVIOUS
  <2>2. PICK Y : Y = Part(S, R, R + n) OBVIOUS
  <2>3. X \in Seq(Byte) /\ Len(X) = n /\ \A j \in 1..n : X[j] = P[j] BY <2>0, <2>1, PrefixFacts, Zenon
  <2>4. Y \in Seq(Byte) /\ Len(Y) = n /\ \A j \in 1..n : Y[j] = S[R + j]
    <3>1. /\ Y \in Seq(Byte) /\ Len(Y) = (R + n) - R /\ \A j \in 1..((R + n) - R) : Y[j] = S[R + j]
      BY <2>0, <2>2, PartIs, ZenonT(60)
    <3> QED BY <2>0, <3>1, Zenon
  <2>5. \A j \in 1..n : P[j] = S[R + j] BY <1>3
  <2>6. X = Y BY <2>3, <2>4, <2>5, SameSeq
  <2> QED BY <2>1, <2>2, <2>6
<1> QED BY <1>1, <1>2, <1>6, <1>7, Zenon

Begins(P, h) == \A j \in 1..Len(h) : P[j] = h[j]

\* The header of a data frame is read: its bytes are next.
LEMMA AheadHeader ==
    ASSUME NEW S \in Seq(Byte), NEW P \in Seq(Byte), NEW R \in Nat, NEW h \in Seq(Byte), NEW t \in Seq(Byte),
           NEW G \in Seq(Byte), NEW ct, Ahead(P, S, R, 0, (h \o t) \o G, ct), Len(h) <= Len(P),
           Follows(S, R, t)
    PROVE  /\ Begins(P, h)
           /\ Drop(P, Len(h)) \in Seq(Byte)
           /\ Ahead(Drop(P, Len(h)), S, R, Len(t), G, ct)
<1>1. PICK n \in Nat, m \in Nat : n = Len(h) /\ m = Len(t) OBVIOUS
<1>a. PICK u : u = h \o t OBVIOUS
<1>b. /\ u \in Seq(Byte) /\ Len(u) = n + m
      /\ \A j \in 1..n : u[j] = h[j]
      /\ \A j \in 1..m : u[n + j] = t[j]
  <2>1. IsJoin(u, h, t) BY <1>a, JoinIs, Zenon
  <2> QED BY <1>1, <2>1, Zenon DEF IsJoin
<1>2. PICK F : F = u \o G OBVIOUS
<1>c. /\ F \in Seq(Byte) /\ Len(F) = (n + m) + Len(G)
      /\ \A j \in 1..(n + m) : F[j] = u[j]
      /\ \A j \in 1..Len(G) : F[(n + m) + j] = G[j]
  <2>1. IsJoin(F, u, G) BY <1>2, <1>b, JoinIs, Zenon
  <2> QED BY <1>b, <2>1, Zenon DEF IsJoin
<1>3. Len(F) = n + m + Len(G) BY <1>c
<1>4. \A j \in 1..n : F[j] = h[j] BY <1>b, <1>c
<1>5. \A j \in 1..m : F[n + j] = t[j] BY <1>b, <1>c
<1>6. \A j \in 1..Len(G) : F[n + m + j] = G[j] BY <1>c
<1>7. /\ Len(P) <= Len(F) /\ (~ct => Len(P) = Len(F)) /\ \A j \in 1..Len(P) : P[j] = F[j]
  <2>1. \A j \in 1..Len(P) : ~(j <= 0) /\ j - 0 = j OBVIOUS
  <2>2. Ahead(P, S, R, 0, F, ct) BY <1>a, <1>2, Zenon
  <2>3. /\ Len(P) <= 0 + Len(F) /\ (~ct => Len(P) = 0 + Len(F))
        /\ \A j \in 1..Len(P) : P[j] = IF j <= 0 THEN S[R + j] ELSE F[j - 0]
    BY <2>2, Zenon DEF Ahead
  <2> QED BY <1>c, <2>1, <2>3
<1>8. PICK Q : Q = Drop(P, n) OBVIOUS
<1>9. Q \in Seq(Byte) /\ Len(Q) = Len(P) - n /\ \A j \in 1..Len(Q) : Q[j] = P[n + j]
  <2>1. IsDrop(Q, P, n)
    <3>1. n <= Len(P) BY <1>1
    <3> QED BY <1>8, <3>1, DropIs, Zenon
  <2> QED BY <2>1, Zenon DEF IsDrop
<1>10. Len(Q) <= m + Len(G) /\ (~ct => Len(Q) = m + Len(G)) BY <1>3, <1>7, <1>9
<1>11. ASSUME NEW j \in 1..Len(Q) PROVE Q[j] = IF j <= m THEN S[R + j] ELSE G[j - m]
  <2>1. Q[j] = F[n + j] BY <1>7, <1>9
  <2>2. CASE j <= m BY <1>1, <1>5, <2>1, <2>2 DEF Follows
  <2>3. CASE ~(j <= m)
    <3>1. j - m \in 1..Len(G) BY <1>10, <2>3
    <3>2. F[n + m + (j - m)] = G[j - m] BY <1>6, <3>1
    <3>3. n + m + (j - m) = n + j OBVIOUS
    <3> QED BY <2>1, <2>3, <3>2, <3>3
  <2> QED BY <2>2, <2>3
<1>12. Ahead(Q, S, R, m, G, ct) BY <1>10, <1>11, Zenon DEF Ahead
<1>13. \A j \in 1..n : P[j] = h[j]
  <2>1. \A j \in 1..n : j \in 1..Len(P) BY <1>1
  <2> QED BY <1>4, <1>7, <2>1, Zenon
<1> QED BY <1>1, <1>8, <1>9, <1>12, <1>13, Zenon DEF Begins

\* A message is taken off whole.
LEMMA AheadMessage ==
    ASSUME NEW S \in Seq(Byte), NEW P \in Seq(Byte), NEW R \in Nat, NEW h \in Seq(Byte),
           NEW G \in Seq(Byte), NEW ct, Ahead(P, S, R, 0, h \o G, ct), Len(h) <= Len(P)
    PROVE  /\ Begins(P, h)
           /\ Drop(P, Len(h)) \in Seq(Byte)
           /\ Ahead(Drop(P, Len(h)), S, R, 0, G, ct)
<1>1. PICK t : t = <<>> OBVIOUS
<1>6. t \in Seq(Byte) /\ Len(t) = 0 BY <1>1
<1>2. h \o t = h /\ Len(t) = 0 BY <1>1, <1>6, EmptyJoin, Zenon
<1>3. Ahead(P, S, R, 0, (h \o t) \o G, ct) BY <1>2, Zenon
<1>4. Follows(S, R, t) BY <1>2 DEF Follows
<1>5. /\ Begins(P, h)
      /\ Drop(P, Len(h)) \in Seq(Byte) /\ Ahead(Drop(P, Len(h)), S, R, Len(t), G, ct)
  BY <1>3, <1>4, <1>6, AheadHeader, Zenon
<1> QED BY <1>2, <1>5, Zenon

\* A break leaves some first part of what is under way.
LEMMA AheadCut ==
    ASSUME NEW S, NEW P \in Seq(Byte), NEW R, NEW a \in Nat, NEW F \in Seq(Byte), NEW ct,
           Ahead(P, S, R, a, F, ct), NEW c \in 0..Len(P)
    PROVE  SubSeq(P, 1, c) \in Seq(Byte) /\ Ahead(SubSeq(P, 1, c), S, R, a, F, TRUE)
<1>1. PICK Q : Q = SubSeq(P, 1, c) OBVIOUS
<1>2. Q \in Seq(Byte) /\ Len(Q) = c /\ \A j \in 1..c : Q[j] = P[j] BY <1>1, PrefixFacts, Zenon
<1>3. Len(P) <= a + Len(F) /\ \A j \in 1..Len(P) : P[j] = IF j <= a THEN S[R + j] ELSE F[j - a]
  BY DEF Ahead
<1>4. Len(Q) <= a + Len(F) BY <1>2, <1>3
<1>5. \A j \in 1..Len(Q) : j \in 1..Len(P) /\ Q[j] = P[j] BY <1>2
<1>6. Ahead(Q, S, R, a, F, TRUE) BY <1>3, <1>4, <1>5, Zenon DEF Ahead
<1> QED BY <1>1, <1>2, <1>6, Zenon

-----------------------------------------------------------------------------
(* One direction of the connection.                                        *)

MuxBy(items, n) == \E k \in 1..n : items[k].k = "mux"

\* The writer has written o of the items and its peer has read i; either has switched to
\* frames if the conversation has frames (fr) and the place is among those items.
Standing(items, fr, o, i, mi, mo) ==
    /\ o \in 0..Len(items) /\ i \in 0..Len(items)
    /\ i <= o \/ (i = o + 1 /\ items[i].k = "mux")
    /\ mo <=> (fr /\ MuxBy(items, o))
    /\ mi <=> (fr /\ MuxBy(items, i))

\* The reader has R bytes of S behind it, the last of them in g; the next a are
\* under way as they are and those after them in the frames of F.  While it counts frames,
\* a is what is left of one; before that, a ends where the frames begin.
Flow(items, S, pos, R, a, F, o, i, P, p, g, mi, mo, ct) ==
    /\ pos[i] <= R /\ R + a <= pos[o]
    /\ i < o => R <= pos[i + 1]
    /\ i >= o => R = pos[i]
    /\ g = Part(S, pos[i], R)
    /\ Framed(F, Part(S, R + a, pos[o]))
    /\ Ahead(P, S, R, a, F, ct)
    /\ mi => a = p
    /\ ~mo => F = <<>> /\ R + a = pos[o]
    /\ mo /\ ~mi => \E k \in (i + 1)..o : items[k].k = "mux" /\ pos[k] = R + a

Direction(items, fr, o, i, P, p, g, mi, mo, ct) ==
    /\ Standing(items, fr, o, i, mi, mo)
    /\ P \in Seq(Byte) /\ g \in Seq(Byte) /\ p \in Nat /\ (~mi => p = 0)
    /\ \E S, pos : /\ Laid(items, Len(items), S, pos)
                   /\ \E R, a \in Nat : \E F \in Seq(Byte) :
                         Flow(items, S, pos, R, a, F, o, i, P, p, g, mi, mo, ct)

\* What one knows of the places.
Placed(items, S, pos) ==
    /\ S \in Seq(Byte) /\ Len(items) \in Nat
    /\ \A k \in 0..Len(items) : pos[k] \in Nat /\ pos[k] <= Len(S)
    /\ \A k \in 1..Len(items) :
          /\ pos[k - 1] <= pos[k]
          /\ Part(S, pos[k - 1], pos[k]) = Enc(items, k)
          /\ items[k].k = "mux" => pos[k] = pos[k - 1]
    /\ \A j, k \in 0..Len(items) : j <= k => pos[j] <= pos[k]

\* The places of a laid script are within its bytes and in order.
LEMMA LaidFacts ==
    ASSUME NEW items, Script(items), NEW S, NEW pos, Laid(items, Len(items), S, pos)
    PROVE  Placed(items, S, pos)
<1>1. PICK N \in Nat : N = Len(items) BY DEF Script
<1>2. /\ S \in Seq(Byte) /\ pos \in [0..N -> Nat]
      /\ pos[0] = 0 /\ pos[N] = Len(S)
      /\ \A k \in 1..N : /\ pos[k - 1] <= pos[k] /\ pos[k] <= Len(S)
                         /\ Part(S, pos[k - 1], pos[k]) = Enc(items, k)
  BY <1>1, Zenon DEF Laid
<1>3. \A k \in 0..N : pos[k] \in Nat /\ pos[k] <= Len(S)
  <2> TAKE k \in 0..N
  <2>1. pos[k] \in Nat BY <1>2
  <2>2. k \in 1..N \/ k = 0 OBVIOUS
  <2>3. Len(S) \in Nat BY <1>2
  <2> QED BY <1>2, <2>1, <2>2, <2>3
<1>4. ASSUME NEW k \in 1..N, items[k].k = "mux" PROVE pos[k] = pos[k - 1]
  <2>1. Enc(items, k) = <<>> BY <1>1, <1>4, EncTyped, Zenon
  <2>2. k - 1 \in 0..N /\ k \in 0..N OBVIOUS
  <2>3. PICK u \in Nat, v \in Nat : u = pos[k - 1] /\ v = pos[k] BY <1>3, <2>2
  <2>4. u <= v /\ v <= Len(S) /\ Part(S, u, v) = <<>> BY <1>2, <2>1, <2>3, Zenon
  <2>5. Len(Part(S, u, v)) = v - u BY <1>2, <2>4, PartIs, Zenon
  <2>6. Len(<<>>) = 0 OBVIOUS
  <2>7. v - u = 0 BY <2>4, <2>5, <2>6, Zenon
  <2> QED BY <2>3, <2>7
<1>5. \A j, k \in 0..N : j <= k => pos[j] <= pos[k] BY <1>1, PlacesOrder, Zenon
<1> QED BY <1>1, <1>2, <1>3, <1>4, <1>5, Zenon DEF Placed

\* There is one place at most at which a stream is switched to frames.
LEMMA OneMux ==
    ASSUME NEW items, Script(items), NEW j \in 1..Len(items), NEW k \in 1..Len(items),
           items[j].k = "mux", items[k].k = "mux"
    PROVE  j = k
  BY Zenon DEF Script

\* One item more, which may be the switch to frames.
LEMMA MuxMore ==
    ASSUME NEW items, Script(items), NEW n \in 0..Len(items)
    PROVE  /\ \A m \in 0..n : MuxBy(items, m) => MuxBy(items, n)
           /\ n < Len(items) /\ items[n + 1].k = "mux"
                => ~MuxBy(items, n) /\ MuxBy(items, n + 1)
           /\ n < Len(items) /\ items[n + 1].k # "mux"
                => (MuxBy(items, n + 1) <=> MuxBy(items, n))
<1>0. Len(items) \in Nat BY DEF Script
<1>1. \A m \in 0..n : MuxBy(items, m) => MuxBy(items, n)
  <2>1. \A m \in 0..n : \A k \in 1..m : k \in 1..n BY <1>0
  <2> QED BY <2>1, Zenon DEF MuxBy
<1>2. ASSUME n < Len(items), items[n + 1].k = "mux"
      PROVE  ~MuxBy(items, n) /\ MuxBy(items, n + 1)
  <2>1. n + 1 \in 1..Len(items) /\ n + 1 \in 1..(n + 1) /\ \A k \in 1..n : k \in 1..Len(items) /\ k # n + 1
    BY <1>0, <1>2
  <2> QED BY <1>2, <2>1, OneMux, Zenon DEF MuxBy
<1>3. ASSUME n < Len(items), items[n + 1].k # "mux"
      PROVE  MuxBy(items, n + 1) <=> MuxBy(items, n)
  <2>1. \A k \in 1..(n + 1) : k \in 1..n \/ k = n + 1 BY <1>0
  <2>2. \A k \in 1..n : k \in 1..(n + 1) BY <1>0
  <2> QED BY <1>3, <2>1, <2>2, Zenon DEF MuxBy
<1> QED BY <1>1, <1>2, <1>3

\* What one knows of a direction at the places i and o.
Stands(items, o, i, mi, mo) ==
    /\ Len(items) \in Nat /\ o \in Nat /\ i \in Nat /\ o <= Len(items) /\ i <= Len(items)
    /\ o \in 0..Len(items) /\ i \in 0..Len(items)
    /\ i <= o => (mi => mo)
    /\ ~(i <= o) => i = o + 1 /\ items[i].k = "mux" /\ ~mo

\* A reader is ahead of its peer at most by the switch to frames, and does not count frames
\* before its peer writes them.
LEMMA FlowFacts ==
    ASSUME NEW items, Script(items), NEW fr \in BOOLEAN, NEW mi \in BOOLEAN, NEW mo \in BOOLEAN,
           NEW o, NEW i, Standing(items, fr, o, i, mi, mo)
    PROVE  Stands(items, o, i, mi, mo)
<1>1. /\ Len(items) \in Nat /\ o \in 0..Len(items) /\ i \in 0..Len(items)
      /\ i <= o \/ (i = o + 1 /\ items[i].k = "mux")
      /\ mo <=> (fr /\ MuxBy(items, o))
      /\ mi <=> (fr /\ MuxBy(items, i))
  BY Zenon DEF Standing, Script
<1>2. ASSUME i <= o PROVE mi => mo
  <2>1. i \in 0..o BY <1>1, <1>2
  <2> QED BY <1>1, <2>1, MuxMore, Zenon
<1>3. ASSUME ~(i <= o) PROVE i = o + 1 /\ items[i].k = "mux" /\ ~mo
  <2>1. i = o + 1 /\ items[i].k = "mux" BY <1>1, <1>3
  <2>2. o < Len(items) BY <1>1, <2>1
  <2>3. ~MuxBy(items, o) BY <1>1, <2>1, <2>2, MuxMore, Zenon
  <2> QED BY <1>1, <2>1, <2>3, Zenon
<1>4. o \in Nat /\ i \in Nat /\ o <= Len(items) /\ i <= Len(items) BY <1>1
<1> QED BY <1>1, <1>2, <1>3, <1>4, Zenon DEF Stands

\* An item is written.
LEMMA DirectionWrite ==
    ASSUME NEW items, Script(items), NEW fr \in BOOLEAN, NEW o, NEW i, NEW P, NEW p, NEW g,
           NEW mi \in BOOLEAN, NEW mo \in BOOLEAN, Direction(items, fr, o, i, P, p, g, mi, mo, FALSE),
           o < Len(items), items[o + 1].k # "mux"
    PROVE  Direction(items, fr, o + 1, i, P \o Sent(Written(items[o + 1], LastAt(items, o)), mo),
                     p, g, mi, mo, FALSE)
<1>1. /\ Standing(items, fr, o, i, mi, mo)
      /\ P \in Seq(Byte) /\ g \in Seq(Byte) /\ p \in Nat /\ (~mi => p = 0)
  BY Zenon DEF Direction
<1>2. PICK S, pos : /\ Laid(items, Len(items), S, pos)
                    /\ \E R, a \in Nat : \E F \in Seq(Byte) :
                         Flow(items, S, pos, R, a, F, o, i, P, p, g, mi, mo, FALSE)
  BY Zenon DEF Direction
<1>3. PICK R \in Nat, a \in Nat, F \in Seq(Byte) :
             Flow(items, S, pos, R, a, F, o, i, P, p, g, mi, mo, FALSE)
  BY <1>2
<1> DEFINE N == Len(items)
<1>4. N \in Nat BY DEF Script
<1>5. /\ o \in Nat /\ i \in Nat /\ o <= N /\ i <= N /\ o \in 0..N /\ i \in 0..N
      /\ i <= o => (mi => mo)
      /\ ~(i <= o) => i = o + 1 /\ items[i].k = "mux" /\ ~mo
  <2>1. Stands(items, o, i, mi, mo) BY <1>1, FlowFacts, Zenon
  <2> QED BY <2>1, Zenon DEF Stands
<1>6. i <= o BY <1>5
<1>7. o < N /\ o + 1 \in 1..N /\ o + 1 \in 0..N /\ (o + 1) - 1 = o BY <1>4, <1>5
<1>8. PICK c : c = Written(items[o + 1], LastAt(items, o)) OBVIOUS
<1>9. Calls(c) /\ Enc(items, o + 1) = Sent(c, FALSE)
  BY <1>4, <1>7, <1>8, EncDecodes, Zenon DEF Enc
<1>10. /\ S \in Seq(Byte)
       /\ \A k \in 0..N : pos[k] \in Nat /\ pos[k] <= Len(S)
       /\ pos[o] <= pos[o + 1] /\ Part(S, pos[o], pos[o + 1]) = Enc(items, o + 1)
       /\ \A j, k \in 0..N : j <= k => pos[j] <= pos[k]
  <2>1. /\ S \in Seq(Byte)
        /\ \A k \in 0..N : pos[k] \in Nat /\ pos[k] <= Len(S)
        /\ \A k \in 1..N : pos[k - 1] <= pos[k] /\ Part(S, pos[k - 1], pos[k]) = Enc(items, k)
        /\ \A j, k \in 0..N : j <= k => pos[j] <= pos[k]
    <3>1. Placed(items, S, pos) BY <1>2, LaidFacts, Zenon
    <3> QED BY <3>1, Zenon DEF Placed
  <2> QED BY <1>7, <2>1, Zenon
<1>11. PICK b \in Nat, q \in Nat : b = pos[o] /\ q = pos[o + 1] BY <1>5, <1>7, <1>10, Zenon
<1>12. b <= q /\ q <= Len(S) /\ Part(S, b, q) = Sent(c, FALSE)
  BY <1>7, <1>9, <1>10, <1>11, Zenon
<1>13. /\ pos[i] <= R /\ R + a <= b
       /\ i < o => R <= pos[i + 1]
       /\ i >= o => R = pos[i]
       /\ g = Part(S, pos[i], R)
       /\ Framed(F, Part(S, R + a, b))
       /\ Ahead(P, S, R, a, F, FALSE)
       /\ mi => a = p
       /\ ~mo => F = <<>> /\ R + a = b
       /\ mo /\ ~mi => \E k \in (i + 1)..o : items[k].k = "mux" /\ pos[k] = R + a
  BY <1>3, <1>11, Zenon DEF Flow
<1>14. Standing(items, fr, o + 1, i, mi, mo)
  <2>1. i <= o + 1 BY <1>5, <1>6
  <2>2. MuxBy(items, o + 1) <=> MuxBy(items, o) BY <1>4, <1>5, <1>7, MuxMore, Zenon
  <2> QED BY <1>1, <1>4, <1>7, <2>1, <2>2, Zenon DEF Standing
<1>15. (i < o + 1 => R <= pos[i + 1]) /\ (i >= o + 1 => R = pos[i])
  <2>1. CASE i < o
    <3>1. ~(i >= o + 1) BY <1>5, <2>1
    <3> QED BY <1>13, <2>1, <3>1, Zenon
  <2>2. CASE ~(i < o)
    <3>1. i = o /\ ~(i >= o + 1) BY <1>5, <1>6, <2>2
    <3>2. R = b BY <1>5, <1>11, <1>13, <3>1
    <3> QED BY <1>11, <1>12, <3>1, <3>2
  <2> QED BY <2>1, <2>2
<1>16. \A k \in (i + 1)..o : k \in (i + 1)..(o + 1) BY <1>5
<1>17. PICK A : A = Sent(c, mo) OBVIOUS
<1>18. CASE mo
  <2>1. A = Sent(c, TRUE) BY <1>17, <1>18
  <2>2. /\ A \in Seq(Byte) /\ Framed(F \o A, Part(S, R + a, b) \o Sent(c, FALSE))
    BY <1>9, <1>13, <2>1, SentFramed, Zenon
  <2>3. Part(S, R + a, b) \o Sent(c, FALSE) = Part(S, R + a, q)
    <3>1. R + a \in Nat OBVIOUS
    <3>2. S \in Seq(Byte) /\ R + a <= b /\ b <= q /\ q <= Len(S) BY <1>10, <1>12, <1>13, Zenon
    <3>3. Part(S, R + a, b) \o Part(S, b, q) = Part(S, R + a, q)
      <4>1. Adjoining(S, R + a, b, q) BY <3>1, <3>2, PartJoin, Zenon
      <4> QED BY <4>1, Zenon DEF Adjoining
    <3> QED BY <1>12, <3>3, Zenon
  <2>4. Ahead(P \o A, S, R, a, F \o A, FALSE) BY <1>1, <1>13, <2>2, AheadFrames, Zenon
  <2>5. F \o A \in Seq(Byte) /\ P \o A \in Seq(Byte) BY <1>1, <2>2, JoinTyped, Zenon
  <2>6. R + a <= q BY <1>12, <1>13
  <2>7. Flow(items, S, pos, R, a, F \o A, o + 1, i, P \o A, p, g, mi, mo, FALSE)
    BY <1>11, <1>13, <1>15, <1>16, <1>18, <2>2, <2>3, <2>4, <2>6, Zenon DEF Flow
  <2>8. Direction(items, fr, o + 1, i, P \o A, p, g, mi, mo, FALSE)
    BY <1>1, <1>2, <1>14, <2>5, <2>7, Zenon DEF Direction
  <2> QED BY <1>8, <1>17, <2>8, Zenon
<1>19. CASE ~mo
  <2>1. A = Sent(c, FALSE) BY <1>17, <1>19
  <2>2. PICK a2 \in Nat : a2 = q - R /\ a <= a2 /\ R + a2 = q BY <1>12, <1>13, <1>19
  <2>3. R + a = b /\ F = <<>> /\ ~mi BY <1>5, <1>6, <1>13, <1>19
  <2>4. A = Part(S, R + a, R + a2) /\ R + a2 <= Len(S) BY <1>12, <2>1, <2>2, <2>3
  <2>5. Ahead(P, S, R, a, <<>>, FALSE) BY <1>13, <2>3, Zenon
  <2>6. Ahead(P \o A, S, R, a2, F, FALSE) BY <1>1, <1>10, <2>2, <2>3, <2>4, <2>5, AheadPlain, Zenon
  <2>7. A \in Seq(Byte) BY <1>9, <2>1, SentFramed, FramedEmpty, Zenon
  <2>8. P \o A \in Seq(Byte) BY <1>1, <2>7, JoinTyped, Zenon
  <2>9. Framed(F, Part(S, R + a2, q))
    <3>1. Part(S, q, q) = <<>> BY <1>10, <1>12 DEF Part
    <3> QED BY <2>2, <2>3, <3>1, FramedEmpty, Zenon
  <2>10. R + a2 <= q BY <2>2
  <2>11. Flow(items, S, pos, R, a2, F, o + 1, i, P \o A, p, g, mi, mo, FALSE)
    BY <1>11, <1>13, <1>15, <1>19, <2>2, <2>3, <2>6, <2>9, <2>10, Zenon DEF Flow
  <2>12. Direction(items, fr, o + 1, i, P \o A, p, g, mi, mo, FALSE)
    BY <1>1, <1>2, <1>14, <2>8, <2>11, Zenon DEF Direction
  <2> QED BY <1>8, <1>17, <2>12, Zenon
<1> QED BY <1>18, <1>19

\* What a direction stands for: its bytes and their places.
Opened(items, S, pos, R, a, F, o, i, P, p, g, mi, mo, ct) ==
    /\ Laid(items, Len(items), S, pos) /\ Placed(items, S, pos)
    /\ R \in Nat /\ a \in Nat /\ F \in Seq(Byte)
    /\ Flow(items, S, pos, R, a, F, o, i, P, p, g, mi, mo, ct)

Opens(items, o, i, P, p, g, mi, mo, ct) ==
    \E S, pos, R, a, F : Opened(items, S, pos, R, a, F, o, i, P, p, g, mi, mo, ct)

\* A direction stands for bytes with their places.
LEMMA DirectionOpens ==
    ASSUME NEW items, Script(items), NEW fr \in BOOLEAN, NEW o, NEW i, NEW P, NEW p, NEW g,
           NEW mi \in BOOLEAN, NEW mo \in BOOLEAN, NEW ct,
           Direction(items, fr, o, i, P, p, g, mi, mo, ct)
    PROVE  Stands(items, o, i, mi, mo) /\ Opens(items, o, i, P, p, g, mi, mo, ct)
<1>1. Standing(items, fr, o, i, mi, mo) BY Zenon DEF Direction
<1>2. Stands(items, o, i, mi, mo) BY <1>1, FlowFacts, Zenon
<1>3. PICK S, pos : /\ Laid(items, Len(items), S, pos)
                    /\ \E R, a \in Nat : \E F \in Seq(Byte) :
                         Flow(items, S, pos, R, a, F, o, i, P, p, g, mi, mo, ct)
  BY Zenon DEF Direction
<1>4. Placed(items, S, pos) BY <1>3, LaidFacts, Zenon
<1> QED BY <1>2, <1>3, <1>4, Zenon DEF Opens, Opened

\* The writer switches to frames.
LEMMA DirectionEnableOut ==
    ASSUME NEW items, Script(items), NEW fr \in BOOLEAN, NEW o, NEW i, NEW P, NEW p, NEW g,
           NEW mi \in BOOLEAN, NEW mo \in BOOLEAN, Direction(items, fr, o, i, P, p, g, mi, mo, FALSE),
           o < Len(items), items[o + 1].k = "mux"
    PROVE  Direction(items, fr, o + 1, i, P, p, g, mi, fr, FALSE)
<1> DEFINE N == Len(items)
<1>1. /\ Standing(items, fr, o, i, mi, mo)
      /\ P \in Seq(Byte) /\ g \in Seq(Byte) /\ p \in Nat /\ (~mi => p = 0)
  BY Zenon DEF Direction
<1>0. Stands(items, o, i, mi, mo) /\ Opens(items, o, i, P, p, g, mi, mo, FALSE) BY DirectionOpens, ZenonT(60)
<1>2. PICK S, pos, R, a, F : Opened(items, S, pos, R, a, F, o, i, P, p, g, mi, mo, FALSE)
  BY <1>0, Zenon DEF Opens
<1>3. /\ N \in Nat /\ o \in Nat /\ i \in Nat /\ o <= N /\ i <= N /\ o \in 0..N /\ i \in 0..N
      /\ ~(i <= o) => i = o + 1
  BY <1>0, Zenon DEF Stands
<1>4. o + 1 \in 1..N /\ o + 1 \in 0..N /\ (o + 1) - 1 = o BY <1>3
<1>5. ~MuxBy(items, o) /\ MuxBy(items, o + 1) BY <1>3, MuxMore, Zenon
<1>6. ~mo BY <1>1, <1>5, Zenon DEF Standing
<1>7. pos[o] \in Nat /\ pos[o + 1] = pos[o]
  <2>1. /\ \A k \in 0..N : pos[k] \in Nat /\ pos[k] <= Len(S)
        /\ \A k \in 1..N : items[k].k = "mux" => pos[k] = pos[k - 1]
    BY <1>2, Zenon DEF Opened, Placed
  <2> QED BY <1>3, <1>4, <2>1, Zenon
<1>8. PICK b \in Nat : b = pos[o] BY <1>7
<1>9. /\ R \in Nat /\ a \in Nat /\ F \in Seq(Byte)
      /\ pos[i] <= R /\ R + a <= b
      /\ i < o => R <= pos[i + 1]
      /\ i >= o => R = pos[i]
      /\ g = Part(S, pos[i], R)
      /\ Framed(F, Part(S, R + a, b))
      /\ Ahead(P, S, R, a, F, FALSE)
      /\ mi => a = p
      /\ F = <<>> /\ R + a = b
  BY <1>2, <1>6, <1>8, Zenon DEF Opened, Flow
<1>10. i <= o + 1 BY <1>3
<1>11. Standing(items, fr, o + 1, i, mi, fr)
  BY <1>1, <1>3, <1>4, <1>5, <1>10, Zenon DEF Standing
<1>12. (i < o + 1 => R <= pos[i + 1]) /\ (i >= o + 1 => R = pos[i])
  <2>1. CASE i < o
    <3>1. ~(i >= o + 1) BY <1>3, <2>1
    <3> QED BY <1>9, <2>1, <3>1, Zenon
  <2>2. CASE i = o
    <3>1. ~(i >= o + 1) /\ R = b BY <1>3, <1>8, <1>9, <2>2
    <3> QED BY <1>7, <1>8, <2>2, <3>1
  <2>3. CASE i = o + 1
    <3>1. i >= o /\ ~(i < o + 1) BY <1>3, <2>3
    <3> QED BY <1>9, <3>1, Zenon
  <2> QED BY <1>3, <2>1, <2>2, <2>3
<1>13. fr /\ ~mi => \E k \in (i + 1)..(o + 1) : items[k].k = "mux" /\ pos[k] = R + a
  <2> SUFFICES ASSUME fr, ~mi PROVE o + 1 \in (i + 1)..(o + 1) /\ pos[o + 1] = R + a
    OBVIOUS
  <2>1. i # o + 1 BY <1>1, <1>5, Zenon DEF Standing
  <2> QED BY <1>3, <1>7, <1>8, <1>9, <2>1
<1>14. Flow(items, S, pos, R, a, F, o + 1, i, P, p, g, mi, fr, FALSE)
  BY <1>7, <1>8, <1>9, <1>12, <1>13, Zenon DEF Flow
<1> QED BY <1>1, <1>2, <1>9, <1>11, <1>14, Zenon DEF Direction, Opened

\* A message goes between the frames of data.
LEMMA DirectionMessage ==
    ASSUME NEW items, Script(items), NEW fr \in BOOLEAN, NEW o, NEW i, NEW P, NEW p, NEW g,
           NEW mi \in BOOLEAN, NEW mo \in BOOLEAN, Direction(items, fr, o, i, P, p, g, mi, mo, FALSE),
           mo, NEW code \in MsgCodes, NEW t, Fits(t), code = Data => t = <<>>
    PROVE  Direction(items, fr, o, i, (P \o Header(code, Len(t))) \o t, p, g, mi, mo, FALSE)
<1>1. /\ Standing(items, fr, o, i, mi, mo)
      /\ P \in Seq(Byte) /\ g \in Seq(Byte) /\ p \in Nat /\ (~mi => p = 0)
  BY Zenon DEF Direction
<1>0. Stands(items, o, i, mi, mo) /\ Opens(items, o, i, P, p, g, mi, mo, FALSE) BY DirectionOpens, Zenon
<1>2. PICK S, pos, R, a, F : Opened(items, S, pos, R, a, F, o, i, P, p, g, mi, mo, FALSE)
  BY <1>0, Zenon DEF Opens
<1>3. R \in Nat /\ a \in Nat /\ F \in Seq(Byte) BY <1>2, Zenon DEF Opened
<1>4. Frame(code, t) \in Seq(Byte) BY FrameIs, Zenon
<1>5. (P \o Header(code, Len(t))) \o t = P \o Frame(code, t)
  <2>1. Header(code, Len(t)) \in Seq(Byte) BY HeaderIs, Zenon
  <2>2. Regroups(P, Header(code, Len(t)), t) BY <1>1, <2>1, Assoc, Zenon DEF Fits
  <2> QED BY <2>2, Zenon DEF Regroups, Frame
<1>6. PICK B : B = Part(S, R + a, pos[o]) OBVIOUS
<1>7. Framed(F, B) /\ Ahead(P, S, R, a, F, FALSE) BY <1>2, <1>6, Zenon DEF Opened, Flow
<1>8. Framed(F \o Frame(code, t), B)
  <2>1. CASE code = Data
    <3>1. Framed(F \o Frame(Data, t), B \o t) BY <1>7, FramedMore, Zenon
    <3>2. B \in Seq(Byte) BY <1>7, FramedTyped, Zenon
    <3>3. B \o t = B BY <2>1, <3>2, EmptyJoin, Zenon
    <3> QED BY <2>1, <3>1, <3>3, Zenon
  <2>2. CASE code # Data BY <1>7, <2>2, FramedMore, Zenon
  <2> QED BY <2>1, <2>2
<1>9. Ahead(P \o Frame(code, t), S, R, a, F \o Frame(code, t), FALSE)
  BY <1>1, <1>3, <1>4, <1>7, AheadFrames, Zenon
<1>10. F \o Frame(code, t) \in Seq(Byte) /\ P \o Frame(code, t) \in Seq(Byte)
  BY <1>1, <1>3, <1>4, JoinTyped, Zenon
<1>11. Flow(items, S, pos, R, a, F \o Frame(code, t), o, i, P \o Frame(code, t), p, g, mi, mo, FALSE)
  BY <1>2, <1>6, <1>8, <1>9, Zenon DEF Opened, Flow
<1> QED BY <1>1, <1>2, <1>3, <1>5, <1>10, <1>11, Zenon DEF Direction, Opened

\* The reader starts to count frames.
LEMMA DirectionEnableIn ==
    ASSUME NEW items, Script(items), NEW fr \in BOOLEAN, NEW o, NEW i, NEW P, NEW p, NEW g,
           NEW mi \in BOOLEAN, NEW mo \in BOOLEAN, NEW ct, Direction(items, fr, o, i, P, p, g, mi, mo, ct),
           i < Len(items), items[i + 1].k = "mux"
    PROVE  Direction(items, fr, o, i + 1, P, p, g, fr, mo, ct)
<1> DEFINE N == Len(items)
<1>1. /\ Standing(items, fr, o, i, mi, mo)
      /\ P \in Seq(Byte) /\ g \in Seq(Byte) /\ p \in Nat /\ (~mi => p = 0)
  BY Zenon DEF Direction
<1>0. Stands(items, o, i, mi, mo) /\ Opens(items, o, i, P, p, g, mi, mo, ct) BY DirectionOpens, Zenon
<1>2. PICK S, pos, R, a, F : Opened(items, S, pos, R, a, F, o, i, P, p, g, mi, mo, ct)
  BY <1>0, Zenon DEF Opens
<1>3. /\ N \in Nat /\ o \in Nat /\ i \in Nat /\ o <= N /\ i <= N /\ o \in 0..N /\ i \in 0..N
      /\ ~(i <= o) => i = o + 1 /\ items[i].k = "mux"
  BY <1>0, Zenon DEF Stands
<1>4. i + 1 \in 1..N /\ i + 1 \in 0..N /\ (i + 1) - 1 = i BY <1>3
<1>5. ~MuxBy(items, i) /\ MuxBy(items, i + 1) BY <1>3, MuxMore, Zenon
<1>6. ~mi /\ p = 0 BY <1>1, <1>5, Zenon DEF Standing
<1>7. i <= o
  <2> SUFFICES ASSUME ~(i <= o) PROVE FALSE OBVIOUS
  <2>1. i \in 1..i /\ items[i].k = "mux" BY <1>3
  <2> QED BY <1>5, <2>1, Zenon DEF MuxBy
<1>8. /\ \A k \in 0..N : pos[k] \in Nat
      /\ pos[i + 1] = pos[i]
      /\ \A j, k \in 0..N : j <= k => pos[j] <= pos[k]
  <2>1. /\ \A k \in 0..N : pos[k] \in Nat /\ pos[k] <= Len(S)
        /\ \A k \in 1..N : items[k].k = "mux" => pos[k] = pos[k - 1]
        /\ \A j, k \in 0..N : j <= k => pos[j] <= pos[k]
    BY <1>2, Zenon DEF Opened, Placed
  <2> QED BY <1>3, <1>4, <2>1, Zenon
<1>9. PICK u \in Nat, b \in Nat : u = pos[i] /\ u = pos[i + 1] /\ b = pos[o] BY <1>3, <1>8
<1>10. /\ R \in Nat /\ a \in Nat /\ F \in Seq(Byte)
       /\ u <= R /\ R + a <= b
       /\ i < o => R <= u
       /\ i >= o => R = u
       /\ g = Part(S, u, R)
       /\ Framed(F, Part(S, R + a, b))
       /\ Ahead(P, S, R, a, F, ct)
       /\ ~mo => F = <<>> /\ R + a = b
       /\ mo => \E k \in (i + 1)..o : items[k].k = "mux" /\ pos[k] = R + a
  BY <1>2, <1>6, <1>9, Zenon DEF Opened, Flow
<1>11. R = u BY <1>3, <1>10
<1>12. Standing(items, fr, o, i + 1, fr, mo)
  <2>1. i + 1 <= o \/ i + 1 = o + 1 BY <1>3, <1>7
  <2> QED BY <1>1, <1>3, <1>4, <1>5, <2>1, Zenon DEF Standing
<1>13. (i + 1 < o => R <= pos[(i + 1) + 1]) /\ R = pos[i + 1]
  <2>1. ASSUME i + 1 < o PROVE R <= pos[(i + 1) + 1]
    <3>1. (i + 1) + 1 \in 0..N /\ i + 1 <= (i + 1) + 1 BY <1>3, <2>1
    <3>2. pos[i + 1] <= pos[(i + 1) + 1] BY <1>4, <1>8, <3>1, Zenon
    <3> QED BY <1>9, <1>11, <3>2, Zenon
  <2> QED BY <1>9, <1>11, <2>1
<1>14. fr => a = p
  <2> SUFFICES ASSUME fr PROVE a = 0 BY <1>6
  <2>1. CASE mo
    <3>1. PICK k \in (i + 1)..o : items[k].k = "mux" /\ pos[k] = R + a BY <1>10, <2>1
    <3>2. k \in 1..N BY <1>3, <3>1
    <3>3. k = i + 1 BY <1>4, <3>1, <3>2, OneMux, Zenon
    <3> QED BY <1>9, <1>10, <1>11, <3>1, <3>3
  <2>2. CASE ~mo
    <3>1. ~(i < o)
      <4> SUFFICES ASSUME i < o PROVE FALSE OBVIOUS
      <4>1. i + 1 \in 0..o BY <1>3
      <4>2. MuxBy(items, o) BY <1>3, <1>5, <4>1, MuxMore, Zenon
      <4> QED BY <1>1, <2>2, <4>2, Zenon DEF Standing
    <3>2. i = o BY <1>3, <1>7, <3>1
    <3>3. R + a = b /\ R \in Nat /\ a \in Nat BY <1>10, <2>2
    <3>4. u = b BY <1>9, <3>2
    <3> QED BY <1>11, <3>3, <3>4
  <2> QED BY <2>1, <2>2
<1>15. mo => fr BY <1>1, Zenon DEF Standing
<1>16. u <= R /\ (i + 1 >= o => R = pos[i + 1]) BY <1>10, <1>13
<1>17. Flow(items, S, pos, R, a, F, o, i + 1, P, p, g, fr, mo, ct)
  BY <1>9, <1>10, <1>13, <1>14, <1>15, <1>16, Zenon DEF Flow
<1> QED BY <1>1, <1>2, <1>6, <1>10, <1>12, <1>17, Zenon DEF Direction, Opened

\* The connection breaks.
LEMMA DirectionCut ==
    ASSUME NEW items, Script(items), NEW fr \in BOOLEAN, NEW o, NEW i, NEW P, NEW p, NEW g,
           NEW mi \in BOOLEAN, NEW mo \in BOOLEAN, Direction(items, fr, o, i, P, p, g, mi, mo, FALSE),
           NEW c \in 0..Len(P)
    PROVE  Direction(items, fr, o, i, SubSeq(P, 1, c), p, g, mi, mo, TRUE)
<1>1. /\ Standing(items, fr, o, i, mi, mo)
      /\ P \in Seq(Byte) /\ g \in Seq(Byte) /\ p \in Nat /\ (~mi => p = 0)
  BY Zenon DEF Direction
<1>0. Stands(items, o, i, mi, mo) /\ Opens(items, o, i, P, p, g, mi, mo, FALSE) BY DirectionOpens, Zenon
<1>2. PICK S, pos, R, a, F : Opened(items, S, pos, R, a, F, o, i, P, p, g, mi, mo, FALSE)
  BY <1>0, Zenon DEF Opens
<1>3. R \in Nat /\ a \in Nat /\ F \in Seq(Byte) /\ Ahead(P, S, R, a, F, FALSE)
  BY <1>2, Zenon DEF Opened, Flow
<1>4. SubSeq(P, 1, c) \in Seq(Byte) /\ Ahead(SubSeq(P, 1, c), S, R, a, F, TRUE)
  BY <1>1, <1>3, AheadCut, Zenon
<1>5. Flow(items, S, pos, R, a, F, o, i, SubSeq(P, 1, c), p, g, mi, mo, TRUE)
  BY <1>2, <1>4, Zenon DEF Opened, Flow
<1> QED BY <1>1, <1>2, <1>3, <1>4, <1>5, Zenon DEF Direction, Opened

\* A header is read when nothing is pending.
LEMMA DirectionHeader ==
    ASSUME NEW items, Script(items), NEW fr \in BOOLEAN, NEW o, NEW i, NEW P, NEW p, NEW g,
           NEW mi \in BOOLEAN, NEW mo \in BOOLEAN, NEW ct, Direction(items, fr, o, i, P, p, g, mi, mo, ct),
           mi, p = 0, Len(P) >= 4
    PROVE  /\ HeaderLen(P) \in Nat
           /\ HeaderCode(P) = Data =>
                Direction(items, fr, o, i, Drop(P, 4), HeaderLen(P), g, mi, mo, ct)
           /\ HeaderCode(P) # Data /\ Len(P) >= 4 + HeaderLen(P) =>
                Direction(items, fr, o, i, Drop(P, 4 + HeaderLen(P)), p, g, mi, mo, ct)
<1>1. /\ Standing(items, fr, o, i, mi, mo)
      /\ P \in Seq(Byte) /\ g \in Seq(Byte) /\ p \in Nat /\ (~mi => p = 0)
  BY Zenon DEF Direction
<1>0. Stands(items, o, i, mi, mo) /\ Opens(items, o, i, P, p, g, mi, mo, ct) BY DirectionOpens, Zenon
<1>2. PICK S, pos, R, a, F : Opened(items, S, pos, R, a, F, o, i, P, p, g, mi, mo, ct)
  BY <1>0, Zenon DEF Opens
<1>3. S \in Seq(Byte) /\ pos[o] \in Nat /\ pos[o] <= Len(S)
  BY <1>0, <1>2, Zenon DEF Stands, Opened, Placed
<1>4. PICK b \in Nat : b = pos[o] /\ b <= Len(S) BY <1>3
<1>5. /\ R \in Nat /\ a \in Nat /\ F \in Seq(Byte)
      /\ R + a <= b
      /\ Framed(F, Part(S, R + a, b))
      /\ Ahead(P, S, R, a, F, ct)
      /\ a = p
      /\ ~mo => F = <<>>
  BY <1>2, <1>4, Zenon DEF Opened, Flow
<1>6. a = 0 /\ R + a = R /\ R <= b BY <1>5
<1>7. PICK B : B = Part(S, R, b) OBVIOUS
<1>8. Framed(F, B) /\ Ahead(P, S, R, 0, F, ct) BY <1>5, <1>6, <1>7, Zenon
<1>9. F # <<>>
  <2> SUFFICES ASSUME F = <<>> PROVE FALSE OBVIOUS
  <2>1. Len(P) <= 0 + Len(F) BY <1>8, Zenon DEF Ahead
  <2>2. Len(F) = 0 OBVIOUS
  <2> QED BY <1>1, <2>1, <2>2
<1>10. PICK code, t, F2, B2 : FirstFrame(F, B, code, t, F2, B2)
  BY <1>8, <1>9, FramedFirst, Zenon DEF HasFirst
<1>11. /\ code \in MsgCodes /\ Fits(t) /\ Framed(F2, B2)
       /\ F = Frame(code, t) \o F2
       /\ B = IF code = Data THEN t \o B2 ELSE B2
  BY <1>10, Zenon DEF FirstFrame
<1>12. PICK h : h = Header(code, Len(t)) OBVIOUS
<1>13. /\ h \in Seq(Byte) /\ Len(h) = 4
       /\ \A x : (\A j \in 1..4 : x[j] = h[j]) => HeaderCode(x) = code /\ HeaderLen(x) = Len(t)
  BY <1>11, <1>12, HeaderIs, Zenon
<1>14. t \in Seq(Byte) /\ F2 \in Seq(Byte) /\ B2 \in Seq(Byte)
  BY <1>11, FramedTyped, Zenon DEF Fits
<1>15. F = (h \o t) \o F2 BY <1>11, <1>12, Zenon DEF Frame
<1>16. HeaderCode(P) = code /\ HeaderLen(P) = Len(t)
  <2>1. Regroups(h, t, F2) BY <1>13, <1>14, Assoc, Zenon
  <2>2. Ahead(P, S, R, 0, h \o (t \o F2), ct) BY <1>8, <1>15, <2>1, Zenon DEF Regroups
  <2>3. t \o F2 \in Seq(Byte) BY <1>14, JoinTyped, Zenon
  <2>4. Len(h) <= Len(P) BY <1>1, <1>13
  <2>5. Begins(P, h) BY <1>1, <1>3, <1>5, <1>13, <2>2, <2>3, <2>4, AheadMessage, Zenon
  <2> QED BY <1>13, <2>5, Zenon DEF Begins
<1>17. mo BY <1>5, <1>9
<1>18. Len(t) \in Nat BY <1>14
<1>19. ASSUME code = Data
       PROVE  Direction(items, fr, o, i, Drop(P, 4), Len(t), g, mi, mo, ct)
  <2>1. Part(S, R, b) = t \o B2 BY <1>7, <1>11, <1>19, Zenon
  <2>2. R + Len(t) <= b /\ Part(S, R + Len(t), b) = B2 /\ Follows(S, R, t)
    <3>1. Splits(S, R, b, t, B2) BY <1>3, <1>4, <1>5, <1>6, <1>14, <2>1, PartSplit, Zenon
    <3> QED BY <3>1, Zenon DEF Splits
  <2>3. Len(h) <= Len(P) BY <1>1, <1>13
  <2>4. Ahead(P, S, R, 0, (h \o t) \o F2, ct) BY <1>8, <1>15, Zenon
  <2>5. /\ Drop(P, Len(h)) \in Seq(Byte)
        /\ Ahead(Drop(P, Len(h)), S, R, Len(t), F2, ct)
    BY <1>1, <1>3, <1>5, <1>13, <1>14, <2>2, <2>3, <2>4, AheadHeader, Zenon
  <2>6. Drop(P, 4) \in Seq(Byte) /\ Ahead(Drop(P, 4), S, R, Len(t), F2, ct)
    BY <1>13, <2>5, Zenon
  <2>7. Flow(items, S, pos, R, Len(t), F2, o, i, Drop(P, 4), Len(t), g, mi, mo, ct)
    BY <1>2, <1>4, <1>11, <1>17, <2>2, <2>6, Zenon DEF Opened, Flow
  <2> QED BY <1>1, <1>2, <1>5, <1>14, <1>18, <2>6, <2>7, Zenon DEF Direction, Opened
<1>20. ASSUME code # Data, Len(P) >= 4 + Len(t)
       PROVE  Direction(items, fr, o, i, Drop(P, 4 + Len(t)), p, g, mi, mo, ct)
  <2>1. B2 = B BY <1>11, <1>20, Zenon
  <2>2. h \o t \in Seq(Byte) /\ Len(h \o t) = 4 + Len(t)
    <3>1. h \o t \in Seq(Byte) /\ Len(h \o t) = Len(h) + Len(t) BY <1>13, <1>14, JoinTyped, Zenon
    <3> QED BY <1>13, <3>1, Zenon
  <2>3. Len(h \o t) <= Len(P) BY <1>1, <1>18, <1>20, <2>2
  <2>4. Ahead(P, S, R, 0, (h \o t) \o F2, ct) BY <1>8, <1>15, Zenon
  <2>5. /\ Drop(P, Len(h \o t)) \in Seq(Byte)
        /\ Ahead(Drop(P, Len(h \o t)), S, R, 0, F2, ct)
    BY <1>1, <1>3, <1>5, <1>14, <2>2, <2>3, <2>4, AheadMessage, Zenon
  <2>6. Drop(P, 4 + Len(t)) \in Seq(Byte) /\ Ahead(Drop(P, 4 + Len(t)), S, R, a, F2, ct)
    BY <1>6, <2>2, <2>5, Zenon
  <2>7. Framed(F2, Part(S, R + a, b)) BY <1>6, <1>7, <1>11, <2>1, Zenon
  <2>8. Flow(items, S, pos, R, a, F2, o, i, Drop(P, 4 + Len(t)), p, g, mi, mo, ct)
    BY <1>2, <1>4, <1>17, <2>6, <2>7, Zenon DEF Opened, Flow
  <2> QED BY <1>1, <1>2, <1>5, <1>14, <2>6, <2>8, Zenon DEF Direction, Opened
<1> QED BY <1>16, <1>18, <1>19, <1>20, Zenon

\* What the reader still asks for is there, or not yet written.
Asks(nd, i, o, R, next) ==
    /\ nd \in Nat /\ R + nd <= next
    /\ nd = 0 => i < o /\ R = next

\* Once nothing is asked for, what is there is the item.
Yields(item, pv, g) == Needed(item, g) = 0 => Value(item, pv, g) = item.v

\* In the middle of an item no more is asked for than is left of it; once nothing is, the
\* item is all there.
LEMMA DirectionNeeds ==
    ASSUME NEW items, Script(items), NEW o, NEW i, NEW P, NEW p, NEW g,
           NEW mi \in BOOLEAN, NEW mo \in BOOLEAN, NEW ct, Stands(items, o, i, mi, mo),
           NEW S, NEW pos, NEW R, NEW a, NEW F, Opened(items, S, pos, R, a, F, o, i, P, p, g, mi, mo, ct),
           i < Len(items), items[i + 1].k # "mux"
    PROVE  /\ Asks(Needed(items[i + 1], g), i, o, R, pos[i + 1])
           /\ Yields(items[i + 1], LastAt(items, i), g)
<1> DEFINE N == Len(items)
<1>1. N \in Nat /\ o \in Nat /\ i \in Nat /\ i \in 0..N BY Zenon DEF Stands
<1>2. i + 1 \in 1..N /\ i + 1 \in 0..N /\ (i + 1) - 1 = i BY <1>1
<1>3. PICK E : E = Enc(items, i + 1) OBVIOUS
<1>4. /\ S \in Seq(Byte) /\ pos[i] \in Nat /\ pos[i + 1] \in Nat /\ pos[i + 1] <= Len(S)
      /\ pos[i] <= pos[i + 1] /\ Part(S, pos[i], pos[i + 1]) = E
  <2>1. /\ S \in Seq(Byte)
        /\ \A k \in 0..N : pos[k] \in Nat /\ pos[k] <= Len(S)
        /\ \A k \in 1..N : pos[k - 1] <= pos[k] /\ Part(S, pos[k - 1], pos[k]) = Enc(items, k)
    BY Zenon DEF Opened, Placed
  <2> QED BY <1>1, <1>2, <1>3, <2>1, Zenon
<1>5. PICK u \in Nat, v \in Nat : u = pos[i] /\ v = pos[i + 1] BY <1>4
<1>6. u <= v /\ v <= Len(S) /\ Part(S, u, v) = E BY <1>4, <1>5, Zenon
<1>7. R \in Nat /\ u <= R /\ (i < o => R <= v) /\ (i >= o => R = u) /\ g = Part(S, u, R)
  BY <1>5, Zenon DEF Opened, Flow
<1>8. R <= v BY <1>1, <1>6, <1>7
<1>9. Decodes(items[i + 1], LastAt(items, i), E) BY <1>2, <1>3, EncDecodes, Zenon
<1>10. Len(E) = v - u
  <2>1. Adjoining(S, u, v, v) BY <1>4, <1>6, PartJoin
  <2> QED BY <1>6, <2>1, Zenon DEF Adjoining
<1>11. SubSeq(E, 1, R - u) = g
  <2>1. Adjoining(S, u, R, v) BY <1>4, <1>6, <1>7, <1>8, PartJoin, Zenon
  <2> QED BY <1>6, <1>7, <2>1, Zenon DEF Adjoining
<1>12. PICK nd : nd = Needed(items[i + 1], g) OBVIOUS
<1>13. CASE R < v
  <2>1. R - u \in 0..(Len(E) - 1) BY <1>7, <1>10, <1>13
  <2>2. nd \in 1..(Len(E) - (R - u)) BY <1>9, <1>11, <1>12, <2>1, Zenon DEF Decodes
  <2>3. nd \in Nat /\ R + nd <= v /\ nd # 0 BY <1>7, <1>10, <1>13, <2>2
  <2> QED BY <1>5, <1>12, <2>3, Zenon DEF Asks, Yields
<1>14. CASE ~(R < v)
  <2>1. R = v BY <1>7, <1>8, <1>14
  <2>2. g = E BY <1>6, <1>7, <2>1, Zenon
  <2>3. nd = 0 /\ E # <<>> /\ Value(items[i + 1], LastAt(items, i), g) = items[i + 1].v
    BY <1>9, <1>12, <2>2, Zenon DEF Decodes
  <2>4. i < o
    <3> SUFFICES ASSUME i >= o PROVE FALSE BY <1>1
    <3>1. Len(E) = 0 BY <1>7, <1>10, <2>1
    <3>2. E \in Seq(Byte) BY <1>9, Zenon DEF Decodes
    <3> QED BY <2>3, <3>1, <3>2
  <2>5. nd \in Nat /\ R + nd <= v BY <1>7, <2>1, <2>3
  <2> QED BY <1>5, <1>12, <2>1, <2>3, <2>4, <2>5, Zenon DEF Asks, Yields
<1> QED BY <1>13, <1>14

\* Some bytes of an item are read.
LEMMA DirectionRead ==
    ASSUME NEW items, Script(items), NEW fr \in BOOLEAN, NEW o, NEW i, NEW P, NEW p, NEW g,
           NEW mi \in BOOLEAN, NEW mo \in BOOLEAN, NEW ct, Direction(items, fr, o, i, P, p, g, mi, mo, ct),
           i < Len(items), items[i + 1].k # "mux",
           NEW n \in 1..Needed(items[i + 1], g), n <= Len(P), mi => n <= p
    PROVE  Direction(items, fr, o, i, Drop(P, n), IF mi THEN p - n ELSE p, g \o SubSeq(P, 1, n), mi, mo, ct)
<1> DEFINE N == Len(items)
<1>1. /\ Standing(items, fr, o, i, mi, mo)
      /\ P \in Seq(Byte) /\ g \in Seq(Byte) /\ p \in Nat /\ (~mi => p = 0)
  BY Zenon DEF Direction
<1>0. Stands(items, o, i, mi, mo) /\ Opens(items, o, i, P, p, g, mi, mo, ct) BY DirectionOpens, Zenon
<1>2. PICK S, pos, R, a, F : Opened(items, S, pos, R, a, F, o, i, P, p, g, mi, mo, ct)
  BY <1>0, Zenon DEF Opens
<1>3. /\ N \in Nat /\ o \in Nat /\ i \in Nat /\ o <= N /\ i <= N /\ o \in 0..N /\ i \in 0..N
      /\ ~(i <= o) => i = o + 1 /\ items[i].k = "mux" /\ ~mo
  BY <1>0, Zenon DEF Stands
<1>4. i + 1 \in 1..N /\ i + 1 \in 0..N /\ (i + 1) - 1 = i BY <1>3
<1>5. PICK nd : nd = Needed(items[i + 1], g) OBVIOUS
<1>6. Asks(nd, i, o, R, pos[i + 1]) BY <1>0, <1>2, <1>5, DirectionNeeds, Zenon
<1>7. n \in Nat /\ n >= 1 /\ n <= nd /\ nd \in Nat /\ R + nd <= pos[i + 1] BY <1>5, <1>6 DEF Asks
<1>8. /\ S \in Seq(Byte)
      /\ \A k \in 0..N : pos[k] \in Nat /\ pos[k] <= Len(S)
      /\ \A k \in 1..N : items[k].k = "mux" => pos[k] = pos[k - 1]
      /\ \A j, k \in 0..N : j <= k => pos[j] <= pos[k]
  BY <1>2, Zenon DEF Opened, Placed
<1>9. PICK u \in Nat, v \in Nat, b \in Nat : u = pos[i] /\ v = pos[i + 1] /\ b = pos[o]
  BY <1>3, <1>4, <1>8
<1>10. /\ R \in Nat /\ a \in Nat /\ F \in Seq(Byte)
       /\ u <= R /\ R + a <= b
       /\ i < o => R <= v
       /\ i >= o => R = u
       /\ g = Part(S, u, R)
       /\ Framed(F, Part(S, R + a, b))
       /\ Ahead(P, S, R, a, F, ct)
       /\ mi => a = p
       /\ ~mo => F = <<>> /\ R + a = b
       /\ mo /\ ~mi => \E k \in (i + 1)..o : items[k].k = "mux" /\ pos[k] = R + a
  BY <1>2, <1>9, Zenon DEF Opened, Flow
<1>11. F = <<>> => n <= a
  <2> SUFFICES ASSUME F = <<>> PROVE n <= a OBVIOUS
  <2>1. Len(P) <= a + Len(F) BY <1>10, Zenon DEF Ahead
  <2>2. Len(F) = 0 OBVIOUS
  <2> QED BY <1>1, <1>7, <1>10, <2>1, <2>2
<1>12. n <= a
  <2>1. CASE mi BY <1>10, <2>1
  <2>2. CASE ~mo BY <1>10, <1>11, <2>2
  <2>3. CASE mo /\ ~mi
    <3>1. PICK k \in (i + 1)..o : items[k].k = "mux" /\ pos[k] = R + a BY <1>10, <2>3
    <3>2. k # i + 1 BY <3>1
    <3>3. k \in 0..N /\ i + 1 <= k BY <1>3, <3>1
    <3>4. v <= R + a BY <1>4, <1>8, <1>9, <3>1, <3>3, Zenon
    <3>5. R \in Nat /\ a \in Nat BY <1>10
    <3> QED BY <1>7, <1>9, <3>4, <3>5
  <2> QED BY <2>1, <2>2, <2>3
<1>13. i < o
  <2> SUFFICES ASSUME ~(i < o) PROVE FALSE OBVIOUS
  <2>1. i >= o BY <1>3
  <2>2. u = b
    <3>1. CASE i = o BY <1>9, <3>1
    <3>2. CASE i # o
      <4>1. ~(i <= o) BY <1>3, <2>1, <3>2
      <4>2. i = o + 1 /\ items[i].k = "mux" BY <1>3, <4>1
      <4>3. i \in 1..N /\ i - 1 = o BY <1>3, <4>2
      <4> QED BY <1>8, <1>9, <4>2, <4>3, Zenon
    <3> QED BY <3>1, <3>2
  <2>3. R = u /\ R + a <= b /\ R \in Nat /\ a \in Nat BY <1>10, <2>1
  <2>4. a = 0 BY <2>2, <2>3
  <2> QED BY <1>7, <1>12, <2>4
<1>14. R + a <= Len(S)
  <2>1. b <= Len(S) BY <1>3, <1>8, <1>9, Zenon
  <2>2. Len(S) \in Nat BY <1>8
  <2> QED BY <1>10, <2>1, <2>2
<1>15. /\ SubSeq(P, 1, n) = Part(S, R, R + n)
       /\ Drop(P, n) \in Seq(Byte)
       /\ Ahead(Drop(P, n), S, R + n, a - n, F, ct)
  BY <1>1, <1>7, <1>8, <1>10, <1>12, <1>14, AheadRead, Zenon
<1>16. PICK R2 \in Nat, a2 \in Nat : R2 = R + n /\ a2 = a - n /\ R2 + a2 = R + a /\ u <= R2 /\ R <= R2
  BY <1>7, <1>10, <1>12
<1>17. R2 <= v /\ v <= Len(S)
  <2>1. v <= Len(S) BY <1>4, <1>8, <1>9, Zenon
  <2> QED BY <1>7, <1>9, <1>10, <1>16, <2>1
<1>18. g \o SubSeq(P, 1, n) = Part(S, u, R2) /\ Part(S, u, R2) \in Seq(Byte)
  <2>1. R2 <= Len(S) /\ u <= R
    <3>1. Len(S) \in Nat BY <1>8
    <3> QED BY <1>10, <1>16, <1>17, <3>1, SMTT(40)
  <2>2. Adjoining(S, u, R, R2) BY <1>8, <1>10, <1>16, <2>1, PartJoin, Zenon
  <2>3. Part(S, u, R2) \in Seq(Byte) BY <1>8, <1>16, <2>1, PartIs, Zenon
  <2> QED BY <1>10, <1>15, <1>16, <2>2, <2>3, Zenon DEF Adjoining
<1>19. PICK p2 \in Nat : p2 = (IF mi THEN p - n ELSE p) /\ (~mi => p2 = 0) /\ (mi => a2 = p2)
  <2>1. CASE mi BY <1>1, <1>7, <1>10, <1>16, <2>1
  <2>2. CASE ~mi BY <1>1, <2>2
  <2> QED BY <2>1, <2>2
<1>20. ~(i >= o) BY <1>3, <1>13
<1>21. Flow(items, S, pos, R2, a2, F, o, i, Drop(P, n), p2, g \o SubSeq(P, 1, n), mi, mo, ct)
  BY <1>9, <1>10, <1>15, <1>16, <1>17, <1>18, <1>19, <1>20, Zenon DEF Flow
<1>22. Direction(items, fr, o, i, Drop(P, n), p2, g \o SubSeq(P, 1, n), mi, mo, ct)
  BY <1>1, <1>2, <1>10, <1>15, <1>18, <1>19, <1>21, Zenon DEF Direction, Opened
<1> QED BY <1>19, <1>22, Zenon

\* An item is complete.
Finishes(items, fr, o, i, P, p, g, mi, mo, ct) ==
    /\ i < o /\ Value(items[i + 1], LastAt(items, i), g) = items[i + 1].v
    /\ Direction(items, fr, o, i + 1, P, p, <<>>, mi, mo, ct)

\* An item is read to its end: the peer has written it, and its value is the one written.
LEMMA DirectionFinish ==
    ASSUME NEW items, Script(items), NEW fr \in BOOLEAN, NEW o, NEW i, NEW P, NEW p, NEW g,
           NEW mi \in BOOLEAN, NEW mo \in BOOLEAN, NEW ct, Direction(items, fr, o, i, P, p, g, mi, mo, ct),
           i < Len(items), items[i + 1].k # "mux", Needed(items[i + 1], g) = 0
    PROVE  Finishes(items, fr, o, i, P, p, g, mi, mo, ct)
<1> DEFINE N == Len(items)
<1>1. /\ Standing(items, fr, o, i, mi, mo)
      /\ P \in Seq(Byte) /\ g \in Seq(Byte) /\ p \in Nat /\ (~mi => p = 0)
  BY Zenon DEF Direction
<1>0. Stands(items, o, i, mi, mo) /\ Opens(items, o, i, P, p, g, mi, mo, ct) BY DirectionOpens, Zenon
<1>2. PICK S, pos, R, a, F : Opened(items, S, pos, R, a, F, o, i, P, p, g, mi, mo, ct)
  BY <1>0, Zenon DEF Opens
<1>3. N \in Nat /\ o \in Nat /\ i \in Nat /\ o <= N /\ i <= N /\ o \in 0..N /\ i \in 0..N
  BY <1>0, Zenon DEF Stands
<1>4. i + 1 \in 1..N /\ i + 1 \in 0..N /\ (i + 1) - 1 = i BY <1>3
<1>5. i < o /\ R = pos[i + 1] /\ Value(items[i + 1], LastAt(items, i), g) = items[i + 1].v
  <2>1. /\ Asks(Needed(items[i + 1], g), i, o, R, pos[i + 1])
        /\ Yields(items[i + 1], LastAt(items, i), g)
    BY <1>0, <1>2, DirectionNeeds, Zenon
  <2> QED BY <2>1, Zenon DEF Asks, Yields
<1>6. /\ S \in Seq(Byte)
      /\ \A k \in 0..N : pos[k] \in Nat /\ pos[k] <= Len(S)
      /\ \A j, k \in 0..N : j <= k => pos[j] <= pos[k]
  BY <1>2, Zenon DEF Opened, Placed
<1>7. R \in Nat /\ R <= Len(S) BY <1>4, <1>5, <1>6, Zenon
<1>8. Part(S, pos[i + 1], R) = <<>>
  <2>1. Part(S, R, R) = <<>> BY <1>6, <1>7 DEF Part
  <2> QED BY <1>5, <2>1, Zenon
<1>9. Standing(items, fr, o, i + 1, mi, mo)
  <2>1. i + 1 <= o BY <1>3, <1>5
  <2>2. MuxBy(items, i + 1) <=> MuxBy(items, i) BY <1>3, MuxMore, Zenon
  <2> QED BY <1>1, <1>4, <2>1, <2>2, Zenon DEF Standing
<1>10. pos[i + 1] <= R BY <1>5, <1>7
<1>11. i + 1 < o => R <= pos[(i + 1) + 1]
  <2> SUFFICES ASSUME i + 1 < o PROVE R <= pos[(i + 1) + 1] OBVIOUS
  <2>1. (i + 1) + 1 \in 0..N /\ i + 1 <= (i + 1) + 1 BY <1>3
  <2> QED BY <1>4, <1>5, <1>6, <2>1, Zenon
<1>12. \A k \in (i + 1)..o : items[k].k = "mux" => k \in ((i + 1) + 1)..o
  <2>1. \A k \in (i + 1)..o : k = i + 1 \/ k \in ((i + 1) + 1)..o BY <1>3
  <2> QED BY <2>1
<1>13. Flow(items, S, pos, R, a, F, o, i + 1, P, p, <<>>, mi, mo, ct)
  BY <1>2, <1>5, <1>8, <1>10, <1>11, <1>12, Zenon DEF Opened, Flow
<1>14. <<>> \in Seq(Byte) OBVIOUS
<1>15. Direction(items, fr, o, i + 1, P, p, <<>>, mi, mo, ct)
  BY <1>1, <1>2, <1>9, <1>13, <1>14, Zenon DEF Direction, Opened
<1> QED BY <1>5, <1>15, Zenon DEF Finishes

-----------------------------------------------------------------------------
(* The two programs.                                                       *)

\* There are two ends.
LEMMA PeerFacts ==
    ASSUME NEW e \in Ends
    PROVE  /\ Peer(e) \in Ends /\ Peer(Peer(e)) = e /\ Peer(e) # e
           /\ \A x \in Ends : x = e \/ x = Peer(e)
           /\ \A x \in Ends : Peer(x) = e => x = Peer(e)
  BY DEF Ends, Peer

\* What is assumed of the scripts.
LEMMA ScriptsAre ==
    ASSUME NEW s \in Scripts
    PROVE  s.proto \in Nat /\ (s.proto >= 30) \in BOOLEAN /\ \A e \in Ends : Script(s[e])
<1>1. s.proto \in Nat BY WireAssumption
<1>2. \A e \in Ends : Script(s[e]) BY WireAssumption DEF Script
<1> QED BY <1>1, <1>2

\* What e writes and its peer reads.
Way(e) == Direction(script[e], script.proto >= 30, out[e], in[Peer(e)], pipe[e], pending[Peer(e)],
                    got[Peer(e)], muxin[Peer(e)], muxout[e], cut)

Typed ==
    /\ script \in Scripts /\ cut \in BOOLEAN
    /\ out \in [Ends -> Nat] /\ in \in [Ends -> Nat]
    /\ pipe \in [Ends -> Seq(Byte)] /\ got \in [Ends -> Seq(Byte)]
    /\ pending \in [Ends -> Nat]
    /\ muxout \in [Ends -> BOOLEAN] /\ muxin \in [Ends -> BOOLEAN]

\* The previous indices of an end are those of the items it has read and written, and
\* what it has read are the values of those items.
Kept ==
    /\ prev = [e \in Ends |-> [read  |-> LastAt(script[Peer(e)], in[e]),
                               write |-> LastAt(script[e], out[e])]]
    /\ values = [e \in Ends |-> ValuesOf(script[Peer(e)], in[e])]

WireInv == Typed /\ Kept /\ \A e \in Ends : Way(e)

\* The types of what a direction consists of.
LEMMA DirectionTyped ==
    ASSUME NEW items, NEW fr, NEW o, NEW i, NEW P, NEW p, NEW g, NEW mi, NEW mo, NEW ct,
           Direction(items, fr, o, i, P, p, g, mi, mo, ct), Script(items)
    PROVE  /\ P \in Seq(Byte) /\ g \in Seq(Byte) /\ p \in Nat
           /\ Len(items) \in Nat /\ o \in Nat /\ i \in Nat /\ o \in 0..Len(items) /\ i \in 0..Len(items)
<1>1. /\ P \in Seq(Byte) /\ g \in Seq(Byte) /\ p \in Nat
      /\ o \in 0..Len(items) /\ i \in 0..Len(items)
  BY Zenon DEF Direction, Standing
<1>2. Len(items) \in Nat BY Zenon DEF Script
<1> QED BY <1>1, <1>2

\* At the start: nothing is written, and nothing read.
LEMMA DirectionStart ==
    ASSUME NEW items, Script(items), NEW fr \in BOOLEAN
    PROVE  Direction(items, fr, 0, 0, <<>>, 0, <<>>, FALSE, FALSE, FALSE)
<1>1. PICK S, pos : Laid(items, Len(items), S, pos) BY LaidExists, Zenon
<1>2. Placed(items, S, pos) BY <1>1, LaidFacts, Zenon
<1>3. PICK N \in Nat : N = Len(items) BY DEF Script
<1>4. S \in Seq(Byte) /\ pos[0] = 0 /\ (0 < N => pos[1] \in Nat)
  <2>1. S \in Seq(Byte) /\ pos[0] = 0 /\ \A k \in 0..N : pos[k] \in Nat
    BY <1>1, <1>2, <1>3, Zenon DEF Laid, Placed
  <2>2. 0 < N => 1 \in 0..N OBVIOUS
  <2> QED BY <2>1, <2>2
<1>5. Part(S, 0, 0) = <<>> /\ <<>> \in Seq(Byte) BY <1>4 DEF Part
<1>6. Standing(items, fr, 0, 0, FALSE, FALSE)
  <2>1. 0 \in 0..Len(items) /\ 0 <= 0 BY <1>3
  <2>2. ~MuxBy(items, 0) BY DEF MuxBy
  <2> QED BY <2>1, <2>2 DEF Standing
<1>7. Ahead(<<>>, S, 0, 0, <<>>, FALSE) BY DEF Ahead
<1>8. Flow(items, S, pos, 0, 0, <<>>, 0, 0, <<>>, 0, <<>>, FALSE, FALSE, FALSE)
  <2>1. 0 + 0 = 0 /\ 0 <= 0 /\ ~(0 < 0) OBVIOUS
  <2>2. Framed(<<>>, Part(S, 0 + 0, pos[0])) BY <1>4, <1>5, <2>1, FramedEmpty, Zenon
  <2> QED BY <1>4, <1>5, <1>7, <2>1, <2>2, Zenon DEF Flow
<1> QED BY <1>1, <1>5, <1>6, <1>8 DEF Direction

\* The invariant holds at the start.
LEMMA WireInit == Init => WireInv
<1> SUFFICES ASSUME Init PROVE WireInv OBVIOUS
<1> USE DEF Init
<1>1. script \in Scripts OBVIOUS
<1>2. Typed
  <2>1. <<>> \in Seq(Byte) OBVIOUS
  <2> QED BY <2>1 DEF Typed
<1>3. Kept
  <2>1. \A e \in Ends : Script(script[e]) /\ Peer(e) \in Ends BY <1>1, ScriptsAre, PeerFacts
  <2>2. \A e \in Ends : LastAt(script[e], 0) = NdxStart /\ ValuesOf(script[e], 0) = <<>>
    BY <2>1, LastIs, ValuesAre, Zenon
  <2> QED BY <2>1, <2>2 DEF Kept
<1>4. ASSUME NEW e \in Ends PROVE Way(e)
  <2>1. Script(script[e]) /\ (script.proto >= 30) \in BOOLEAN /\ Peer(e) \in Ends
    BY <1>1, ScriptsAre, PeerFacts
  <2>2. Direction(script[e], script.proto >= 30, 0, 0, <<>>, 0, <<>>, FALSE, FALSE, FALSE)
    BY <2>1, DirectionStart, Zenon
  <2>3. /\ out[e] = 0 /\ in[Peer(e)] = 0 /\ pipe[e] = <<>> /\ pending[Peer(e)] = 0
        /\ got[Peer(e)] = <<>> /\ muxin[Peer(e)] = FALSE /\ muxout[e] = FALSE /\ cut = FALSE
    BY <2>1
  <2> QED BY <2>2, <2>3, Zenon DEF Way
<1> QED BY <1>2, <1>3, <1>4 DEF WireInv

\* What an end is about to write.
LEMMA WriterFacts ==
    ASSUME WireInv, NEW e \in Ends
    PROVE  /\ Script(script[e]) /\ (script.proto >= 30) \in BOOLEAN
           /\ muxin[Peer(e)] \in BOOLEAN /\ muxout[e] \in BOOLEAN /\ cut \in BOOLEAN
           /\ out[e] \in Nat /\ Len(script[e]) \in Nat /\ out[e] \in 0..Len(script[e])
           /\ in[Peer(e)] \in Nat /\ in[Peer(e)] \in 0..Len(script[e])
           /\ Way(e)
           /\ prev[e].write = LastAt(script[e], out[e])
           /\ prev[Peer(e)].read = LastAt(script[e], in[Peer(e)])
<1>1. Peer(e) \in Ends /\ Peer(Peer(e)) = e BY PeerFacts
<1>2. Script(script[e]) /\ (script.proto >= 30) \in BOOLEAN BY ScriptsAre DEF WireInv, Typed
<1>3. muxin[Peer(e)] \in BOOLEAN /\ muxout[e] \in BOOLEAN /\ cut \in BOOLEAN BY <1>1 DEF WireInv, Typed
<1>4. Way(e) BY Zenon DEF WireInv
<1>5. /\ Len(script[e]) \in Nat /\ out[e] \in Nat /\ in[Peer(e)] \in Nat
      /\ out[e] \in 0..Len(script[e]) /\ in[Peer(e)] \in 0..Len(script[e])
  BY <1>2, <1>4, DirectionTyped, Zenon DEF Way
<1>6. /\ prev[e].write = LastAt(script[e], out[e])
      /\ prev[Peer(e)].read = LastAt(script[Peer(Peer(e))], in[Peer(e)])
  BY <1>1 DEF WireInv, Kept
<1> QED BY <1>1, <1>2, <1>3, <1>4, <1>5, <1>6, Zenon

-----------------------------------------------------------------------------
(* The steps of a writer change one direction, and so do those of its peer. *)

\* A step of e as a writer, if its own direction goes on to be one.
LEMMA WriterMoves ==
    ASSUME WireInv, NEW e \in Ends, NEW Q, NEW o2, NEW mo2 \in BOOLEAN,
           UNCHANGED <<script, rd, cut>>,
           pipe' = [pipe EXCEPT ![e] = Q], out' = [out EXCEPT ![e] = o2],
           muxout' = [muxout EXCEPT ![e] = mo2],
           prev' = [prev EXCEPT ![e].write = LastAt(script[e], o2)],
           Direction(script[e], script.proto >= 30, o2, in[Peer(e)], Q, pending[Peer(e)],
                     got[Peer(e)], muxin[Peer(e)], mo2, cut)
    PROVE  WireInv'
<1>1. Script(script[e]) BY ScriptsAre DEF WireInv, Typed
<1>2. Q \in Seq(Byte) /\ o2 \in Nat BY <1>1, DirectionTyped, Zenon
<1>3. Typed' BY <1>2 DEF WireInv, Typed, rd
<1>4. Kept'
  <2>1. /\ prev = [x \in Ends |-> [read |-> LastAt(script[Peer(x)], in[x]), write |-> LastAt(script[x], out[x])]]
        /\ values = [x \in Ends |-> ValuesOf(script[Peer(x)], in[x])]
        /\ out \in [Ends -> Nat]
    BY DEF WireInv, Kept, Typed
  <2>2. out' = [x \in Ends |-> IF x = e THEN o2 ELSE out[x]] BY <2>1
  <2>3. prev' = [x \in Ends |-> [read  |-> LastAt(script[Peer(x)], in[x]),
                                 write |-> LastAt(script[x], out'[x])]]
    BY <2>1, <2>2
  <2>4. script' = script /\ in' = in /\ values' = values BY DEF rd
  <2> QED BY <2>1, <2>3, <2>4 DEF Kept
<1>5. ASSUME NEW x \in Ends PROVE Way(x)'
  <2>1. /\ script' = script /\ cut' = cut
        /\ in' = in /\ pending' = pending /\ got' = got /\ muxin' = muxin
    BY DEF rd
  <2>2. CASE x = e
    <3>1. pipe'[e] = Q /\ out'[e] = o2 /\ muxout'[e] = mo2 BY DEF WireInv, Typed
    <3> QED BY <2>1, <2>2, <3>1, Zenon DEF Way
  <2>3. CASE x # e
    <3>1. pipe'[x] = pipe[x] /\ out'[x] = out[x] /\ muxout'[x] = muxout[x] BY <2>3 DEF WireInv, Typed
    <3>2. Way(x) BY Zenon DEF WireInv
    <3> QED BY <2>1, <3>1, <3>2, Zenon DEF Way
  <2> QED BY <2>2, <2>3
<1> QED BY <1>3, <1>4, <1>5 DEF WireInv

\* A step of e as a reader, if the direction of its peer goes on to be one.
LEMMA ReaderMoves ==
    ASSUME WireInv, NEW e \in Ends, NEW Q, NEW i2, NEW p2, NEW g2, NEW mi2 \in BOOLEAN,
           UNCHANGED <<script, wr, cut>>,
           pipe' = [pipe EXCEPT ![Peer(e)] = Q], in' = [in EXCEPT ![e] = i2],
           pending' = [pending EXCEPT ![e] = p2], got' = [got EXCEPT ![e] = g2],
           muxin' = [muxin EXCEPT ![e] = mi2],
           prev' = [prev EXCEPT ![e].read = LastAt(script[Peer(e)], i2)],
           values' = [values EXCEPT ![e] = ValuesOf(script[Peer(e)], i2)],
           Direction(script[Peer(e)], script.proto >= 30, out[Peer(e)], i2, Q, p2, g2, mi2, muxout[Peer(e)], cut)
    PROVE  WireInv'
<1>0. Peer(e) \in Ends /\ Peer(Peer(e)) = e /\ \A x \in Ends : Peer(x) = e => x = Peer(e)
  BY PeerFacts
<1>1. Script(script[Peer(e)]) BY <1>0, ScriptsAre DEF WireInv, Typed
<1>2. Q \in Seq(Byte) /\ i2 \in Nat /\ p2 \in Nat /\ g2 \in Seq(Byte) BY <1>1, DirectionTyped, Zenon
<1>3. Typed' BY <1>0, <1>2 DEF WireInv, Typed, wr
<1>4. Kept'
  <2>1. /\ prev = [x \in Ends |-> [read |-> LastAt(script[Peer(x)], in[x]), write |-> LastAt(script[x], out[x])]]
        /\ values = [x \in Ends |-> ValuesOf(script[Peer(x)], in[x])]
        /\ in \in [Ends -> Nat]
    BY DEF WireInv, Kept, Typed
  <2>2. in' = [x \in Ends |-> IF x = e THEN i2 ELSE in[x]] BY <2>1
  <2>5. prev' = [x \in Ends |-> [read  |-> LastAt(script[Peer(x)], in'[x]),
                                 write |-> LastAt(script[x], out[x])]]
    BY <2>1, <2>2
  <2>3. values' = [x \in Ends |-> ValuesOf(script[Peer(x)], in'[x])]
    BY <2>1, <2>2
  <2>4. script' = script /\ out' = out BY DEF wr
  <2> QED BY <2>3, <2>4, <2>5 DEF Kept
<1>5. ASSUME NEW x \in Ends PROVE Way(x)'
  <2>1. script' = script /\ cut' = cut /\ out' = out /\ muxout' = muxout
    BY DEF wr
  <2>2. CASE x = Peer(e)
    <3>1. pipe'[Peer(e)] = Q /\ in'[e] = i2 /\ pending'[e] = p2 /\ got'[e] = g2 /\ muxin'[e] = mi2
      BY <1>0 DEF WireInv, Typed
    <3> QED BY <1>0, <2>1, <2>2, <3>1, Zenon DEF Way
  <2>3. CASE x # Peer(e)
    <3>0. Peer(x) \in Ends /\ Peer(x) # e BY <1>0, <2>3, PeerFacts
    <3>1. /\ pipe'[x] = pipe[x] /\ in'[Peer(x)] = in[Peer(x)] /\ pending'[Peer(x)] = pending[Peer(x)]
          /\ got'[Peer(x)] = got[Peer(x)] /\ muxin'[Peer(x)] = muxin[Peer(x)]
      BY <2>3, <3>0 DEF WireInv, Typed
    <3>2. Way(x) BY Zenon DEF WireInv
    <3> QED BY <2>1, <3>1, <3>2, Zenon DEF Way
  <2> QED BY <2>2, <2>3
<1> QED BY <1>3, <1>4, <1>5 DEF WireInv

\* What stays as it is.
LEMMA Unmoved ==
    ASSUME WireInv, NEW e \in Ends
    PROVE  /\ pipe = [pipe EXCEPT ![e] = pipe[e]] /\ out = [out EXCEPT ![e] = out[e]]
           /\ muxout = [muxout EXCEPT ![e] = muxout[e]]
           /\ in = [in EXCEPT ![e] = in[e]] /\ pending = [pending EXCEPT ![e] = pending[e]]
           /\ got = [got EXCEPT ![e] = got[e]] /\ muxin = [muxin EXCEPT ![e] = muxin[e]]
           /\ prev = [prev EXCEPT ![e].write = LastAt(script[e], out[e])]
           /\ prev = [prev EXCEPT ![e].read = LastAt(script[Peer(e)], in[e])]
           /\ values = [values EXCEPT ![e] = ValuesOf(script[Peer(e)], in[e])]
<1>1. /\ pipe \in [Ends -> Seq(Byte)] /\ out \in [Ends -> Nat] /\ in \in [Ends -> Nat]
      /\ muxout \in [Ends -> BOOLEAN] /\ muxin \in [Ends -> BOOLEAN] /\ got \in [Ends -> Seq(Byte)]
      /\ pending \in [Ends -> Nat]
  BY DEF WireInv, Typed
<1>2. /\ prev = [x \in Ends |-> [read |-> LastAt(script[Peer(x)], in[x]), write |-> LastAt(script[x], out[x])]]
      /\ values = [x \in Ends |-> ValuesOf(script[Peer(x)], in[x])]
  BY DEF WireInv, Kept
<1>3. /\ pipe = [pipe EXCEPT ![e] = pipe[e]] /\ out = [out EXCEPT ![e] = out[e]]
      /\ muxout = [muxout EXCEPT ![e] = muxout[e]]
      /\ in = [in EXCEPT ![e] = in[e]] /\ pending = [pending EXCEPT ![e] = pending[e]]
      /\ got = [got EXCEPT ![e] = got[e]] /\ muxin = [muxin EXCEPT ![e] = muxin[e]]
  BY <1>1
<1>4. values = [values EXCEPT ![e] = ValuesOf(script[Peer(e)], in[e])] BY <1>2
<1>5. prev = [prev EXCEPT ![e].write = LastAt(script[e], out[e])] BY <1>2
<1>6. prev = [prev EXCEPT ![e].read = LastAt(script[Peer(e)], in[e])] BY <1>2
<1> QED BY <1>3, <1>4, <1>5, <1>6

\* The direction of e's writing, by names of its own for what it consists of.
Seen(e, s, fr, o, i, P, p, g, mi, mo, ct) ==
    /\ s = script[e] /\ fr = (script.proto >= 30) /\ o = out[e] /\ i = in[Peer(e)] /\ P = pipe[e]
    /\ p = pending[Peer(e)] /\ g = got[Peer(e)] /\ mi = muxin[Peer(e)] /\ mo = muxout[e] /\ ct = cut
    /\ fr \in BOOLEAN /\ mi \in BOOLEAN /\ mo \in BOOLEAN /\ ct \in BOOLEAN
    /\ Script(s) /\ Len(s) \in Nat /\ o \in Nat /\ o <= Len(s) /\ i \in Nat /\ i <= Len(s)
    /\ Direction(s, fr, o, i, P, p, g, mi, mo, ct)
    /\ prev[e].write = LastAt(s, o) /\ prev[Peer(e)].read = LastAt(s, i)
    /\ values[Peer(e)] = ValuesOf(s, i)

IsSeen(e) == \E s, fr, o, i, P, p, g, mi, mo, ct : Seen(e, s, fr, o, i, P, p, g, mi, mo, ct)

\* The invariant, for one direction.
LEMMA WaySeen == ASSUME WireInv, NEW e \in Ends PROVE IsSeen(e)
<1>1. /\ Script(script[e]) /\ (script.proto >= 30) \in BOOLEAN
      /\ muxin[Peer(e)] \in BOOLEAN /\ muxout[e] \in BOOLEAN /\ cut \in BOOLEAN
      /\ out[e] \in Nat /\ Len(script[e]) \in Nat /\ out[e] \in 0..Len(script[e])
      /\ in[Peer(e)] \in Nat /\ in[Peer(e)] \in 0..Len(script[e])
      /\ Way(e) /\ prev[e].write = LastAt(script[e], out[e])
      /\ prev[Peer(e)].read = LastAt(script[e], in[Peer(e)])
  BY WriterFacts, Zenon
<1>2. values[Peer(e)] = ValuesOf(script[e], in[Peer(e)])
  BY PeerFacts DEF WireInv, Kept
<1>3. PICK s, fr, o, i, P, p, g, mi, mo, ct :
        /\ s = script[e] /\ fr = (script.proto >= 30) /\ o = out[e] /\ i = in[Peer(e)] /\ P = pipe[e]
        /\ p = pending[Peer(e)] /\ g = got[Peer(e)] /\ mi = muxin[Peer(e)] /\ mo = muxout[e] /\ ct = cut
  OBVIOUS
<1>4. Len(s) \in Nat /\ o <= Len(s) /\ i <= Len(s) BY <1>1, <1>3
<1>5. Seen(e, s, fr, o, i, P, p, g, mi, mo, ct) BY <1>1, <1>2, <1>3, <1>4, Zenon DEF Seen, Way
<1> QED BY <1>5, Zenon DEF IsSeen

\* An item is written.
LEMMA WriteStep == ASSUME WireInv, NEW e \in Ends, Write(e) PROVE WireInv'
<1>1. PICK s, fr, o, i, P, p, g, mi, mo, ct : Seen(e, s, fr, o, i, P, p, g, mi, mo, ct)
  BY WaySeen, Zenon DEF IsSeen
<1>2. /\ s = script[e] /\ o = out[e] /\ P = pipe[e] /\ mo = muxout[e] /\ ct = cut
      /\ Script(s) /\ Len(s) \in Nat /\ o \in Nat /\ prev[e].write = LastAt(s, o)
      /\ fr \in BOOLEAN /\ mi \in BOOLEAN /\ mo \in BOOLEAN /\ ct \in BOOLEAN
      /\ Direction(s, fr, o, i, P, p, g, mi, mo, ct)
  BY <1>1, Zenon DEF Seen
<1>3. PICK it : it = s[o + 1] OBVIOUS
<1>4. /\ it.k # "mux" /\ ct = FALSE /\ o < Len(s)
      /\ pipe' = [pipe EXCEPT ![e] = P \o Sent(Written(it, LastAt(s, o)), mo)]
      /\ prev' = IF it.k # "ndx" THEN prev ELSE [prev EXCEPT ![e].write = NdxAfter(LastAt(s, o), it.v)]
      /\ out' = [out EXCEPT ![e] = o + 1]
      /\ UNCHANGED <<script, muxout, rd, cut>>
  BY <1>2, <1>3 DEF Write, Writing
<1>5. PICK Q : Q = P \o Sent(Written(it, LastAt(s, o)), mo) OBVIOUS
<1>6. Direction(s, fr, o + 1, i, Q, p, g, mi, mo, ct)
  <2>1. Direction(s, fr, o, i, P, p, g, mi, mo, FALSE) BY <1>2, <1>4, Zenon
  <2>2. /\ s[o + 1].k # "mux" /\ o < Len(s) /\ Script(s)
        /\ fr \in BOOLEAN /\ mi \in BOOLEAN /\ mo \in BOOLEAN
    BY <1>2, <1>3, <1>4, Zenon
  <2>3. Direction(s, fr, o + 1, i, P \o Sent(Written(s[o + 1], LastAt(s, o)), mo), p, g, mi, mo, FALSE)
    BY <2>1, <2>2, DirectionWrite, ZenonT(60)
  <2> QED BY <1>3, <1>4, <1>5, <2>3, Zenon
<1>7. muxout' = [muxout EXCEPT ![e] = mo]
  <2>1. muxout' = muxout /\ muxout = [muxout EXCEPT ![e] = muxout[e]] BY <1>4, Unmoved, Zenon
  <2> QED BY <1>2, <2>1, Zenon
<1>8. prev' = [prev EXCEPT ![e].write = LastAt(s, o + 1)]
  <2>1. o \in 0..(Len(s) - 1) BY <1>2, <1>4
  <2>2. LastAt(s, o + 1) = IF it.k # "ndx" THEN LastAt(s, o) ELSE NdxAfter(LastAt(s, o), it.v)
    BY <1>2, <1>3, <2>1, LastIs, Zenon
  <2>3. CASE it.k # "ndx"
    <3>1. prev' = prev /\ LastAt(s, o + 1) = LastAt(s, o) BY <1>4, <2>2, <2>3, Zenon
    <3>2. prev = [prev EXCEPT ![e].write = LastAt(script[e], out[e])] BY Unmoved, Zenon
    <3> QED BY <1>2, <3>1, <3>2, Zenon
  <2>4. CASE it.k = "ndx" BY <1>4, <2>2, <2>4, Zenon
  <2> QED BY <2>3, <2>4
<1> QED BY <1>1, <1>2, <1>4, <1>5, <1>6, <1>7, <1>8, WriterMoves, Zenon DEF Seen

\* The writer switches to frames, and with it whatever the peer expects: a server below
\* 30 has no switch among its items.
LEMMA EnableOutStep == ASSUME WireInv, NEW e \in Ends, EnableOut(e) PROVE WireInv'
<1>1. PICK s, fr, o, i, P, p, g, mi, mo, ct : Seen(e, s, fr, o, i, P, p, g, mi, mo, ct)
  BY WaySeen, Zenon DEF IsSeen
<1>2. /\ s = script[e] /\ o = out[e] /\ P = pipe[e] /\ mo = muxout[e] /\ ct = cut
      /\ Script(s) /\ Len(s) \in Nat /\ o \in Nat /\ prev[e].write = LastAt(s, o)
      /\ fr \in BOOLEAN /\ mi \in BOOLEAN /\ mo \in BOOLEAN /\ ct \in BOOLEAN
      /\ Direction(s, fr, o, i, P, p, g, mi, mo, ct) /\ fr = (script.proto >= 30)
  BY <1>1, Zenon DEF Seen
<1>3. /\ s[o + 1].k = "mux" /\ ct = FALSE /\ o < Len(s)
      /\ muxout' = [muxout EXCEPT ![e] = e = "server" \/ fr]
      /\ out' = [out EXCEPT ![e] = o + 1]
      /\ UNCHANGED <<script, pipe, prev, rd, cut>>
  BY <1>2 DEF EnableOut, Writing
<1>4. (e = "server" \/ fr) = fr
  <2>1. o + 1 \in 1..Len(s) BY <1>2, <1>3
  <2>2. script \in Scripts BY DEF WireInv, Typed
  <2>3. script.proto \in Nat BY <2>2, ScriptsAre
  <2>4. e = "server" => ~(script.proto < 30) BY <1>2, <1>3, <2>1, <2>2, NewServers
  <2>5. (script.proto >= 30) = TRUE \/ e # "server" BY <2>3, <2>4
  <2> QED BY <1>2, <2>5, Zenon
<1>5. Direction(s, fr, o + 1, i, P, p, g, mi, fr, ct)
  <2>1. Direction(s, fr, o, i, P, p, g, mi, mo, FALSE) BY <1>2, <1>3, Zenon
  <2>2. /\ s[o + 1].k = "mux" /\ o < Len(s) /\ Script(s)
        /\ fr \in BOOLEAN /\ mi \in BOOLEAN /\ mo \in BOOLEAN
    BY <1>2, <1>3, Zenon
  <2>3. Direction(s, fr, o + 1, i, P, p, g, mi, fr, FALSE)
    BY <2>1, <2>2, DirectionEnableOut, Zenon
  <2> QED BY <1>3, <2>3, Zenon
<1>6. pipe' = [pipe EXCEPT ![e] = P]
  <2>1. pipe' = pipe /\ pipe = [pipe EXCEPT ![e] = pipe[e]] BY <1>3, Unmoved, Zenon
  <2> QED BY <1>2, <2>1, Zenon
<1>7. prev' = [prev EXCEPT ![e].write = LastAt(s, o + 1)]
  <2>1. o \in 0..(Len(s) - 1) BY <1>2, <1>3
  <2>2. LastAt(s, o + 1) = LastAt(s, o) BY <1>2, <1>3, <2>1, LastIs
  <2>3. prev' = prev /\ prev = [prev EXCEPT ![e].write = LastAt(script[e], out[e])] BY <1>3, Unmoved, Zenon
  <2> QED BY <1>2, <2>2, <2>3, Zenon
<1>8. muxout' = [muxout EXCEPT ![e] = fr] BY <1>3, <1>4
<1> QED BY <1>1, <1>2, <1>3, <1>5, <1>6, <1>7, <1>8, WriterMoves, ZenonT(60) DEF Seen

\* A message goes between the frames.
LEMMA MessageStep == ASSUME WireInv, NEW e \in Ends, Message(e) PROVE WireInv'
<1>1. PICK s, fr, o, i, P, p, g, mi, mo, ct : Seen(e, s, fr, o, i, P, p, g, mi, mo, ct)
  BY WaySeen, Zenon DEF IsSeen
<1>2. /\ s = script[e] /\ o = out[e] /\ P = pipe[e] /\ mo = muxout[e] /\ ct = cut
      /\ Script(s) /\ prev[e].write = LastAt(s, o)
      /\ fr \in BOOLEAN /\ mi \in BOOLEAN /\ mo \in BOOLEAN /\ ct \in BOOLEAN
      /\ Direction(s, fr, o, i, P, p, g, mi, mo, ct)
  BY <1>1, Zenon DEF Seen
<1>3. /\ mo /\ ct = FALSE
      /\ \E m \in Chatter : pipe' = [pipe EXCEPT ![e] = @ \o Header(m.code, Len(m.text)) \o m.text]
      /\ UNCHANGED <<script, wr, prev, rd, cut>>
  BY <1>2 DEF Message
<1>4. PICK m \in Chatter : pipe' = [pipe EXCEPT ![e] = @ \o Header(m.code, Len(m.text)) \o m.text]
  BY <1>3
<1>5. PICK code, t : code = m.code /\ t = m.text OBVIOUS
<1>6. code \in MsgCodes /\ Fits(t) /\ (code = Data => t = <<>>)
  BY <1>5, WireAssumption DEF Fits
<1>7. PICK Q : Q = (P \o Header(code, Len(t))) \o t OBVIOUS
<1>8. pipe' = [pipe EXCEPT ![e] = Q] BY <1>2, <1>4, <1>5, <1>7, Zenon
<1>9. Direction(s, fr, o, i, Q, p, g, mi, mo, ct)
  <2>1. Direction(s, fr, o, i, P, p, g, mi, mo, FALSE) /\ mo BY <1>2, <1>3, Zenon
  <2>2. Script(s) /\ fr \in BOOLEAN /\ mi \in BOOLEAN /\ mo \in BOOLEAN BY <1>2, Zenon
  <2>3. Direction(s, fr, o, i, (P \o Header(code, Len(t))) \o t, p, g, mi, mo, FALSE)
    BY <1>6, <2>1, <2>2, DirectionMessage, Zenon
  <2> QED BY <1>3, <1>7, <2>3, Zenon
<1>10. /\ out' = [out EXCEPT ![e] = o] /\ muxout' = [muxout EXCEPT ![e] = mo]
       /\ prev' = [prev EXCEPT ![e].write = LastAt(s, o)]
  <2>1. /\ out = [out EXCEPT ![e] = out[e]] /\ muxout = [muxout EXCEPT ![e] = muxout[e]]
        /\ prev = [prev EXCEPT ![e].write = LastAt(script[e], out[e])]
    BY Unmoved, Zenon
  <2>2. out' = out /\ muxout' = muxout /\ prev' = prev BY <1>3 DEF wr
  <2> QED BY <1>2, <2>1, <2>2, Zenon
<1> QED BY <1>1, <1>2, <1>3, <1>8, <1>9, <1>10, WriterMoves, Zenon DEF Seen

\* What e reads, in the names of the direction from its peer.
SeenBy(e, s, fr, o, i, P, p, g, mi, mo, ct) ==
    /\ s = script[Peer(e)] /\ fr = (script.proto >= 30) /\ o = out[Peer(e)] /\ i = in[e]
    /\ P = pipe[Peer(e)] /\ p = pending[e] /\ g = got[e] /\ mi = muxin[e]
    /\ mo = muxout[Peer(e)] /\ ct = cut
    /\ fr \in BOOLEAN /\ mi \in BOOLEAN /\ mo \in BOOLEAN /\ ct \in BOOLEAN
    /\ Script(s) /\ Len(s) \in Nat /\ i \in Nat
    /\ Direction(s, fr, o, i, P, p, g, mi, mo, ct)
    /\ prev[e].read = LastAt(s, i) /\ values[e] = ValuesOf(s, i)

\* The same in the names of the reader.
LEMMA ReaderSees ==
    ASSUME NEW e \in Ends, NEW s, NEW fr, NEW o, NEW i, NEW P, NEW p, NEW g, NEW mi, NEW mo, NEW ct,
           Seen(Peer(e), s, fr, o, i, P, p, g, mi, mo, ct)
    PROVE  SeenBy(e, s, fr, o, i, P, p, g, mi, mo, ct)
<1>1. Peer(Peer(e)) = e BY PeerFacts
<1> QED BY <1>1, Zenon DEF Seen, SeenBy

\* The reader switches to frames.
LEMMA EnableInStep == ASSUME WireInv, NEW e \in Ends, EnableIn(e) PROVE WireInv'
<1>0. Peer(e) \in Ends BY PeerFacts
<1>1. PICK s, fr, o, i, P, p, g, mi, mo, ct : Seen(Peer(e), s, fr, o, i, P, p, g, mi, mo, ct)
  BY <1>0, WaySeen, Zenon DEF IsSeen
<1>a. SeenBy(e, s, fr, o, i, P, p, g, mi, mo, ct) BY <1>1, ReaderSees, Zenon
<1>2. /\ s = script[Peer(e)] /\ fr = (script.proto >= 30) /\ o = out[Peer(e)] /\ i = in[e]
      /\ P = pipe[Peer(e)] /\ p = pending[e] /\ g = got[e] /\ mo = muxout[Peer(e)] /\ ct = cut
      /\ fr \in BOOLEAN /\ mi \in BOOLEAN /\ mo \in BOOLEAN
      /\ Script(s) /\ Len(s) \in Nat /\ i \in Nat
      /\ Direction(s, fr, o, i, P, p, g, mi, mo, ct)
  BY <1>a, Zenon DEF SeenBy
<1>3. /\ s[i + 1].k = "mux" /\ i < Len(s)
      /\ muxin' = [muxin EXCEPT ![e] = fr] /\ in' = [in EXCEPT ![e] = i + 1]
      /\ UNCHANGED <<script, wr, cut, pipe, pending, got, values, prev>>
  BY <1>2 DEF EnableIn, Reading, Reads
<1>4. Direction(s, fr, o, i + 1, P, p, g, fr, mo, ct)
  <2>1. /\ s[i + 1].k = "mux" /\ i < Len(s) /\ Script(s)
        /\ fr \in BOOLEAN /\ mi \in BOOLEAN /\ mo \in BOOLEAN
        /\ Direction(s, fr, o, i, P, p, g, mi, mo, ct)
    BY <1>2, <1>3, Zenon
  <2> QED BY <2>1, DirectionEnableIn, Zenon
<1>5. LastAt(s, i + 1) = LastAt(s, i) /\ ValuesOf(s, i + 1) = ValuesOf(s, i)
  <2>1. i \in 0..(Len(s) - 1) /\ i + 1 \in 1..Len(s) /\ (i + 1) - 1 = i BY <1>2, <1>3
  <2>2. LastAt(s, i + 1) = LastAt(s, i) BY <1>2, <1>3, <2>1, LastIs
  <2> QED BY <1>2, <1>3, <2>1, <2>2, ValuesAre
<1>6. /\ pipe' = [pipe EXCEPT ![Peer(e)] = P] /\ pending' = [pending EXCEPT ![e] = p]
      /\ got' = [got EXCEPT ![e] = g]
      /\ prev' = [prev EXCEPT ![e].read = LastAt(s, i + 1)]
      /\ values' = [values EXCEPT ![e] = ValuesOf(s, i + 1)]
  <2>1. /\ pipe = [pipe EXCEPT ![Peer(e)] = pipe[Peer(e)]] /\ pending = [pending EXCEPT ![e] = pending[e]]
        /\ got = [got EXCEPT ![e] = got[e]]
        /\ prev = [prev EXCEPT ![e].read = LastAt(script[Peer(e)], in[e])]
        /\ values = [values EXCEPT ![e] = ValuesOf(script[Peer(e)], in[e])]
    BY <1>0, Unmoved, Zenon
  <2>2. pipe' = pipe /\ pending' = pending /\ got' = got /\ prev' = prev /\ values' = values BY <1>3
  <2> QED BY <1>2, <1>5, <2>1, <2>2, Zenon
<1>7. UNCHANGED <<script, wr, cut>> BY <1>3
<1>8. Direction(script[Peer(e)], script.proto >= 30, out[Peer(e)], i + 1, P, p, g, fr, muxout[Peer(e)], cut)
  BY <1>2, <1>4, Zenon
<1>9. /\ in' = [in EXCEPT ![e] = i + 1] /\ muxin' = [muxin EXCEPT ![e] = fr]
      /\ prev' = [prev EXCEPT ![e].read = LastAt(script[Peer(e)], i + 1)]
      /\ values' = [values EXCEPT ![e] = ValuesOf(script[Peer(e)], i + 1)]
  BY <1>2, <1>3, <1>6, Zenon
<1> QED BY <1>2, <1>6, <1>7, <1>8, <1>9, ReaderMoves, ZenonT(60)

\* What the reader asks for is of the item it is in.
LEMMA WantsIs ==
    ASSUME NEW e \in Ends, Wants(e) # 0 \/ 0 < Wants(e)
    PROVE  /\ Reading(e) /\ Reads(e).k # "mux" /\ Wants(e) = Needed(Reads(e), got[e])
<1>1. Wants(e) # 0 OBVIOUS
<1> QED BY <1>1, Zenon DEF Wants

\* A header is read, and with one of a message its text.
LEMMA ReadHeaderStep == ASSUME WireInv, NEW e \in Ends, ReadHeader(e) PROVE WireInv'
<1>0. Peer(e) \in Ends BY PeerFacts
<1>1. PICK s, fr, o, i, P, p, g, mi, mo, ct : Seen(Peer(e), s, fr, o, i, P, p, g, mi, mo, ct)
  BY <1>0, WaySeen, Zenon DEF IsSeen
<1>a. SeenBy(e, s, fr, o, i, P, p, g, mi, mo, ct) BY <1>1, ReaderSees, Zenon
<1>2. /\ s = script[Peer(e)] /\ fr = (script.proto >= 30) /\ o = out[Peer(e)] /\ i = in[e]
      /\ P = pipe[Peer(e)] /\ p = pending[e] /\ g = got[e] /\ mi = muxin[e] /\ mo = muxout[Peer(e)] /\ ct = cut
      /\ fr \in BOOLEAN /\ mi \in BOOLEAN /\ mo \in BOOLEAN
      /\ Script(s) /\ Len(s) \in Nat /\ i \in Nat
      /\ Direction(s, fr, o, i, P, p, g, mi, mo, ct)
  BY <1>a, Zenon DEF SeenBy
<1>3. /\ mi /\ p = 0 /\ Len(P) >= 4
      /\ UNCHANGED <<script, wr, muxin, in, got, values, prev, cut>>
      /\ \/ /\ HeaderCode(P) = Data
            /\ pending' = [pending EXCEPT ![e] = HeaderLen(P)]
            /\ pipe' = [pipe EXCEPT ![Peer(e)] = Drop(P, 4)]
         \/ /\ HeaderCode(P) # Data
            /\ Len(P) >= 4 + HeaderLen(P)
            /\ pipe' = [pipe EXCEPT ![Peer(e)] = Drop(P, 4 + HeaderLen(P))]
            /\ UNCHANGED pending
  BY <1>2 DEF ReadHeader
<1>4. /\ HeaderCode(P) = Data =>
           Direction(s, fr, o, i, Drop(P, 4), HeaderLen(P), g, mi, mo, ct)
      /\ HeaderCode(P) # Data /\ Len(P) >= 4 + HeaderLen(P) =>
           Direction(s, fr, o, i, Drop(P, 4 + HeaderLen(P)), p, g, mi, mo, ct)
  <2>1. /\ mi /\ p = 0 /\ Len(P) >= 4 /\ Script(s)
        /\ fr \in BOOLEAN /\ mi \in BOOLEAN /\ mo \in BOOLEAN
        /\ Direction(s, fr, o, i, P, p, g, mi, mo, ct)
    BY <1>2, <1>3, Zenon
  <2> QED BY <2>1, DirectionHeader, Zenon
<1>5. PICK Q, p2 : /\ pipe' = [pipe EXCEPT ![Peer(e)] = Q] /\ pending' = [pending EXCEPT ![e] = p2]
                   /\ Direction(s, fr, o, i, Q, p2, g, mi, mo, ct)
  <2>1. CASE HeaderCode(P) = Data BY <1>3, <1>4, <2>1, Zenon
  <2>2. CASE HeaderCode(P) # Data
    <3>1. pending' = pending /\ pending = [pending EXCEPT ![e] = pending[e]] BY <1>3, <2>2, Unmoved, Zenon
    <3> QED BY <1>2, <1>3, <1>4, <2>2, <3>1, Zenon
  <2> QED BY <2>1, <2>2
<1>6. /\ in' = [in EXCEPT ![e] = i] /\ muxin' = [muxin EXCEPT ![e] = mi] /\ got' = [got EXCEPT ![e] = g]
      /\ prev' = [prev EXCEPT ![e].read = LastAt(script[Peer(e)], i)]
      /\ values' = [values EXCEPT ![e] = ValuesOf(script[Peer(e)], i)]
  <2>1. /\ in = [in EXCEPT ![e] = in[e]] /\ muxin = [muxin EXCEPT ![e] = muxin[e]]
        /\ got = [got EXCEPT ![e] = got[e]]
        /\ prev = [prev EXCEPT ![e].read = LastAt(script[Peer(e)], in[e])]
        /\ values = [values EXCEPT ![e] = ValuesOf(script[Peer(e)], in[e])]
    BY Unmoved, Zenon
  <2>2. in' = in /\ muxin' = muxin /\ got' = got /\ prev' = prev /\ values' = values BY <1>3
  <2> QED BY <1>2, <2>1, <2>2, Zenon
<1>7. UNCHANGED <<script, wr, cut>> BY <1>3
<1>8. Direction(script[Peer(e)], script.proto >= 30, out[Peer(e)], i, Q, p2, g, mi, muxout[Peer(e)], cut)
  BY <1>2, <1>5, Zenon
<1>9. mi \in BOOLEAN BY <1>2, Zenon
<1> QED BY <1>5, <1>6, <1>7, <1>8, <1>9, ReaderMoves, Zenon

\* Some bytes of the item are read.
LEMMA ReadSomeStep == ASSUME WireInv, NEW e \in Ends, ReadSome(e) PROVE WireInv'
<1>0. Peer(e) \in Ends BY PeerFacts
<1>1. PICK s, fr, o, i, P, p, g, mi, mo, ct : Seen(Peer(e), s, fr, o, i, P, p, g, mi, mo, ct)
  BY <1>0, WaySeen, Zenon DEF IsSeen
<1>a. SeenBy(e, s, fr, o, i, P, p, g, mi, mo, ct) BY <1>1, ReaderSees, Zenon
<1>2. /\ s = script[Peer(e)] /\ fr = (script.proto >= 30) /\ o = out[Peer(e)] /\ i = in[e]
      /\ P = pipe[Peer(e)] /\ p = pending[e] /\ g = got[e] /\ mi = muxin[e] /\ mo = muxout[Peer(e)] /\ ct = cut
      /\ fr \in BOOLEAN /\ mi \in BOOLEAN /\ mo \in BOOLEAN
      /\ Script(s) /\ Len(s) \in Nat /\ i \in Nat
      /\ Direction(s, fr, o, i, P, p, g, mi, mo, ct)
  BY <1>a, Zenon DEF SeenBy
<1>3. PICK n \in 1..Wants(e) :
             /\ n <= Len(P) /\ (mi => n <= p)
             /\ got' = [got EXCEPT ![e] = g \o SubSeq(P, 1, n)]
             /\ pipe' = [pipe EXCEPT ![Peer(e)] = Drop(P, n)]
             /\ pending' = IF mi THEN [pending EXCEPT ![e] = p - n] ELSE pending
  BY <1>2 DEF ReadSome
<1>4. /\ i < Len(s) /\ s[i + 1].k # "mux" /\ n \in 1..Needed(s[i + 1], g)
  <2>1. Wants(e) # 0 BY <1>3
  <2>2. Reading(e) /\ Reads(e).k # "mux" /\ Wants(e) = Needed(Reads(e), got[e]) BY <2>1, WantsIs, Zenon
  <2> QED BY <1>2, <1>3, <2>2, Zenon DEF Reading, Reads
<1>5. PICK Q, p2, g2 : Q = Drop(P, n) /\ p2 = (IF mi THEN p - n ELSE p) /\ g2 = g \o SubSeq(P, 1, n)
  OBVIOUS
<1>6. Direction(s, fr, o, i, Q, p2, g2, mi, mo, ct)
  <2>1. /\ i < Len(s) /\ s[i + 1].k # "mux" /\ n \in 1..Needed(s[i + 1], g) /\ n <= Len(P) /\ (mi => n <= p)
        /\ Script(s) /\ fr \in BOOLEAN /\ mi \in BOOLEAN /\ mo \in BOOLEAN
        /\ Direction(s, fr, o, i, P, p, g, mi, mo, ct)
    BY <1>2, <1>3, <1>4, Zenon
  <2>2. Direction(s, fr, o, i, Drop(P, n), IF mi THEN p - n ELSE p, g \o SubSeq(P, 1, n), mi, mo, ct)
    BY <2>1, DirectionRead, Zenon
  <2> QED BY <1>5, <2>2, Zenon
<1>7. pending' = [pending EXCEPT ![e] = p2]
  <2>1. CASE mi BY <1>3, <1>5, <2>1, Zenon
  <2>2. CASE ~mi
    <3>1. pending = [pending EXCEPT ![e] = pending[e]] BY Unmoved, Zenon
    <3> QED BY <1>2, <1>3, <1>5, <2>2, <3>1, Zenon
  <2> QED BY <2>1, <2>2
<1>8. UNCHANGED <<script, wr, cut, muxin, in, values, prev>> BY DEF ReadSome
<1>9. /\ in' = [in EXCEPT ![e] = i] /\ muxin' = [muxin EXCEPT ![e] = mi]
      /\ prev' = [prev EXCEPT ![e].read = LastAt(script[Peer(e)], i)]
      /\ values' = [values EXCEPT ![e] = ValuesOf(script[Peer(e)], i)]
  <2>1. /\ in = [in EXCEPT ![e] = in[e]] /\ muxin = [muxin EXCEPT ![e] = muxin[e]]
        /\ prev = [prev EXCEPT ![e].read = LastAt(script[Peer(e)], in[e])]
        /\ values = [values EXCEPT ![e] = ValuesOf(script[Peer(e)], in[e])]
    BY Unmoved, Zenon
  <2>2. in' = in /\ muxin' = muxin /\ prev' = prev /\ values' = values BY <1>8
  <2> QED BY <1>2, <2>1, <2>2, Zenon
<1>10. Direction(script[Peer(e)], script.proto >= 30, out[Peer(e)], i, Q, p2, g2, mi, muxout[Peer(e)], cut)
  BY <1>2, <1>6, Zenon
<1>11. UNCHANGED <<script, wr, cut>> BY <1>8
<1>12. pipe' = [pipe EXCEPT ![Peer(e)] = Q] /\ got' = [got EXCEPT ![e] = g2] /\ mi \in BOOLEAN
  BY <1>2, <1>3, <1>5, Zenon
<1> QED BY <1>7, <1>9, <1>10, <1>11, <1>12, ReaderMoves, Zenon

\* The item is read to its end.
LEMMA FinishStep == ASSUME WireInv, NEW e \in Ends, Finish(e) PROVE WireInv'
<1>0. Peer(e) \in Ends BY PeerFacts
<1>1. PICK s, fr, o, i, P, p, g, mi, mo, ct : Seen(Peer(e), s, fr, o, i, P, p, g, mi, mo, ct)
  BY <1>0, WaySeen, Zenon DEF IsSeen
<1>a. SeenBy(e, s, fr, o, i, P, p, g, mi, mo, ct) BY <1>1, ReaderSees, Zenon
<1>2. /\ s = script[Peer(e)] /\ fr = (script.proto >= 30) /\ o = out[Peer(e)] /\ i = in[e]
      /\ P = pipe[Peer(e)] /\ p = pending[e] /\ g = got[e] /\ mi = muxin[e] /\ mo = muxout[Peer(e)] /\ ct = cut
      /\ fr \in BOOLEAN /\ mi \in BOOLEAN /\ mo \in BOOLEAN
      /\ Script(s) /\ Len(s) \in Nat /\ i \in Nat
      /\ Direction(s, fr, o, i, P, p, g, mi, mo, ct)
      /\ prev[e].read = LastAt(s, i) /\ values[e] = ValuesOf(s, i)
  BY <1>a, Zenon DEF SeenBy
<1>3. PICK it : it = s[i + 1] OBVIOUS
<1>4. /\ i < Len(s) /\ it.k # "mux" /\ Needed(it, g) = 0
  <2>1. Reading(e) /\ Reads(e).k # "mux" /\ Wants(e) = 0 BY DEF Finish
  <2>2. Wants(e) = Needed(Reads(e), got[e]) BY <2>1, Zenon DEF Wants
  <2> QED BY <1>2, <1>3, <2>1, <2>2, Zenon DEF Reading, Reads
<1>5. /\ values' = [values EXCEPT ![e] = Append(@, Value(it, LastAt(s, i), g))]
      /\ prev' = IF it.k # "ndx" THEN prev
                 ELSE [prev EXCEPT ![e].read = NdxAfter(@, Value(it, LastAt(s, i), g))]
      /\ in' = [in EXCEPT ![e] = i + 1] /\ got' = [got EXCEPT ![e] = <<>>]
      /\ UNCHANGED <<script, wr, cut, pipe, muxin, pending>>
  BY <1>2, <1>3, Zenon DEF Finish, Reads
<1>6. Value(it, LastAt(s, i), g) = it.v /\ Direction(s, fr, o, i + 1, P, p, <<>>, mi, mo, ct)
  <2>1. /\ i < Len(s) /\ s[i + 1].k # "mux" /\ Needed(s[i + 1], g) = 0
        /\ Script(s) /\ fr \in BOOLEAN /\ mi \in BOOLEAN /\ mo \in BOOLEAN
        /\ Direction(s, fr, o, i, P, p, g, mi, mo, ct)
    BY <1>2, <1>3, <1>4, Zenon
  <2>2. Finishes(s, fr, o, i, P, p, g, mi, mo, ct) BY <2>1, DirectionFinish, Zenon
  <2> QED BY <1>3, <2>2, Zenon DEF Finishes
<1>7. /\ LastAt(s, i + 1) = IF it.k # "ndx" THEN LastAt(s, i) ELSE NdxAfter(LastAt(s, i), it.v)
      /\ ValuesOf(s, i + 1) = Append(ValuesOf(s, i), it.v)
  <2>1. i \in 0..(Len(s) - 1) /\ i + 1 \in 1..Len(s) /\ (i + 1) - 1 = i BY <1>2, <1>4
  <2>2. LastAt(s, i + 1) = IF it.k # "ndx" THEN LastAt(s, i) ELSE NdxAfter(LastAt(s, i), it.v)
    BY <1>2, <1>3, <2>1, LastIs, Zenon
  <2> QED BY <1>2, <1>3, <1>4, <2>1, <2>2, ValuesAre
<1>8. /\ values' = [values EXCEPT ![e] = ValuesOf(script[Peer(e)], i + 1)]
      /\ prev' = [prev EXCEPT ![e].read = LastAt(script[Peer(e)], i + 1)]
  <2>1. values' = [values EXCEPT ![e] = ValuesOf(s, i + 1)]
    <3>1. values' = [values EXCEPT ![e] = Append(values[e], Value(it, LastAt(s, i), g))] BY <1>5
    <3> QED BY <1>2, <1>6, <1>7, <3>1, Zenon
  <2>2. prev' = [prev EXCEPT ![e].read = LastAt(s, i + 1)]
    <3>1. CASE it.k # "ndx"
      <4>1. prev' = prev /\ LastAt(s, i + 1) = LastAt(s, i) BY <1>5, <1>7, <3>1, Zenon
      <4>2. prev = [prev EXCEPT ![e].read = LastAt(script[Peer(e)], in[e])] BY Unmoved, Zenon
      <4> QED BY <1>2, <4>1, <4>2, Zenon
    <3>2. CASE it.k = "ndx"
      <4>1. prev' = [prev EXCEPT ![e].read = NdxAfter(prev[e].read, Value(it, LastAt(s, i), g))]
        BY <1>5, <3>2
      <4> QED BY <1>2, <1>6, <1>7, <3>2, <4>1, Zenon
    <3> QED BY <3>1, <3>2
  <2> QED BY <1>2, <2>1, <2>2, Zenon
<1>9. /\ pipe' = [pipe EXCEPT ![Peer(e)] = P] /\ pending' = [pending EXCEPT ![e] = p]
      /\ muxin' = [muxin EXCEPT ![e] = mi] /\ mi \in BOOLEAN
      /\ in' = [in EXCEPT ![e] = i + 1] /\ got' = [got EXCEPT ![e] = <<>>]
  <2>1. /\ pipe = [pipe EXCEPT ![Peer(e)] = pipe[Peer(e)]] /\ pending = [pending EXCEPT ![e] = pending[e]]
        /\ muxin = [muxin EXCEPT ![e] = muxin[e]]
    BY <1>0, Unmoved, Zenon
  <2>2. pipe' = pipe /\ pending' = pending /\ muxin' = muxin BY <1>5
  <2> QED BY <1>2, <1>5, <2>1, <2>2, Zenon
<1>10. UNCHANGED <<script, wr, cut>> BY <1>5
<1>11. Direction(script[Peer(e)], script.proto >= 30, out[Peer(e)], i + 1, P, p, <<>>, mi, muxout[Peer(e)], cut)
  BY <1>2, <1>6, Zenon
<1> QED BY <1>8, <1>9, <1>10, <1>11, ReaderMoves, Zenon

\* The connection breaks: either direction is cut short.
LEMMA CutStep == ASSUME WireInv, Cut PROVE WireInv'
<1>1. /\ cut = FALSE /\ cut' = TRUE
      /\ UNCHANGED <<script, out, muxout, muxin, pending, in, got, values, prev>>
  BY DEF Cut, wr, rd, WireInv, Typed
<1>2. PICK c \in 0..Len(pipe["client"]), b \in 0..Len(pipe["server"]) :
         pipe' = [e \in Ends |-> SubSeq(pipe[e], 1, IF e = "client" THEN c ELSE b)]
  BY DEF Cut
<1>3. \A x \in Ends : \E n \in 0..Len(pipe[x]) : pipe'[x] = SubSeq(pipe[x], 1, n)
  <2> TAKE x \in Ends
  <2>1. pipe'[x] = SubSeq(pipe[x], 1, IF x = "client" THEN c ELSE b) BY <1>2
  <2>2. x = "client" \/ x = "server" BY DEF Ends
  <2> QED BY <1>2, <2>1, <2>2
<1>4. ASSUME NEW x \in Ends PROVE pipe'[x] \in Seq(Byte) /\ Way(x)'
  <2>1. PICK s, fr, o, i, P, p, g, mi, mo, ct : Seen(x, s, fr, o, i, P, p, g, mi, mo, ct)
    BY WaySeen, Zenon DEF IsSeen
  <2>2. /\ s = script[x] /\ fr = (script.proto >= 30) /\ o = out[x] /\ i = in[Peer(x)] /\ P = pipe[x]
        /\ p = pending[Peer(x)] /\ g = got[Peer(x)] /\ mi = muxin[Peer(x)] /\ mo = muxout[x] /\ ct = cut
        /\ fr \in BOOLEAN /\ mi \in BOOLEAN /\ mo \in BOOLEAN
        /\ Script(s) /\ Direction(s, fr, o, i, P, p, g, mi, mo, ct)
    BY <2>1, Zenon DEF Seen
  <2>3. PICK n \in 0..Len(P) : pipe'[x] = SubSeq(P, 1, n) BY <1>3, <2>2, Zenon
  <2>4. Direction(s, fr, o, i, SubSeq(P, 1, n), p, g, mi, mo, TRUE)
    <3>1. Direction(s, fr, o, i, P, p, g, mi, mo, FALSE) BY <1>1, <2>2, Zenon
    <3>2. fr \in BOOLEAN /\ mi \in BOOLEAN /\ mo \in BOOLEAN /\ Script(s) BY <2>2, Zenon
    <3> QED BY <3>1, <3>2, DirectionCut, ZenonT(60)
  <2>5. SubSeq(P, 1, n) \in Seq(Byte) BY <2>4, Zenon DEF Direction
  <2>6. /\ script' = script /\ out' = out /\ in' = in /\ pending' = pending /\ got' = got
        /\ muxin' = muxin /\ muxout' = muxout
    BY <1>1
  <2> QED BY <1>1, <2>2, <2>3, <2>4, <2>5, <2>6, Zenon DEF Way
<1>5. Typed'
  <2>1. pipe' \in [Ends -> Seq(Byte)]
    <3>1. DOMAIN pipe' = Ends /\ pipe' = [e \in Ends |-> pipe'[e]] BY <1>2
    <3> QED BY <1>4, <3>1
  <2> QED BY <1>1, <2>1 DEF WireInv, Typed
<1>6. Kept' BY <1>1 DEF WireInv, Kept
<1> QED BY <1>4, <1>5, <1>6 DEF WireInv

\* A program gives up, or nothing happens.
LEMMA StillStep == ASSUME WireInv, UNCHANGED vars \/ (\E e \in Ends : Fail(e)) PROVE WireInv'
<1>1. UNCHANGED <<script, out, muxout, muxin, pending, in, got, values, prev, pipe, cut>>
  BY DEF vars, Fail, wr, rd
<1>2. Typed' BY <1>1 DEF WireInv, Typed
<1>3. Kept' BY <1>1 DEF WireInv, Kept
<1>4. ASSUME NEW x \in Ends PROVE Way(x)' BY <1>1 DEF WireInv, Way
<1> QED BY <1>2, <1>3, <1>4 DEF WireInv

\* Every step keeps the invariant.
LEMMA WireStep == WireInv /\ [Next]_vars => WireInv'
<1> SUFFICES ASSUME WireInv, [Next]_vars PROVE WireInv' OBVIOUS
<1>1. CASE UNCHANGED vars BY <1>1, StillStep
<1>2. CASE Cut BY <1>2, CutStep
<1>3. ASSUME NEW e \in Ends, WriterStep(e) PROVE WireInv'
  BY <1>3, WriteStep, EnableOutStep, Zenon DEF WriterStep
<1>4. ASSUME NEW e \in Ends, Message(e) PROVE WireInv' BY <1>4, MessageStep
<1>5. ASSUME NEW e \in Ends, ReaderStep(e) PROVE WireInv'
  BY <1>5, EnableInStep, ReadHeaderStep, ReadSomeStep, FinishStep, StillStep, Zenon DEF ReaderStep
<1> QED BY <1>1, <1>2, <1>3, <1>4, <1>5, Zenon DEF Next

\* In either direction the bytes of the items written are those read, those of the item
\* being read, those under way as they are and those in the frames under way, in that order;
\* both ends keep the index before the place they are at; and what has been read are the values
\* written (io/multiplex.rs and io/varint.rs, over main.rs's switch to frames).
THEOREM WireInvHolds == Spec => []WireInv
  BY WireInit, WireStep, PTL DEF Spec

\* The previous indices a reader and a writer keep are the last ones among the items they
\* have read and written: both ends code indices against the same one, for any script.
THEOREM IndexInStepHolds == Spec => []IndexInStep
<1>1. WireInv => IndexInStep
  <2> SUFFICES ASSUME WireInv, NEW e \in Ends
               PROVE  /\ prev[e].read = Last(SubSeq(script[Peer(e)], 1, in[e]))
                      /\ prev[e].write = Last(SubSeq(script[e], 1, out[e]))
    BY Zenon DEF IndexInStep
  <2>1. prev = [x \in Ends |-> [read  |-> LastAt(script[Peer(x)], in[x]),
                                write |-> LastAt(script[x], out[x])]]
    BY DEF WireInv, Kept
  <2>2. prev[e].read = LastAt(script[Peer(e)], in[e]) /\ prev[e].write = LastAt(script[e], out[e])
    BY <2>1
  <2> QED BY <2>2, Zenon DEF LastAt
<1> QED BY <1>1, WireInvHolds, PTL

-----------------------------------------------------------------------------
(* A framed stream is whole frames.                                        *)

\* Where the frame after the one at i begins.
After(s, i) == i + 4 + HeaderLen(Drop(s, i - 1))

\* From i on there are whole frames if there are from the next frame on.
WholeStep(v, s, i) ==
    \/ i = Len(s) + 1
    \/ i + 3 <= Len(s) /\ After(s, i) <= Len(s) + 1 /\ v[After(s, i)]

\* Every frame that begins within s ends behind its beginning.
LEMMA AfterMore ==
    ASSUME NEW s \in Seq(Byte), NEW i \in 1..(Len(s) + 1), i + 3 <= Len(s)
    PROVE  After(s, i) \in Nat /\ i < After(s, i)
<1>1. PICK h : h = Drop(s, i - 1) OBVIOUS
<1>2. i - 1 \in Nat /\ i - 1 <= Len(s) OBVIOUS
<1>3. h \in Seq(Byte) /\ Len(h) = Len(s) - (i - 1)
  <2>1. IsDrop(h, s, i - 1) BY <1>1, <1>2, DropIs, Zenon
  <2> QED BY <2>1, Zenon DEF IsDrop
<1>4. 1 \in 1..Len(h) /\ 2 \in 1..Len(h) /\ 3 \in 1..Len(h) BY <1>3
<1>5. h[1] \in Byte /\ h[2] \in Byte /\ h[3] \in Byte BY <1>3, <1>4
<1>6. PICK a, b, c : a = h[1] /\ b = h[2] /\ c = h[3] OBVIOUS
<1>8. a \in Nat /\ b \in Nat /\ c \in Nat
  <2>1. a \in Byte /\ b \in Byte /\ c \in Byte BY <1>5, <1>6
  <2> QED BY <2>1, ByteRange
<1>7. HeaderLen(h) \in Nat
  <2>1. a + 256 * b + 65536 * c \in Nat BY <1>8, SMT
  <2> QED BY <1>6, <2>1, SMT DEF HeaderLen
<1> QED BY <1>1, <1>2, <1>7, SMT DEF After

\* There is a function that tells from where on there are whole frames.
LEMMA WholeExists ==
    ASSUME NEW s \in Seq(Byte)
    PROVE  \E v : v = [i \in 1..(Len(s) + 1) |-> WholeStep(v, s, i)]
<1> DEFINE D == 1..(Len(s) + 1)
           Shut(K) == /\ Len(s) + 1 \in K
                      /\ \A i \in D : i + 3 <= Len(s) /\ After(s, i) \in K => i \in K
           W == {i \in D : \A K \in SUBSET D : Shut(K) => i \in K}
<1>0. Len(s) \in Nat OBVIOUS
<1>1. Len(s) + 1 \in D BY <1>0
<1>2. PICK v : v = [i \in D |-> i \in W] OBVIOUS
<1>3. \A i \in D : i + 3 <= Len(s) => (After(s, i) <= Len(s) + 1 <=> After(s, i) \in D)
  BY <1>0, AfterMore
<1>4. \A i \in D : v[i] <=> i \in W BY <1>2, Zenon
<1> HIDE DEF D
<1>5. ASSUME NEW i \in D PROVE WholeStep(v, s, i) <=> (i = Len(s) + 1 \/ (i + 3 <= Len(s) /\ After(s, i) \in W))
  <2>1. \A j \in W : j \in D OBVIOUS
  <2>2. i + 3 <= Len(s) => (After(s, i) <= Len(s) + 1 <=> After(s, i) \in D) BY <1>3
  <2> HIDE DEF W
  <2>3. CASE i + 3 <= Len(s) /\ After(s, i) \in D
    <3>1. v[After(s, i)] <=> After(s, i) \in W BY <1>4, <2>3, Zenon
    <3> QED BY <2>2, <2>3, <3>1, Zenon DEF WholeStep
  <2>4. CASE ~(i + 3 <= Len(s) /\ After(s, i) \in D)
    BY <2>1, <2>2, <2>4, Zenon DEF WholeStep
  <2> QED BY <2>3, <2>4
<1>6. ASSUME NEW i \in D, i = Len(s) + 1 \/ (i + 3 <= Len(s) /\ After(s, i) \in W) PROVE i \in W
  <2>1. ASSUME NEW K \in SUBSET D, Shut(K) PROVE i \in K
    <3>1. CASE i = Len(s) + 1 BY <2>1, <3>1, Zenon
    <3>2. CASE i + 3 <= Len(s) /\ After(s, i) \in W
      <4>1. After(s, i) \in K BY <2>1, <3>2, Zenon
      <4> QED BY <2>1, <3>2, <4>1, Zenon
    <3> QED BY <1>6, <3>1, <3>2
  <2> QED BY <2>1, Zenon
<1>7. ASSUME NEW i \in W PROVE i = Len(s) + 1 \/ (i + 3 <= Len(s) /\ After(s, i) \in W)
  <2> SUFFICES ASSUME ~(i = Len(s) + 1 \/ (i + 3 <= Len(s) /\ After(s, i) \in W)) PROVE FALSE OBVIOUS
  <2>1. PICK K : K = {j \in W : j # i} OBVIOUS
  <2>2. K \in SUBSET D BY <2>1, Zenon
  <2>3. \A j : j \in K <=> j \in W /\ j # i BY <2>1, Zenon
  <2>4. Len(s) + 1 \in K
    <3>1. Len(s) + 1 \in W BY <1>1, <1>6, Zenon
    <3> QED BY <2>3, <3>1, Zenon
  <2>5. ASSUME NEW j \in D, j + 3 <= Len(s), After(s, j) \in K PROVE j \in K
    <3>1. After(s, j) \in W BY <2>3, <2>5, Zenon
    <3>2. j \in W BY <1>6, <2>5, <3>1, Zenon
    <3>3. j # i BY <2>5, <3>1, Zenon
    <3> QED BY <2>3, <3>2, <3>3, Zenon
  <2>6. Shut(K) BY <2>4, <2>5, Zenon
  <2>7. i \in K BY <2>2, <2>6, Zenon
  <2> QED BY <2>3, <2>7, Zenon
<1> HIDE DEF W
<1>8. ASSUME NEW i \in D PROVE (i \in W) = WholeStep(v, s, i)
  <2>2. i \in W <=> WholeStep(v, s, i) BY <1>5, <1>6, <1>7, Zenon
  <2>3. CASE i \in W
    <3>1. (i \in W) = TRUE BY <2>3
    <3>2. WholeStep(v, s, i) = TRUE BY <2>2, <2>3 DEF WholeStep
    <3> QED BY <3>1, <3>2
  <2>4. CASE i \notin W
    <3>1. (i \in W) = FALSE BY <2>4
    <3>2. WholeStep(v, s, i) = FALSE BY <2>2, <2>4 DEF WholeStep
    <3> QED BY <3>1, <3>2
  <2> QED BY <2>3, <2>4
<1>9. v = [i \in D |-> WholeStep(v, s, i)] BY <1>2, <1>8, Zenon
<1> QED BY <1>9 DEF D

\* Taking off a first part and then another.
LEMMA DropTwice ==
    ASSUME NEW s \in Seq(Byte), NEW m \in Nat, NEW n \in Nat, m + n <= Len(s)
    PROVE  Drop(Drop(s, m), n) = Drop(s, m + n)
<1>1. PICK a, b, c : a = Drop(s, m) /\ b = Drop(a, n) /\ c = Drop(s, m + n) OBVIOUS
<1>2. a \in Seq(Byte) /\ Len(a) = Len(s) - m /\ \A j \in 1..(Len(s) - m) : a[j] = s[m + j]
  <2>1. m <= Len(s) OBVIOUS
  <2>2. IsDrop(a, s, m) BY <1>1, <2>1, DropIs, Zenon
  <2> QED BY <2>2, Zenon DEF IsDrop
<1>3. b \in Seq(Byte) /\ Len(b) = Len(a) - n /\ \A j \in 1..(Len(a) - n) : b[j] = a[n + j]
  <2>1. n <= Len(a) BY <1>2
  <2>2. IsDrop(b, a, n) BY <1>1, <1>2, <2>1, DropIs, Zenon
  <2> QED BY <2>2, Zenon DEF IsDrop
<1>4. c \in Seq(Byte) /\ Len(c) = Len(s) - (m + n) /\ \A j \in 1..(Len(s) - (m + n)) : c[j] = s[(m + n) + j]
  <2>1. m + n \in Nat OBVIOUS
  <2>2. IsDrop(c, s, m + n) BY <1>1, <2>1, DropIs, Zenon
  <2> QED BY <2>2, Zenon DEF IsDrop
<1>5. Len(b) = Len(c) BY <1>2, <1>3, <1>4
<1>6. ASSUME NEW j \in 1..Len(b) PROVE b[j] = c[j]
  <2>1. b[j] = a[n + j] /\ n + j \in 1..(Len(s) - m) BY <1>2, <1>3
  <2>2. a[n + j] = s[m + (n + j)] BY <1>2, <2>1
  <2>3. c[j] = s[(m + n) + j] BY <1>4, <1>5
  <2>4. m + (n + j) = (m + n) + j OBVIOUS
  <2> QED BY <2>1, <2>2, <2>3, <2>4
<1>7. b = c BY <1>3, <1>4, <1>5, <1>6, SameSeq, Zenon
<1> QED BY <1>1, <1>7

\* What is left of s behind its first n bytes is h and then t.
SplitAt(s, n, h, t) ==
    /\ n + Len(h) <= Len(s) /\ Drop(s, n + Len(h)) = t /\ Begins(Drop(s, n), h)

\* If h and then t is left, then t is left behind h.
LEMMA DropSplits ==
    ASSUME NEW s \in Seq(Byte), NEW n \in Nat, n <= Len(s), NEW h \in Seq(Byte), NEW t \in Seq(Byte),
           Drop(s, n) = h \o t
    PROVE  SplitAt(s, n, h, t)
<1>1. PICK d : d = Drop(s, n) OBVIOUS
<1>2. d \in Seq(Byte) /\ Len(d) = Len(s) - n
  <2>1. IsDrop(d, s, n) BY <1>1, DropIs, Zenon
  <2> QED BY <2>1, Zenon DEF IsDrop
<1>3. /\ Len(d) = Len(h) + Len(t) /\ \A j \in 1..Len(h) : d[j] = h[j]
      /\ \A j \in 1..Len(t) : d[Len(h) + j] = t[j]
  <2>1. IsJoin(d, h, t) BY <1>1, JoinIs, Zenon
  <2> QED BY <2>1, Zenon DEF IsJoin
<1>4. PICK m \in Nat : m = Len(h) OBVIOUS
<1>5. n + m <= Len(s) BY <1>2, <1>3, <1>4
<1>6. Drop(d, m) = t
  <2>1. PICK q : q = Drop(d, m) OBVIOUS
  <2>2. m <= Len(d) BY <1>3, <1>4
  <2>3. q \in Seq(Byte) /\ Len(q) = Len(d) - m /\ \A j \in 1..(Len(d) - m) : q[j] = d[m + j]
    <3>1. IsDrop(q, d, m) BY <1>2, <2>1, <2>2, DropIs, Zenon
    <3> QED BY <3>1, Zenon DEF IsDrop
  <2>4. Len(q) = Len(t) BY <1>3, <1>4, <2>3
  <2>5. \A j \in 1..Len(t) : q[j] = t[j] BY <1>3, <1>4, <2>3, <2>4
  <2>6. q = t BY <2>3, <2>4, <2>5, SameSeq
  <2> QED BY <2>1, <2>6
<1>7. Drop(s, n + m) = t
  <2>1. Drop(Drop(s, n), m) = Drop(s, n + m) BY <1>5, DropTwice, Zenon
  <2> QED BY <1>1, <1>6, <2>1, Zenon
<1>8. Begins(Drop(s, n), h) BY <1>1, <1>3, Zenon DEF Begins
<1> QED BY <1>4, <1>5, <1>7, <1>8, Zenon DEF SplitAt

\* A framed stream is whole frames.
LEMMA FramedWhole ==
    ASSUME NEW F, NEW B, Framed(F, B)
    PROVE  WholeFrames(F)
<1>1. F \in Seq(Byte) BY FramedTyped, Zenon
<1>2. PICK L \in Nat : L = Len(F) BY <1>1
<1> DEFINE body(v, i) == \/ i = Len(F) + 1
                         \/ LET next == i + 4 + HeaderLen(Drop(F, i - 1))
                            IN  i + 3 <= Len(F) /\ next <= Len(F) + 1 /\ v[next]
           f == CHOOSE v : v = [i \in 1..(Len(F) + 1) |-> body(v, i)]
<1>3. WholeFrames(F) = f[1] BY Zenon DEF WholeFrames
<1>4. ASSUME NEW v, NEW i PROVE body(v, i) = WholeStep(v, F, i)
  BY Zenon DEF WholeStep, After
<1>5. PICK v : v = [i \in 1..(Len(F) + 1) |-> WholeStep(v, F, i)] BY <1>1, WholeExists
<1> HIDE DEF body
<1>6. v = [i \in 1..(Len(F) + 1) |-> body(v, i)] BY <1>4, <1>5, Zenon
<1>7. f = [i \in 1..(Len(F) + 1) |-> body(f, i)] BY <1>6, Zenon
<1> HIDE DEF f
<1>8. \A i \in 1..(Len(F) + 1) : f[i] = WholeStep(f, F, i)
  <2> TAKE i \in 1..(Len(F) + 1)
  <2>1. f[i] = body(f, i) BY <1>7, Zenon
  <2> QED BY <1>4, <2>1, Zenon
\* The places of frames, counted from the end, at which f does not hold.
<1> DEFINE T == {m \in Nat : \E i \in 1..(L + 1) : /\ m = L + 1 - i /\ ~f[i]
                                                   /\ \E b : Framed(Drop(F, i - 1), b)}
<1>9. T = {}
  <2> SUFFICES ASSUME T # {} PROVE FALSE OBVIOUS
  <2>0. T \in SUBSET Nat OBVIOUS
  <2> HIDE DEF T
  <2>1. PICK m \in T : \A y \in T : m <= y BY <2>0, LeastNatural
  <2>2. PICK i, b : i \in 1..(L + 1) /\ m = L + 1 - i /\ ~f[i] /\ Framed(Drop(F, i - 1), b)
    <3>1. m \in T OBVIOUS
    <3> QED BY <3>1, Zenon DEF T
  <2>3. PICK n \in Nat : n = i - 1 /\ n <= L /\ n + 1 = i BY <1>2, <2>2
  <2>4. i # L + 1
    <3> SUFFICES ASSUME i = L + 1 PROVE FALSE OBVIOUS
    <3>1. i \in 1..(Len(F) + 1) /\ i = Len(F) + 1 BY <1>2
    <3>2. WholeStep(f, F, i) BY <3>1, Zenon DEF WholeStep
    <3> QED BY <1>8, <2>2, <3>1, <3>2, Zenon
  <2>5. Drop(F, n) \in Seq(Byte) /\ Len(Drop(F, n)) = L - n
    <3>1. IsDrop(Drop(F, n), F, n) BY <1>1, <1>2, <2>3, DropIs, Zenon
    <3> QED BY <1>2, <3>1, Zenon DEF IsDrop
  <2>6. Drop(F, n) # <<>>
    <3> SUFFICES ASSUME Drop(F, n) = <<>> PROVE FALSE OBVIOUS
    <3>1. Len(<<>>) = 0 OBVIOUS
    <3>2. L - n = 0 BY <2>5, <3>1
    <3> QED BY <2>3, <2>4, <3>2
  <2>7. PICK code, t, F2, B2 : FirstFrame(Drop(F, n), b, code, t, F2, B2)
    BY <2>2, <2>3, <2>6, FramedFirst, Zenon DEF HasFirst
  <2>8. /\ code \in MsgCodes /\ Fits(t) /\ Framed(F2, B2)
        /\ Drop(F, n) = Frame(code, t) \o F2
    BY <2>7, Zenon DEF FirstFrame
  <2>9. t \in Seq(Byte) /\ F2 \in Seq(Byte) BY <2>8, FramedTyped, Zenon DEF Fits
  <2>10. PICK h : h = Header(code, Len(t)) OBVIOUS
  <2>11. /\ h \in Seq(Byte) /\ Len(h) = 4
         /\ \A x : (\A j \in 1..4 : x[j] = h[j]) => HeaderCode(x) = code /\ HeaderLen(x) = Len(t)
    BY <2>8, <2>10, HeaderIs, Zenon
  <2>12. Frame(code, t) \in Seq(Byte) /\ Len(Frame(code, t)) = 4 + Len(t) BY <2>8, FrameIs, Zenon
  <2>13. SplitAt(F, n, Frame(code, t), F2) BY <1>1, <1>2, <2>3, <2>8, <2>9, <2>12, DropSplits, Zenon
  <2>14. HeaderLen(Drop(F, n)) = Len(t)
    <3>1. Drop(F, n) = h \o (t \o F2)
      <4>1. Regroups(h, t, F2) BY <2>9, <2>11, Assoc, Zenon
      <4> QED BY <2>8, <2>10, <4>1, Zenon DEF Regroups, Frame
    <3>2. t \o F2 \in Seq(Byte) BY <2>9, JoinTyped, Zenon
    <3>3. SplitAt(F, n, h, t \o F2) BY <1>1, <1>2, <2>3, <2>11, <3>1, <3>2, DropSplits, Zenon
    <3>4. \A j \in 1..4 : Drop(F, n)[j] = h[j] BY <2>11, <3>3, Zenon DEF SplitAt, Begins
    <3> QED BY <2>11, <3>4, Zenon
  <2>15. PICK k \in Nat : k = Len(t) BY <2>9
  <2>16. n + (4 + k) <= L /\ Drop(F, n + (4 + k)) = F2
    BY <1>2, <2>12, <2>13, <2>15, Zenon DEF SplitAt
  <2>17. PICK j : j = After(F, i) OBVIOUS
  <2>18. j = i + 4 + k BY <2>3, <2>14, <2>15, <2>17 DEF After
  <2>19. j \in 1..(L + 1) /\ j - 1 = n + (4 + k) /\ L + 1 - j \in Nat /\ L + 1 - j < m
    BY <2>2, <2>3, <2>16, <2>18
  <2>20. ~f[j]
    <3>1. i + 3 <= Len(F) /\ j <= Len(F) + 1 /\ i \in 1..(Len(F) + 1) BY <1>2, <2>3, <2>16, <2>19
    <3>2. f[j] => WholeStep(f, F, i) BY <2>17, <3>1, Zenon DEF WholeStep
    <3> QED BY <1>8, <2>2, <3>1, <3>2, Zenon
  <2>21. Framed(Drop(F, j - 1), B2) BY <2>8, <2>16, <2>19, Zenon
  <2>22. L + 1 - j \in T BY <2>19, <2>20, <2>21, Zenon DEF T
  <2>23. m <= L + 1 - j BY <2>1, <2>22
  <2> QED BY <2>2, <2>19, <2>23
<1>10. 1 \in 1..(L + 1) /\ L + 1 - 1 \in Nat OBVIOUS
<1>11. Drop(F, 1 - 1) = F BY <1>1 DEF Drop
<1>12. f[1]
  <2> SUFFICES ASSUME ~f[1] PROVE FALSE OBVIOUS
  <2>1. L + 1 - 1 \in T BY <1>10, <1>11, Zenon
  <2> QED BY <1>9, <2>1
<1> QED BY <1>3, <1>12, Zenon

\* A framed direction that is not broken: what is left of a frame, and then frames.
LeavesFrames(o, i, P, p, g) ==
    /\ p <= Len(P) /\ WholeFrames(Drop(P, p))
    /\ i = o /\ g = <<>> => p = 0

\* Such a direction leaves frames.
LEMMA DirectionFrames ==
    ASSUME NEW items, Script(items), NEW fr \in BOOLEAN, NEW o, NEW i, NEW P, NEW p, NEW g,
           NEW mi \in BOOLEAN, NEW mo \in BOOLEAN, Direction(items, fr, o, i, P, p, g, mi, mo, FALSE), mi
    PROVE  LeavesFrames(o, i, P, p, g)
<1>1. P \in Seq(Byte) /\ p \in Nat BY Zenon DEF Direction
<1>2. Stands(items, o, i, mi, mo) /\ Opens(items, o, i, P, p, g, mi, mo, FALSE)
  BY DirectionOpens, Zenon
<1>3. PICK S, pos, R, a, F : Opened(items, S, pos, R, a, F, o, i, P, p, g, mi, mo, FALSE)
  BY <1>2, Zenon DEF Opens
<1>4. /\ R \in Nat /\ a \in Nat /\ F \in Seq(Byte)
      /\ R + a <= pos[o] /\ (i >= o => R = pos[i]) /\ Framed(F, Part(S, R + a, pos[o]))
      /\ Ahead(P, S, R, a, F, FALSE) /\ a = p
  BY <1>3, Zenon DEF Opened, Flow
<1>5. Len(P) = a + Len(F) /\ \A j \in 1..Len(P) : P[j] = IF j <= a THEN S[R + j] ELSE F[j - a]
  BY <1>4, Zenon DEF Ahead
<1>6. p <= Len(P) BY <1>4, <1>5
<1>7. Drop(P, p) = F
  <2>1. PICK q : q = Drop(P, p) OBVIOUS
  <2>2. q \in Seq(Byte) /\ Len(q) = Len(P) - p /\ \A j \in 1..(Len(P) - p) : q[j] = P[p + j]
    <3>1. IsDrop(q, P, p) BY <1>1, <1>6, <2>1, DropIs, Zenon
    <3> QED BY <3>1, Zenon DEF IsDrop
  <2>3. Len(q) = Len(F) BY <1>4, <1>5, <2>2
  <2>4. ASSUME NEW j \in 1..Len(F) PROVE q[j] = F[j]
    <3>1. q[j] = P[p + j] BY <1>4, <1>5, <2>2, <2>3
    <3>2. p + j \in 1..Len(P) /\ ~(p + j <= a) /\ (p + j) - a = j BY <1>4, <1>5
    <3>3. P[p + j] = F[(p + j) - a] BY <1>5, <3>2, Zenon
    <3> QED BY <3>1, <3>2, <3>3, Zenon
  <2>5. q = F BY <1>4, <2>2, <2>3, <2>4, SameSeq, Zenon
  <2> QED BY <2>1, <2>5
<1>8. WholeFrames(Drop(P, p)) BY <1>4, <1>7, FramedWhole, Zenon
<1>9. i = o => p = 0
  <2> SUFFICES ASSUME i = o PROVE p = 0 OBVIOUS
  <2>1. o \in Nat BY <1>2, Zenon DEF Stands
  <2>2. i >= o BY <2>1
  <2>3. R = pos[o] BY <1>4, <2>2, Zenon
  <2>4. R + a <= R BY <1>4, <2>3, Zenon
  <2> QED BY <1>4, <2>4
<1> QED BY <1>6, <1>8, <1>9, Zenon DEF LeavesFrames

\* A reader's count of pending bytes ends where a frame ends, and behind it there are
\* whole frames, for frames of any size, any messages between them and reads of any length.
THEOREM FramesKeptHolds == Spec => []FramesKept
<1>1. WireInv => FramesKept
  <2> SUFFICES ASSUME WireInv PROVE FramesKept OBVIOUS
  <2>1. ASSUME NEW e \in Ends, ~cut, muxin[e]
        PROVE  LeavesFrames(out[Peer(e)], in[e], pipe[Peer(e)], pending[e], got[e])
    <3>0. Peer(e) \in Ends BY PeerFacts
    <3>1. PICK s, fr, o, i, P, p, g, mi, mo, ct : Seen(Peer(e), s, fr, o, i, P, p, g, mi, mo, ct)
      BY <3>0, WaySeen, Zenon DEF IsSeen
    <3>2. SeenBy(e, s, fr, o, i, P, p, g, mi, mo, ct) BY <3>1, ReaderSees, Zenon
    <3>3. /\ o = out[Peer(e)] /\ i = in[e] /\ P = pipe[Peer(e)] /\ p = pending[e] /\ g = got[e]
          /\ mi = muxin[e] /\ ct = cut /\ ct \in BOOLEAN
      BY <3>2, Zenon DEF SeenBy
    <3>4. mi /\ ct = FALSE BY <2>1, <3>3, Zenon
    <3>5. /\ Script(s) /\ fr \in BOOLEAN /\ mi \in BOOLEAN /\ mo \in BOOLEAN
          /\ Direction(s, fr, o, i, P, p, g, mi, mo, FALSE)
      BY <3>2, <3>4, Zenon DEF SeenBy
    <3>6. LeavesFrames(o, i, P, p, g) BY <3>4, <3>5, DirectionFrames, Zenon
    <3> QED BY <3>3, <3>6, Zenon
  <2> QED BY <2>1, Zenon DEF FramesKept, LeavesFrames
<1> QED BY <1>1, WireInvHolds, PTL

-----------------------------------------------------------------------------
(* The channels.                                                           *)

\* What e has sent and what has been received of it.
LEMMA ChannelsAre ==
    ASSUME NEW e \in Ends
    PROVE  [x \in Ends |-> Sends(x)][e] = Sends(e) /\ [x \in Ends |-> values[Peer(x)]][e] = values[Peer(e)]
  OBVIOUS

\* A step that neither ends an item written nor one read.
LEMMA NothingSent ==
    ASSUME UNCHANGED <<cut, values>>, \A e \in Ends : Sends(e)' = Sends(e)
    PROVE  UNCHANGED Promised!channels
<1>1. [x \in Ends |-> Sends(x)'] = [x \in Ends |-> Sends(x)] OBVIOUS
<1>2. [x \in Ends |-> values'[Peer(x)]] = [x \in Ends |-> values[Peer(x)]] OBVIOUS
<1> QED BY <1>1, <1>2 DEF Promised!channels

\* An item is written: its value is sent.
LEMMA WriteSends ==
    ASSUME WireInv, NEW e \in Ends, Write(e)
    PROVE  Promised!Send(e)
<1>1. PICK s, fr, o, i, P, p, g, mi, mo, ct : Seen(e, s, fr, o, i, P, p, g, mi, mo, ct)
  BY WaySeen, Zenon DEF IsSeen
<1>2. s = script[e] /\ o = out[e] /\ Script(s) /\ Len(s) \in Nat /\ o \in Nat BY <1>1, Zenon DEF Seen
<1>3. /\ s[o + 1].k # "mux" /\ o < Len(s) /\ out' = [out EXCEPT ![e] = o + 1]
      /\ script' = script /\ cut' = cut /\ values' = values
  BY <1>2 DEF Write, Writing, rd
<1>4. o + 1 \in 1..Len(s) /\ (o + 1) - 1 = o /\ o \in 0..Len(s) BY <1>2, <1>3
<1>5. PICK v : v = s[o + 1].v OBVIOUS
<1>6. ValuesOf(s, o + 1) = Append(ValuesOf(s, o), v) BY <1>2, <1>3, <1>4, <1>5, ValuesAre
<1>7. out \in [Ends -> Nat] BY DEF WireInv, Typed
<1>8. Sends(e) = ValuesOf(s, o) /\ Sends(e)' = Append(ValuesOf(s, o), v)
  <2>1. out'[e] = o + 1 /\ script'[e] = s BY <1>2, <1>3, <1>7
  <2> QED BY <1>2, <1>6, <2>1, Zenon DEF Sends
<1>9. \A x \in Ends : x # e => Sends(x)' = Sends(x)
  <2> TAKE x \in Ends
  <2>1. x # e => out'[x] = out[x] BY <1>3, <1>7
  <2> QED BY <1>3, <2>1, Zenon DEF Sends
<1>10. PICK X, q : q = ValuesOf(s, o) /\ q \in Seq(X) BY <1>2, <1>4, ValuesTyped
<1>11. Len(Append(q, v)) = Len(q) + 1 /\ Append(q, v)[Len(q) + 1] = v
  <2>1. PICK Y : Y = X \cup {v} OBVIOUS
  <2>2. q \in Seq(Y) /\ v \in Y BY <1>10, <2>1
  <2> QED BY <2>2
<1> DEFINE sent == [x \in Ends |-> Sends(x)]
           next == [x \in Ends |-> Sends(x)']
<1>12. sent[e] = q /\ next[e] = Append(q, v) BY <1>8, <1>10
<1>13. next = [sent EXCEPT ![e] = Append(q, v)] BY <1>8, <1>9, <1>10
<1> HIDE DEF sent, next
<1>14. Len(next[e]) = Len(sent[e]) + 1 BY <1>11, <1>12, Zenon
<1>15. next = [sent EXCEPT ![e] = Append(sent[e], next[e][Len(sent[e]) + 1])]
  BY <1>11, <1>12, <1>13, Zenon
<1>16. [x \in Ends |-> values'[Peer(x)]] = [x \in Ends |-> values[Peer(x)]] BY <1>3
<1> QED BY <1>3, <1>14, <1>15, <1>16 DEF Promised!Send, sent, next

\* The switch to frames has no value.
LEMMA EnableOutSends ==
    ASSUME WireInv, NEW e \in Ends, EnableOut(e)
    PROVE  UNCHANGED Promised!channels
<1>1. PICK s, fr, o, i, P, p, g, mi, mo, ct : Seen(e, s, fr, o, i, P, p, g, mi, mo, ct)
  BY WaySeen, Zenon DEF IsSeen
<1>2. s = script[e] /\ o = out[e] /\ Script(s) /\ Len(s) \in Nat /\ o \in Nat BY <1>1, Zenon DEF Seen
<1>3. /\ s[o + 1].k = "mux" /\ o < Len(s) /\ out' = [out EXCEPT ![e] = o + 1]
      /\ script' = script /\ cut' = cut /\ values' = values
  BY <1>2 DEF EnableOut, Writing, rd
<1>4. o + 1 \in 1..Len(s) /\ (o + 1) - 1 = o BY <1>2, <1>3
<1>5. ValuesOf(s, o + 1) = ValuesOf(s, o) BY <1>2, <1>3, <1>4, ValuesAre
<1>6. out \in [Ends -> Nat] BY DEF WireInv, Typed
<1>7. ASSUME NEW x \in Ends PROVE Sends(x)' = Sends(x)
  <2>1. CASE x = e
    <3>1. out'[e] = o + 1 /\ script'[e] = s BY <1>2, <1>3, <1>6
    <3> QED BY <1>2, <1>5, <2>1, <3>1, Zenon DEF Sends
  <2>2. CASE x # e
    <3>1. out'[x] = out[x] BY <1>3, <1>6, <2>2
    <3> QED BY <1>3, <3>1, Zenon DEF Sends
  <2> QED BY <2>1, <2>2
<1> QED BY <1>3, <1>7, NothingSent

\* An item is read: its value, which the peer has sent next, is received.
LEMMA FinishReceives ==
    ASSUME WireInv, NEW e \in Ends, Finish(e)
    PROVE  Promised!Receive(Peer(e))
<1>0. Peer(e) \in Ends /\ Peer(Peer(e)) = e /\ \A x \in Ends : Peer(x) \in Ends /\ (Peer(x) = e => x = Peer(e))
  BY PeerFacts
<1>1. PICK s, fr, o, i, P, p, g, mi, mo, ct : Seen(Peer(e), s, fr, o, i, P, p, g, mi, mo, ct)
  BY <1>0, WaySeen, Zenon DEF IsSeen
<1>2. SeenBy(e, s, fr, o, i, P, p, g, mi, mo, ct) BY <1>1, ReaderSees, Zenon
<1>3. /\ s = script[Peer(e)] /\ o = out[Peer(e)] /\ i = in[e] /\ g = got[e]
      /\ Script(s) /\ Len(s) \in Nat /\ i \in Nat
      /\ fr \in BOOLEAN /\ mi \in BOOLEAN /\ mo \in BOOLEAN
      /\ Direction(s, fr, o, i, P, p, g, mi, mo, ct)
      /\ prev[e].read = LastAt(s, i) /\ values[e] = ValuesOf(s, i)
  BY <1>2, Zenon DEF SeenBy
<1>4. PICK it : it = s[i + 1] OBVIOUS
<1>5. i < Len(s) /\ it.k # "mux" /\ Needed(it, g) = 0
  <2>1. Reading(e) /\ Reads(e).k # "mux" /\ Wants(e) = 0 BY DEF Finish
  <2>2. Wants(e) = Needed(Reads(e), got[e]) BY <2>1, Zenon DEF Wants
  <2> QED BY <1>3, <1>4, <2>1, <2>2, Zenon DEF Reading, Reads
<1>6. i < o /\ Value(it, LastAt(s, i), g) = it.v
  <2>1. /\ i < Len(s) /\ s[i + 1].k # "mux" /\ Needed(s[i + 1], g) = 0
        /\ Script(s) /\ fr \in BOOLEAN /\ mi \in BOOLEAN /\ mo \in BOOLEAN
        /\ Direction(s, fr, o, i, P, p, g, mi, mo, ct)
    BY <1>3, <1>4, <1>5, Zenon
  <2>2. Finishes(s, fr, o, i, P, p, g, mi, mo, ct) BY <2>1, DirectionFinish, Zenon
  <2> QED BY <1>4, <2>2, Zenon DEF Finishes
<1>7. values' = [values EXCEPT ![e] = Append(ValuesOf(s, i), it.v)]
  <2>1. values' = [values EXCEPT ![e] = Append(values[e], Value(it, LastAt(s, i), g))]
    BY <1>3, <1>4, Zenon DEF Finish, Reads
  <2> QED BY <1>3, <1>6, <2>1, Zenon
<1>8. UNCHANGED <<script, out, cut>> BY DEF Finish, wr
<1>9. o \in 0..Len(s)
  <2>1. o \in 0..Len(s) BY <1>3, DirectionTyped, Zenon
  <2> QED BY <2>1
<1>10. PICK q, r : q = ValuesOf(s, i) /\ r = ValuesOf(s, o) OBVIOUS
<1>11. Len(q) < Len(r) /\ r[Len(q) + 1] = it.v
  <2>1. i + 1 \in 1..Len(s) /\ o \in (i + 1)..Len(s) /\ (i + 1) - 1 = i BY <1>3, <1>5, <1>6, <1>9
  <2>2. s[i + 1].k # "mux" BY <1>4, <1>5
  <2>3. /\ Len(ValuesOf(s, (i + 1) - 1)) < Len(ValuesOf(s, o))
        /\ ValuesOf(s, o)[Len(ValuesOf(s, (i + 1) - 1)) + 1] = s[i + 1].v
    BY <1>3, <2>1, <2>2, ValuesAhead
  <2> QED BY <1>4, <1>10, <2>1, <2>3, Zenon
<1> DEFINE sent == [x \in Ends |-> Sends(x)]
           received == [x \in Ends |-> values[Peer(x)]]
           next == [x \in Ends |-> values'[Peer(x)]]
<1>12. sent[Peer(e)] = r /\ received[Peer(e)] = q
  BY <1>0, <1>3, <1>10 DEF Sends
<1>13. next = [received EXCEPT ![Peer(e)] = Append(q, it.v)]
  <2>1. values = [x \in Ends |-> ValuesOf(script[Peer(x)], in[x])] BY DEF WireInv, Kept
  <2>2. \A x \in Ends : values'[Peer(x)] = IF x = Peer(e) THEN Append(q, it.v) ELSE values[Peer(x)]
    BY <1>0, <1>7, <1>10, <2>1
  <2> QED BY <1>0, <2>2
<1>14. [x \in Ends |-> Sends(x)'] = sent
  <2>1. \A x \in Ends : Sends(x)' = Sends(x) BY <1>8, Zenon DEF Sends
  <2> QED BY <2>1
<1> HIDE DEF sent, received, next
<1>15. Len(received[Peer(e)]) < Len(sent[Peer(e)]) BY <1>11, <1>12, Zenon
<1>16. next = [received EXCEPT ![Peer(e)] = Append(received[Peer(e)], sent[Peer(e)][Len(received[Peer(e)]) + 1])]
  BY <1>11, <1>12, <1>13, Zenon
<1> QED BY <1>8, <1>14, <1>15, <1>16 DEF Promised!Receive, sent, received, next

\* The safety of what Channels promises: every value written is read as it was written,
\* once and in order, and a broken connection yields nothing that was not written.
THEOREM ChannelsKept == Spec => Promised!Init /\ [][Promised!Next]_(Promised!channels)
<1>1. Init => Promised!Init
  <2> SUFFICES ASSUME Init PROVE Promised!Init OBVIOUS
  <2>1. \A e \in Ends : Sends(e) = <<>>
    <3> TAKE e \in Ends
    <3>1. Script(script[e]) BY ScriptsAre DEF Init
    <3>2. out[e] = 0 BY DEF Init
    <3>3. ValuesOf(script[e], 0) = <<>> BY <3>1, ValuesAre
    <3> QED BY <3>2, <3>3, Zenon DEF Sends
  <2>2. \A e \in Ends : values[Peer(e)] = <<>> BY PeerFacts DEF Init
  <2>3. cut = FALSE BY DEF Init
  <2> QED BY <2>1, <2>2, <2>3 DEF Promised!Init
<1>2. WireInv /\ [Next]_vars => [Promised!Next]_(Promised!channels)
  <2> SUFFICES ASSUME WireInv, [Next]_vars PROVE [Promised!Next]_(Promised!channels) OBVIOUS
  <2>1. ASSUME UNCHANGED <<script, out, values, cut>> PROVE UNCHANGED Promised!channels
    <3>1. \A e \in Ends : Sends(e)' = Sends(e) BY <2>1, Zenon DEF Sends
    <3> QED BY <2>1, <3>1, NothingSent
  <2>2. CASE UNCHANGED vars BY <2>1, <2>2 DEF vars
  <2>3. CASE Cut
    <3>1. \A e \in Ends : Sends(e)' = Sends(e) BY <2>3, Zenon DEF Sends, Cut, wr
    <3>2. ~cut /\ cut' = TRUE /\ values' = values BY <2>3 DEF Cut, rd
    <3>3. [e \in Ends |-> Sends(e)'] = [e \in Ends |-> Sends(e)] BY <3>1
    <3>4. [x \in Ends |-> values'[Peer(x)]] = [x \in Ends |-> values[Peer(x)]] BY <3>2
    <3>5. Promised!Cut BY <3>2, <3>3, <3>4 DEF Promised!Cut
    <3> QED BY <3>5 DEF Promised!Next
  <2>4. ASSUME NEW e \in Ends, WriterStep(e) PROVE [Promised!Next]_(Promised!channels)
    <3>1. CASE Write(e)
      <4>1. Promised!Send(e) BY <3>1, WriteSends
      <4> QED BY <4>1 DEF Promised!Next
    <3>2. CASE EnableOut(e) BY <3>2, EnableOutSends
    <3> QED BY <2>4, <3>1, <3>2 DEF WriterStep
  <2>5. ASSUME NEW e \in Ends, Message(e) PROVE [Promised!Next]_(Promised!channels)
    BY <2>1, <2>5 DEF Message, wr, rd
  <2>6. ASSUME NEW e \in Ends, ReaderStep(e) PROVE [Promised!Next]_(Promised!channels)
    <3>1. CASE Finish(e)
      <4>1. Promised!Receive(Peer(e)) /\ Peer(e) \in Ends BY <3>1, FinishReceives, PeerFacts
      <4> QED BY <4>1 DEF Promised!Next
    <3>2. CASE EnableIn(e) \/ ReadHeader(e) \/ ReadSome(e) \/ Fail(e)
      <4>1. UNCHANGED <<script, out, values, cut>>
        BY <3>2 DEF EnableIn, ReadHeader, ReadSome, Fail, wr, rd
      <4> QED BY <2>1, <4>1
    <3> QED BY <2>6, <3>1, <3>2 DEF ReaderStep
  <2> QED BY <2>2, <2>3, <2>4, <2>5, <2>6 DEF Next
<1> QED BY <1>1, <1>2, WireInvHolds, PTL DEF Spec

=============================================================================
