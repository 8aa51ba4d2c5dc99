------------------------------ MODULE MCDelta ------------------------------
(* Delta for TLC.  Bytes are signed, as checksum1 reads them.  Besides all *)
(* short files there are some long enough for the unrolled loop of         *)
(* checksum1, built from two pieces with the same rolling checksum; the    *)
(* longest is too long for the length of one literal.                      *)
EXTENDS Delta

TwoBytes == {-1, 0}

Short(n) == UNION {[1..m -> TwoBytes] : m \in 0..n}

Twins == {<<-1, 0, 0, -1>>, <<0, -1, -1, 0>>}

Pairs(filler) == {a \o filler \o b : a, b \in Twins}

SomeData  == Short(5) \cup Pairs(<<>>) \cup Pairs(<<0>>) \cup Pairs(<<-1, 0>>)
SomeBases == Short(5) \cup Pairs(<<>>) \cup Pairs(<<0>>) \cup Pairs(<<0, 0>>)
=============================================================================
