------------------------------- MODULE MCWire -------------------------------
(* Small instances of Wire: values at every boundary of the codes, and     *)
(* conversations in which they follow one another.                         *)
EXTENDS Wire

It(kind, S) == {[k |-> kind, v |-> x] : x \in S}
Long(S) == {[k |-> "varlong", mb |-> m, v |-> x] : m \in {3, 4}, x \in S}

\* Around every power of two at which one more byte is written.
Ints == UNION {{2^n - 1, 2^n} : n \in {0, 1, 6, 7, 8, 13, 14, 15, 16, 20, 21, 22, 23, 24,
                                       27, 28, 29, 30}}
         \cup {2147483647, -1, -2, -128, -32768, -2147483647 - 1}

\* The same for eight bytes: a highest byte around the bits spare in the marker,
\* zeros or ones below, zeros above.
Top(n, b, low) == [i \in 1..8 |-> IF i = n THEN b ELSE IF i < n THEN low ELSE 0]
Spare(n) == {1, 127, 128, 255} \cup
            UNION {{2^e - 1, 2^e} : e \in {10 - n, 11 - n} \cap 1..7}
Int64 == {Top(n, b, 255) : n \in 1..8, b \in {127, 128}} \cup {Top(8, 0, 0)}
         \cup UNION {{Top(n, b, 0) : b \in Spare(n)} : n \in 1..8}

Text(n) == [i \in 1..n |-> i % 256]

Single ==
    It("varint", Ints) \cup It("int", Ints) \cup It("longint", Int64) \cup Long(Int64)
    \cup It("byte", {0, 255}) \cup It("shortint", {0, 255, 256, 65535})
    \cup It("vstring", {Text(n) : n \in {0, 1, 127, 128, 130}})

Mux == <<[k |-> "mux"]>>
Ndx(s) == [i \in DOMAIN s |-> [k |-> "ndx", v |-> s[i]]]
Talk(p, c, s, n, b) == [proto |-> p, client |-> c, server |-> s, chatter |-> n, breaks |-> b]

\* One item from the server, framed.
Singles == {Talk(31, <<>>, Mux \o <<x>>, 0, FALSE) : x \in Single}

\* Runs of indices: one byte, two, absolute; down and up again; negative ones.
IndexRuns ==
    {<<0, 1, 254, 255>>, <<253, 507, 762>>, <<5, 5, 4, 40000>>, <<32766, 65534, 98302>>,
     <<-2, 0, -101, -1>>, <<-3, -2, -300, 7>>, <<2147483645, 0, 16777216, 65536>>,
     <<252, -1, 506, -1>>}
Runs == {Talk(30, <<>>, Mux \o Ndx(s), 0, FALSE) : s \in IndexRuns}

\* Requests and their echoes, with a plain beginning or with other items between, and
\* one item in several frames.
Dialogues ==
    {Talk(31, <<[k |-> "int", v |-> 31]>> \o Mux \o Ndx(<<2, 0, -1>>),
              <<[k |-> "vstring", v |-> Text(2)]>> \o Mux \o Ndx(<<2, 0, -1>>), 0, FALSE),
     Talk(30, Mux \o Ndx(<<300, 299>>),
              Mux \o <<[k |-> "ndx", v |-> 300], [k |-> "raw", v |-> <<7, 0, 7>>],
                       [k |-> "ndx", v |-> 299]>>, 0, FALSE),
     Talk(30, <<>>,
              Mux \o <<[k |-> "ndx", v |-> 300], [k |-> "raw", v |-> Text(7)],
                       [k |-> "ndx", v |-> 300]>>, 2, TRUE),
     Talk(30, <<>>,
              <<[k |-> "varint", v |-> 300]>> \o Mux
              \o <<[k |-> "longint", v |-> Top(8, 255, 255)], [k |-> "ndx", v |-> -2]>>, 1, TRUE)}

\* Below 30 nothing is framed in the direction of the server.
Old == {Talk(29, Mux \o <<[k |-> "int", v |-> -1], [k |-> "int", v |-> 300]>>, <<>>, 0, TRUE)}

MCScripts == Singles \cup Runs \cup Dialogues \cup Old

\* A line of text, one whose bytes look like a header, a keep-alive.
MCChatter == {[code |-> 2, text |-> <<104>>], [code |-> 3, text |-> <<1, 0, 0, 7>>],
              [code |-> 0, text |-> <<>>]}

=============================================================================
