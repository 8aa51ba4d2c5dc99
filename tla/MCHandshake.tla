---------------------------- MODULE MCHandshake ----------------------------
(* Small instances of Handshake: the situations.                           *)
EXTENDS Handshake

\* Which options matter to which part: who drains filter rules, who sends a
\* list of compressors, what an entry holds, and which letters the server's
\* command line does not know.
OptionSets ==
    {{}, {"archive", "checksum"}, {"recursive", "owner"}, {"group", "compress"},
     {"archive", "compress", "backup"}, {"archive", "relative", "delete"},
     {"archive", "delete", "compress", "prune_empty_dirs"}, {"archive", "delete"},
     {"times", "update", "hard_links", "ignore_existing"}}

Versions == {<<31, 31>>, <<30, 31>>, <<31, 30>>}
Refused  == {<<31, 19>>, <<19, 31>>, <<41, 31>>, <<31, 41>>}

Situation(d, p, o, m, v) ==
    [daemon |-> d, push |-> p, opts |-> o, module |-> m, cver |-> v[1], sver |-> v[2],
     rules |-> <<>>, readable |-> TRUE]

Shell ==
    {Situation(FALSE, p, o, "ok", v) :
        p \in BOOLEAN, o \in OptionSets, v \in Versions \cup Refused}

Daemon ==
    {Situation(TRUE, p, o, m, v) :
        p \in BOOLEAN, o \in OptionSets, m \in {"ok", "read_only", "unknown", "list"},
        v \in Versions}

\* Pieces of globs over the bytes a and b:  a  b  ?  *  **  [a-b]  [!a]  []]  []-a]  [a-]
Class(not, lo, hi) == Piece("class", not, <<[lo |-> lo, hi |-> hi]>>)
A == Lit(97)
Z == Lit(98)
Pieces == {A, Z, AnyByte, AnyName, AnyPath, Class(FALSE, 97, 98), Class(TRUE, 97, 97), Class(FALSE, 93, 93),
           Class(FALSE, 93, 97), Piece("class", FALSE, <<[lo |-> 97, hi |-> 97], [lo |-> 45, hi |-> 45]>>)}
SlashPiece == Lit(47)

\* Two or three pieces, stars apart from one another, and globs with a slash inside.
Pairs == {<<x, y>> : x, y \in Pieces}
Globs == {g \in Pairs \cup {<<x>> : x \in Pieces}
              \cup {<<g[1], Z, g[2]>> : g \in Pairs}
              \cup {<<g[1], SlashPiece, g[2]>> : g \in Pairs}
              \cup {<<AnyPath, SlashPiece, A>>} :
            \A i \in 1..(Len(g) - 1) : ~(Starred(g[i]) /\ Starred(g[i + 1]))}

Rule(v, inc, g, a, d) == [via |-> v, include |-> inc, glob |-> g, anchored |-> a, dironly |-> d]

\* One rule with each glob; and several, given by options in different orders.
RuleLists ==
    {<<Rule("exclude", FALSE, g, FALSE, FALSE)>> : g \in Globs}
    \cup {<<Rule("filter", FALSE, g, a, d)>> :
             g \in {<<A, AnyName>>, <<AnyName, Z>>, <<A>>, <<A, SlashPiece, Z>>, <<AnyPath, Z>>},
             a, d \in BOOLEAN}
    \cup {<<Rule("exclude", FALSE, <<AnyName>>, FALSE, FALSE), Rule("include", TRUE, g, FALSE, FALSE)>> :
             g \in {<<A>>, <<A, SlashPiece, Z>>, <<AnyPath, Z>>}}
    \cup {<<Rule("include_from", TRUE, <<A, Z>>, FALSE, FALSE),
            Rule("exclude_from", FALSE, <<A, AnyName>>, FALSE, FALSE),
            Rule("filter", inc, <<A, SlashPiece, AnyName>>, FALSE, FALSE)>> : inc \in BOOLEAN}
    \cup {<<Rule("cvs", FALSE, <<AnyName, Z>>, FALSE, FALSE), Rule("include", TRUE, <<A, Z>>, FALSE, d)>> :
             d \in BOOLEAN}

\* All names of up to four bytes, without empty components.
Names(n) == {t \in [1..n -> {47, 93, 97, 98}] :
               /\ t[1] # 47 /\ t[n] # 47
               /\ \A i \in 1..(n - 1) : ~(t[i] = 47 /\ t[i + 1] = 47)}
MCProbes == Names(1) \cup Names(2) \cup Names(3) \cup {t \in Names(4) : t[1] = 97}

Filtering ==
    {[Situation(FALSE, FALSE, {"recursive"}, "ok", <<31, 31>>) EXCEPT !.rules = r] : r \in RuleLists}
    \cup {[Situation(FALSE, FALSE, {"recursive"}, "ok", <<31, 31>>)
             EXCEPT !.rules = <<Rule("exclude_from", FALSE, <<A>>, FALSE, FALSE)>>, !.readable = FALSE]}

MCCases == {x \in Shell \cup Daemon : Supported(x)} \cup Filtering

=============================================================================
