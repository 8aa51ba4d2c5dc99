-------------------------------- MODULE Glob --------------------------------
(***************************************************************************)
(* What filter rules mean, by definition rather than by a matcher.         *)
(*                                                                         *)
(* A glob is a sequence of pieces: a byte, any byte but a slash, a class   *)
(* of bytes, any bytes but no slash, or any bytes.  A rule is what the     *)
(* user writes: which option it is given by, whether it includes, and a    *)
(* glob that may be anchored at the top of the transfer or restricted to   *)
(* directories.                                                            *)
(***************************************************************************)
EXTENDS Integers, SequencesExt

Byte == 0..255

\* Bytes that mean something in a pattern:  ! * - / ? [ ]
Meta == [not |-> 33, star |-> 42, to |-> 45, slash |-> 47, any |-> 63, open |-> 91, close |-> 93]

\* A class is made of bytes and ranges, or of all but these.
Ranges == [lo : Byte, hi : Byte]
PieceType == [piece : {"byte", "any", "class", "star", "stars"}, negate : BOOLEAN, members : Seq(Ranges)]

Piece(kind, negate, members) == [piece |-> kind, negate |-> negate, members |-> members]
Lit(c)    == Piece("byte", FALSE, <<[lo |-> c, hi |-> c]>>)
AnyByte == Piece("any", FALSE, <<>>)
AnyName == Piece("star", FALSE, <<>>)
AnyPath == Piece("stars", FALSE, <<>>)

\* The bytes a piece for one byte stands for.
SetOf(p) ==
    LET listed == UNION {p.members[i].lo..p.members[i].hi : i \in DOMAIN p.members}
    IN  IF p.piece = "any" THEN Byte \ {Meta.slash}
        ELSE IF p.negate THEN Byte \ listed ELSE listed

\* How a piece is written down.
MemberText(r) == IF r.lo = r.hi THEN <<r.lo>> ELSE <<r.lo, Meta.to, r.hi>>
Opening(p) == IF p.negate THEN <<Meta.open, Meta.not>> ELSE <<Meta.open>>
MemberTexts(p) == [i \in DOMAIN p.members |-> MemberText(p.members[i])]

TextOf(p) ==
    CASE p.piece = "byte"  -> <<p.members[1].lo>>
      [] p.piece = "any"   -> <<Meta.any>>
      [] p.piece = "star"  -> <<Meta.star>>
      [] p.piece = "stars" -> <<Meta.star, Meta.star>>
      [] p.piece = "class" -> Opening(p) \o FlattenSeq(MemberTexts(p)) \o <<Meta.close>>

\* A class can be read in one way only: no member but the first begins with the bracket
\* that closes it, none ends with it; the first does not look like a negation; and a
\* byte in front of a dash does not look like the beginning of a range.  A class is not
\* written with a slash.
Legible(p) ==
    LET m == p.members
    IN  /\ p.piece = "byte"  => Len(m) = 1 /\ m[1].lo = m[1].hi /\ ~p.negate
                                /\ m[1].lo \notin {Meta.star, Meta.any, Meta.open}
        /\ p.piece = "class" =>
             /\ m # <<>>
             /\ ~p.negate => m[1].lo # Meta.not
             /\ \A i \in DOMAIN m :
                  /\ Meta.slash \notin {m[i].lo, m[i].hi}
                  /\ i > 1 => m[i].lo # Meta.close
                  /\ m[i].lo # m[i].hi => m[i].hi # Meta.close
                  /\ m[i].lo = m[i].hi /\ i < Len(m) /\ m[i + 1].lo = Meta.to =>
                       i + 1 = Len(m) /\ m[i + 1].hi = Meta.to

-----------------------------------------------------------------------------
(* Rules.                                                                  *)

Options == {"filter", "include_from", "exclude_from", "include", "exclude", "cvs"}

RuleType == [via : Options, include : BOOLEAN, glob : Seq(PieceType), anchored : BOOLEAN, dironly : BOOLEAN]

Rendered(glob) == FlattenSeq([i \in DOMAIN glob |-> TextOf(glob[i])])

\* How a rule is written down.
Pattern(r) ==
    (IF r.anchored THEN <<Meta.slash>> ELSE <<>>) \o Rendered(r.glob)
    \o (IF r.dironly THEN <<Meta.slash>> ELSE <<>>)

IsSlash(p) == p = Lit(Meta.slash)
Starred(p) == p.piece \in {"star", "stars"}

\* A rule can be read in one way only: stars stand apart, and what is anchored or for
\* directories only is so by its mark and not by its glob.
Readable(r) ==
    /\ r.glob # <<>> /\ ~IsSlash(r.glob[1]) /\ ~IsSlash(r.glob[Len(r.glob)])
    /\ \A i \in DOMAIN r.glob :
         /\ Legible(r.glob[i])
         /\ i < Len(r.glob) => ~(Starred(r.glob[i]) /\ Starred(r.glob[i + 1]))

\* The segment t[a + 1 .. b] is one of a piece.
Covers(piece, t, a, b) ==
    CASE piece.piece = "star"  -> a <= b /\ \A i \in (a + 1)..b : t[i] # Meta.slash
      [] piece.piece = "stars" -> a <= b
      [] OTHER                 -> b = a + 1 /\ t[b] \in SetOf(piece)

\* The text can be cut into segments, one of each piece.
Means(glob, t) ==
    \E cut \in [1..(Len(glob) - 1) -> 0..Len(t)] :
        \A i \in DOMAIN glob :
            Covers(glob[i], t, IF i = 1 THEN 0 ELSE cut[i - 1],
                               IF i = Len(glob) THEN Len(t) ELSE cut[i])

\* The last component of a name.
Component(t) ==
    LET S == {i \in 0..Len(t) : i = 0 \/ t[i] = Meta.slash}
        last == CHOOSE i \in S : \A j \in S : j <= i
    IN  SubSeq(t, last + 1, Len(t))

\* A glob with a slash in it, or an anchored one, is about the whole name, another
\* one about its last component.
About(r, name, is_dir) ==
    LET whole == r.anchored \/ \E i \in DOMAIN r.glob : IsSlash(r.glob[i])
    IN  (r.dironly => is_dir) /\ Means(r.glob, IF whole THEN name ELSE Component(name))

\* The first rule about a name decides, whichever option it came by; without one the
\* name is transferred.
Decided(rules, name, is_dir) ==
    \E i \in DOMAIN rules :
        /\ ~rules[i].include /\ About(rules[i], name, is_dir)
        /\ \A j \in 1..(i - 1) : ~About(rules[j], name, is_dir)

=============================================================================
