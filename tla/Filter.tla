------------------------------- MODULE Filter -------------------------------
(***************************************************************************)
(* Filter rules (filter/mod.rs): how a rule is parsed and stored, when it  *)
(* matches a name, which rule decides, and how rules cross the wire        *)
(* (main.rs).  Texts and names are sequences of bytes.                     *)
(***************************************************************************)
EXTENDS Integers, SequencesExt

\* The bytes that mean something:   ! # * + , - / ? [ ] and the space.
Bang == 33
Hash == 35
Star == 42
Plus == 43
Comma == 44
Dash == 45
Slash == 47
Question == 63
Open == 91
Close == 93
Space == 32

EXCLUDE == <<101, 120, 99, 108, 117, 100, 101>>
INCLUDE == <<105, 110, 99, 108, 117, 100, 101>>

From(s, i) == SubSeq(s, i, Len(s))
Has(s, c) == \E i \in DOMAIN s : s[i] = c

\* White space of one byte.
White == 9..13 \cup {Space}

\* Places of s that hold none of the bytes C.
Others(s, C) == {i \in DOMAIN s : s[i] \notin C}

TrimStart(s, c) == IF Others(s, {c}) = {} THEN <<>> ELSE From(s, Min(Others(s, {c})))
Trim(s) ==
    IF Others(s, White) = {} THEN <<>>
    ELSE SubSeq(s, Min(Others(s, White)), Max(Others(s, White)))

-----------------------------------------------------------------------------
(* Rules.                                                                  *)

ClearRule == [pattern |-> <<>>, include |-> FALSE, clear |-> TRUE, dir |-> FALSE,
              abs |-> FALSE, wild |-> FALSE, slashes |-> 0]

\* A trailing slash makes a rule for directories only, leading ones are dropped.
build_rule(pattern, include) ==
    LET dir == pattern # <<>> /\ pattern[Len(pattern)] = Slash
        pat == IF dir THEN SubSeq(pattern, 1, Len(pattern) - 1) ELSE pattern
        stored == TrimStart(pat, Slash)
    IN  [pattern |-> stored, include |-> include, clear |-> FALSE, dir |-> dir,
         abs |-> pat # <<>> /\ pat[1] = Slash,
         wild |-> Has(pat, Star) \/ Has(pat, Question) \/ Has(pat, Open),
         slashes |-> Cardinality({i \in DOMAIN stored : stored[i] = Slash})]

\* The first word of a rule and the rest.
Prefix(s) ==
    IF Len(s) >= 2 /\ s[2] \in {Space, Comma} THEN <<SubSeq(s, 1, 1), Trim(From(s, 3))>>
    ELSE IF Has(s, Space)
         THEN LET sp == Min({i \in DOMAIN s : s[i] = Space})
              IN  <<SubSeq(s, 1, sp - 1), Trim(From(s, sp + 1))>>
    ELSE <<s, <<>>>>

\* The rule a text adds to a list: none for a comment and for what is not known.
parse_rule(text) ==
    LET s == Trim(text)
        word == Prefix(s)[1]
        rest == Prefix(s)[2]
    IN  IF s = <<>> \/ s[1] = Hash THEN <<>>
        ELSE IF word \in {<<Dash>>, EXCLUDE} THEN <<build_rule(rest, FALSE)>>
        ELSE IF word \in {<<Plus>>, INCLUDE} THEN <<build_rule(rest, TRUE)>>
        ELSE IF word = <<Bang>> THEN <<ClearRule>>
        ELSE <<>>

ParseAll(texts) == FlattenSeq([i \in DOMAIN texts |-> parse_rule(texts[i])])

\* FilterList::from_options: the options by their kind, then in their order; the
\* excludes of --cvs-exclude at the end.
from_options(o) ==
    ParseAll(o.filter) \o ParseAll(o.include_from) \o ParseAll(o.exclude_from)
    \o [i \in DOMAIN o.include |-> build_rule(o.include[i], TRUE)]
    \o [i \in DOMAIN o.exclude |-> build_rule(o.exclude[i], FALSE)]
    \o [i \in DOMAIN o.cvs |-> build_rule(o.cvs[i], FALSE)]

-----------------------------------------------------------------------------
(* Matching.                                                               *)

\* A class that begins at p[b]: whether it has the byte ch, and where it ends.  A
\* bracket that is its first member does not close it.
match_char_class(p, b, ch) ==
    LET negate == b < Len(p) /\ p[b + 1] = Bang
        start == IF negate THEN b + 2 ELSE b + 1
        scan[i \in start..(Len(p) + 3)] ==
          IF i > Len(p) THEN [hit |-> FALSE, next |-> Len(p) + 1]
          ELSE IF p[i] = Close /\ i # start THEN [hit |-> FALSE, next |-> i + 1]
          ELSE IF i + 2 <= Len(p) /\ p[i + 1] = Dash /\ p[i + 2] # Close
          THEN [scan[i + 3] EXCEPT !.hit = @ \/ ch \in p[i]..p[i + 2]]
          ELSE [scan[i + 1] EXCEPT !.hit = @ \/ ch = p[i]]
    IN  [scan[start] EXCEPT !.hit = (@ # negate)]

\* Mutant: a single star also passes a slash.
wildmatch_slash(p, t) ==
    LET m[i \in 1..(Len(p) + 1)] == [j \in 1..(Len(t) + 1) |->
          IF i > Len(p) THEN j > Len(t)
          ELSE IF p[i] = Star
          THEN LET k == Min({x \in i..(Len(p) + 1) : x > Len(p) \/ p[x] # Star})
               IN  \E x \in j..(Len(t) + 1) : m[k][x]
          ELSE IF j > Len(t) THEN FALSE
          ELSE IF p[i] = Open
          THEN LET c == match_char_class(p, i, t[j]) IN c.hit /\ m[c.next][j + 1]
          ELSE IF p[i] = Question THEN t[j] # Slash /\ m[i + 1][j + 1]
          ELSE p[i] = t[j] /\ m[i + 1][j + 1]]
    IN  m[1][1]

\* m[i][j]: the pattern from i on matches the text from j on.  A run of stars is
\* tried with every rest of the text, one star alone not beyond a slash.
wildmatch(p, t) ==
    LET m[i \in 1..(Len(p) + 1)] == [j \in 1..(Len(t) + 1) |->
          IF i > Len(p) THEN j > Len(t)
          ELSE IF p[i] = Star
          THEN LET k == Min({x \in i..(Len(p) + 1) : x > Len(p) \/ p[x] # Star})
                   double == k - i >= 2
               IN  IF k > Len(p) THEN double \/ ~Has(From(t, j), Slash)
                   ELSE \E x \in j..(Len(t) + 1) :
                          m[k][x] /\ (double \/ ~Has(SubSeq(t, j, x - 1), Slash))
          ELSE IF j > Len(t) THEN FALSE
          ELSE IF p[i] = Open
          THEN LET c == match_char_class(p, i, t[j]) IN c.hit /\ m[c.next][j + 1]
          ELSE IF p[i] = Question THEN t[j] # Slash /\ m[i + 1][j + 1]
          ELSE p[i] = t[j] /\ m[i + 1][j + 1]]
    IN  m[1][1]

Basename(name) ==
    IF Has(name, Slash) THEN From(name, Max({i \in DOMAIN name : name[i] = Slash}) + 1) ELSE name

\* FilterRule::matches.
matches(rule, name, is_dir) ==
    LET target == IF rule.slashes > 0 \/ rule.abs THEN name ELSE Basename(name)
    IN  /\ rule.dir => is_dir
        /\ IF rule.wild THEN wildmatch(rule.pattern, target) ELSE rule.pattern = target

\* The first rule that matches decides; the mark of "!" never does.
is_excluded(rules, name, is_dir) ==
    LET hits == {i \in DOMAIN rules : ~rules[i].clear /\ matches(rules[i], name, is_dir)}
    IN  hits # {} /\ ~rules[Min(hits)].include

-----------------------------------------------------------------------------
(* Across the wire (run_client_protocol, recv_and_parse_filter_list).      *)

\* Mutant: only excluding rules get a sign.
WireText_unsigned(rule) ==
    (IF rule.include THEN <<>> ELSE <<Dash, Space>>) \o rule.pattern

\* What is sent: the sign and the stored pattern.
WireText(rule) == <<IF rule.include THEN Plus ELSE Dash, Space>> \o rule.pattern

WireTexts(rules) == [i \in DOMAIN rules |-> WireText(rules[i])]

=============================================================================
