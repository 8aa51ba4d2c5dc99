-------------------------- MODULE HandshakeProofs --------------------------
(***************************************************************************)
(* Proofs about Handshake for every situation the two programs support:    *)
(* neither ever takes one thing on the wire for another, and both begin    *)
(* the transfer on the same terms.  No bound on options, versions or rules *)
(* is assumed, and the connection may break between any two steps.         *)
(* The filter rules arrive at the server as the client has them, and the   *)
(* client's decide as the globs that the user wrote mean it.               *)
(***************************************************************************)
EXTENDS Handshake, SequenceTheorems, FiniteSetTheorems, WellFoundedInduction, TLAPS

-----------------------------------------------------------------------------
(* The invariant: the pairs of places the programs can be at, with what    *)
(* may be on its way between them.  A program that has failed is counted   *)
(* at the place where it did.  Anything on its way may be missing instead, *)
(* as the connection may have been down when it was sent.                  *)

\* The protocol and the options as the client sees them.
Proto == Min2(case.cver, case.sver)
Argv  == server_args(case.opts)

At(c, s, toServer, toClient) ==
    /\ cpc \in {c, "failed"} /\ spc \in {s, "failed"}
    /\ c2s \in {<<>>} \cup toServer /\ s2c \in {<<>>} \cup toClient

CompatItems == ItemsOf(<<"compat">> \o Lists(Given("compress")))
ListItems   == ItemsOf(Lists(Given("compress")))
FilterItem  == Item("filters", TRUE, IF case.push THEN <<>> ELSE WireTexts(crules))
FlistItem   == Item("flist", TRUE, 0)
RuleItems   == IF ~case.push THEN <<FilterItem>>
               ELSE IF Given("delete") THEN <<FilterItem, FlistItem>> ELSE <<FlistItem>>

CVersion == Plain("version", case.cver)
SVersion == Plain("version", case.sver)

ShellPlaces ==
    /\ ~case.daemon
    /\ \/ At("version", "version", {}, {})
       \/ At("await_version", "version", {<<CVersion>>}, {})
       \/ /\ At("await_version", "compat", {}, {<<SVersion>>})
          /\ spc = "compat" => Acceptable(case.cver)
          /\ cpc = "await_version" /\ s2c = <<>> => down
       \/ At("await_version", "await_lists", {}, {<<SVersion>>, <<SVersion>> \o CompatItems})
          /\ Proto >= 30
       \* A server whose version is refused may have skipped the compatibility flags,
       \* and a client that is refused may skip them too.
       \/ At("await_version", "rules", {}, {<<SVersion>>}) /\ ~Acceptable(case.sver)
       \/ cpc \in {"rules", "await_flist", "session", "failed"} /\ spc = "failed" /\ s2c = <<>> /\ Proto < 30

CGreeting == Plain("greeting", case.cver)
SGreeting == Plain("greeting", case.sver)
Module    == Plain("module", case.module)
Bad       == {"unknown", "list"}

DaemonPlaces ==
    /\ case.daemon
    /\ \/ At("greet", "greet", {}, {})
       \/ At("await_greeting", "greet", {<<CGreeting>>}, {}) /\ (c2s = <<>> => down)
       \/ At("greet", "await_greeting", {}, {<<SGreeting>>})
       \/ At("await_greeting", "await_greeting", {<<CGreeting>>}, {<<SGreeting>>}) /\ (c2s = <<>> => down)
       \/ At("await_greeting", "await_module", {}, {<<SGreeting>>})
       \/ At("await_ok", "await_greeting", {<<CGreeting>>, <<CGreeting, Module>>}, {}) /\ Proto >= 30
       \/ At("await_ok", "await_module", {<<Module>>}, {}) /\ Proto >= 30
       \/ At("await_ok", "await_argv", {}, {<<Plain("ok", 0)>>}) /\ Proto >= 30
       \/ At("await_ok", "failed", {}, {<<Plain("error", 0)>>, <<Plain("exit", 0)>>,
                                        <<Plain("text", 0), Plain("exit", 0)>>})
       \/ At("compat", "await_argv", {<<Plain("argv", Argv)>>}, {}) /\ Proto >= 30
       \/ At("compat", "failed", {}, {<<Plain("error", 0)>>}) /\ RefusedLate

\* From the compatibility flags on a remote shell and a daemon are the same.
CommonPlaces ==
    /\ Proto >= 30
    /\ \/ At("compat", "compat", {}, {})
       \/ At("compat", "await_lists", {}, {CompatItems})
       \/ At("await_seed", "await_lists", {ListItems}, {})
       \/ At("await_seed", "rules", {}, {<<Plain("seed", Seed)>>})
       \/ At("rules", "rules", {}, {})
       \/ At(IF case.push THEN "session" ELSE "await_flist", "rules", {RuleItems}, {})
       \/ At("await_flist", "session", {}, {<<FlistItem>>}) /\ ~case.push
       \/ At("session", "session", {}, {})

Places == ShellPlaces \/ DaemonPlaces \/ CommonPlaces

\* What each program has made of what it was told, by the place it is at.
CTerms1 == [NoTerms EXCEPT !.proto = Proto]
CTerms2 == [CTerms1 EXCEPT !.seed = Seed, !.zlib = Given("compress")]

ClientTerms ==
    /\ cpc \in {"version", "await_version", "greet", "await_greeting"} => cterms = NoTerms
    /\ cpc \in {"await_ok", "compat", "await_seed"} => cterms = CTerms1
    /\ Proto >= 30 => /\ cpc = "rules" => cterms = CTerms2
                      /\ cpc \in {"await_flist", "session"} => cterms = CMux(CTerms2)

STerms1 == [NoTerms EXCEPT !.proto = Proto, !.sums = UseChecksum(Argv)]
STerms2 == [STerms1 EXCEPT !.seed = Seed, !.zlib = "compress" \in sflags]

ServerTerms ==
    /\ spc \in {"version", "greet", "await_greeting", "await_module", "await_argv"} => sterms = NoTerms
    /\ spc \in {"compat", "await_lists"} => sterms = STerms1
    /\ Proto >= 30 => (spc \in {"rules", "session"} => sterms = SMux(STerms2))
    /\ spc \in {"compat", "await_lists", "rules", "session"} => sflags = ServerFlags(Argv)

HandshakeInv ==
    /\ case \in Cases
    /\ Supported(case) => Places /\ ClientTerms /\ ServerTerms

\* A situation that is supported, as it goes.
Going == HandshakeInv /\ Supported(case)

-----------------------------------------------------------------------------
(* Streams.                                                                *)

\* Short tuples are sequences.
LEMMA TupleTyped ==
    ASSUME NEW P, NEW a \in P, NEW b \in P, NEW c \in P
    PROVE  <<>> \in Seq(P) /\ <<a>> \in Seq(P) /\ <<a, b>> \in Seq(P) /\ <<a, b, c>> \in Seq(P)
  OBVIOUS

\* Nothing in front of a sequence.
LEMMA Appended == ASSUME NEW P, NEW s \in Seq(P) PROVE <<>> \o s = s
  BY ConcatEmptySeq

\* Reading all of a message leaves nothing.
LEMMA AfterAll ==
    ASSUME NEW P, NEW s \in Seq(P), NEW N, NEW needs \in Seq(N), Len(needs) = Len(s)
    PROVE  After(s, needs) = <<>>
  BY DEF After

\* Reading one item leaves the others.
LEMMA AfterFirst ==
    ASSUME NEW P, NEW x, NEW s \in Seq(P), NEW n
    PROVE  After(<<x>> \o s, <<n>>) = s
<1> DEFINE Q == P \cup {x}
           t == <<x>> \o s
           r == SubSeq(t, 2, Len(t))
<1>1. s \in Seq(Q) /\ <<x>> \in Seq(Q)
  OBVIOUS
<1> HIDE DEF Q
<1>2. t \in Seq(Q) /\ Len(t) = Len(s) + 1 /\ \A i \in 1..Len(s) : t[i + 1] = s[i]
  BY <1>1
<1> HIDE DEF t
<1>3. r \in Seq(Q) /\ Len(r) = Len(s) /\ \A i \in 1..Len(s) : r[i] = t[i + 1]
  BY <1>1, <1>2
<1>4. After(t, <<n>>) = r
  BY DEF After
<1> HIDE DEF r
<1>5. r = s
  BY <1>1, <1>2, <1>3, SeqEqual
<1> QED BY <1>4, <1>5 DEF t

\* Short tuples joined.
LEMMA JoinShape ==
    ASSUME NEW a, NEW b, NEW c
    PROVE  /\ <<a>> \o <<>> = <<a>> /\ <<a>> \o <<b>> = <<a, b>>
           /\ <<a>> \o <<b, c>> = <<a, b, c>>
<1> DEFINE P == {a, b, c}
<1>1. /\ <<a>> \in Seq(P) /\ <<b>> \in Seq(P) /\ <<b, c>> \in Seq(P)
      /\ <<a, b>> \in Seq(P) /\ <<a, b, c>> \in Seq(P)
  OBVIOUS
<1> HIDE DEF P
<1>2. <<a>> \o <<>> = <<a>>
  BY <1>1, ConcatEmptySeq
<1>3. <<a>> \o <<b>> = <<a, b>>
  <2>1. /\ <<a>> \o <<b>> \in Seq(P) /\ Len(<<a>> \o <<b>>) = 2
        /\ (<<a>> \o <<b>>)[1] = a /\ (<<a>> \o <<b>>)[2] = b
    BY <1>1
  <2>2. \A i \in 1..2 : (<<a>> \o <<b>>)[i] = <<a, b>>[i]
    BY <2>1
  <2> QED BY <1>1, <2>1, <2>2, SeqEqual
<1>4. <<a>> \o <<b, c>> = <<a, b, c>>
  <2>1. /\ <<a>> \o <<b, c>> \in Seq(P) /\ Len(<<a>> \o <<b, c>>) = 3
        /\ (<<a>> \o <<b, c>>)[1] = a /\ (<<a>> \o <<b, c>>)[2] = b /\ (<<a>> \o <<b, c>>)[3] = c
    BY <1>1
  <2>2. \A i \in 1..3 : (<<a>> \o <<b, c>>)[i] = <<a, b, c>>[i]
    BY <2>1
  <2> QED BY <1>1, <2>1, <2>2, SeqEqual
<1> QED BY <1>2, <1>3, <1>4

\* The lists read after the compatibility flags, with compression and without.
LEMMA ListShape ==
    ASSUME NEW compress
    PROVE  /\ compress => /\ Lists(compress) = <<"sums", "comp">>
                          /\ <<"compat">> \o Lists(compress) = <<"compat", "sums", "comp">>
           /\ ~compress => /\ Lists(compress) = <<"sums">>
                           /\ <<"compat">> \o Lists(compress) = <<"compat", "sums">>
<1>1. <<"sums">> \o <<"comp">> = <<"sums", "comp">> /\ <<"sums">> \o <<>> = <<"sums">>
  BY JoinShape
<1>2. /\ <<"compat">> \o <<"sums", "comp">> = <<"compat", "sums", "comp">>
      /\ <<"compat">> \o <<"sums">> = <<"compat", "sums">>
  BY JoinShape
<1> QED BY <1>1, <1>2, Zenon DEF Lists

\* The items of short tuples of kinds.
LEMMA ItemShape ==
    ASSUME NEW a, NEW b, NEW c
    PROVE  /\ ItemsOf(<<a>>) = <<Plain(a, 0)>>
           /\ ItemsOf(<<a, b>>) = <<Plain(a, 0), Plain(b, 0)>>
           /\ ItemsOf(<<a, b, c>>) = <<Plain(a, 0), Plain(b, 0), Plain(c, 0)>>
  BY DEF ItemsOf

\* What the compatibility flags bring with them.
LEMMA CompatShape ==
    /\ Given("compress") =>
         /\ ListItems = <<Plain("sums", 0), Plain("comp", 0)>>
         /\ CompatItems = <<Plain("compat", 0), Plain("sums", 0), Plain("comp", 0)>>
    /\ ~Given("compress") =>
         /\ ListItems = <<Plain("sums", 0)>>
         /\ CompatItems = <<Plain("compat", 0), Plain("sums", 0)>>
<1> DEFINE g == Given("compress")
<1> HIDE DEF g
<1>1. /\ g => /\ ItemsOf(Lists(g)) = <<Plain("sums", 0), Plain("comp", 0)>>
              /\ ItemsOf(<<"compat">> \o Lists(g)) = <<Plain("compat", 0), Plain("sums", 0), Plain("comp", 0)>>
      /\ ~g => /\ ItemsOf(Lists(g)) = <<Plain("sums", 0)>>
               /\ ItemsOf(<<"compat">> \o Lists(g)) = <<Plain("compat", 0), Plain("sums", 0)>>
  <2>1. CASE g
    <3>1. Lists(g) = <<"sums", "comp">> /\ <<"compat">> \o Lists(g) = <<"compat", "sums", "comp">>
      BY <2>1, ListShape
    <3> QED BY <2>1, <3>1, ItemShape
  <2>2. CASE ~g
    <3>1. Lists(g) = <<"sums">> /\ <<"compat">> \o Lists(g) = <<"compat", "sums">>
      BY <2>2, ListShape
    <3> QED BY <2>2, <3>1, ItemShape
  <2> QED BY <2>1, <2>2, Zenon
<1> QED BY <1>1, Zenon DEF g, ListItems, CompatItems

Items == {Plain("compat", 0), Plain("sums", 0), Plain("comp", 0)}

\* They are items.
LEMMA ItemsTyped == ListItems \in Seq(Items) /\ CompatItems \in Seq(Items)
<1> DEFINE a == Plain("compat", 0)
           b == Plain("sums", 0)
           c == Plain("comp", 0)
<1>1. Items = {a, b, c}
  BY DEF Items
<1>2. /\ ListItems = <<b, c>> \/ ListItems = <<b>>
      /\ CompatItems = <<a, b, c>> \/ CompatItems = <<a, b>>
  BY CompatShape, Zenon
<1> HIDE DEF a, b, c
<1>3. a \in Items /\ b \in Items /\ c \in Items
  BY <1>1
<1>4. <<a, b>> \in Seq(Items) /\ <<b>> \in Seq(Items) /\ <<b, c>> \in Seq(Items) /\ <<a, b, c>> \in Seq(Items)
  BY <1>3, TupleTyped
<1> QED BY <1>2, <1>4

-----------------------------------------------------------------------------
(* The options on both sides.                                              *)

\* What the server has made of the arguments is, as far as the streams depend on it,
\* what the client's options say.
LEMMA OptionFacts ==
    ASSUME case \in Cases, Supported(case)
    PROVE  LET flags == ServerFlags(Argv)
           IN  /\ ("compress" \in flags) = Given("compress")
               /\ ("owner" \in flags) = ("owner" \in Expanded(case.opts))
               /\ ("group" \in flags) = ("group" \in Expanded(case.opts))
               /\ case.push => ("delete" \in flags) = Given("delete")
               /\ UseChecksum(Argv) = Given("checksum")
<1> DEFINE o == case.opts
<1>1. o \subseteq Lettered \cup Worded
  BY HandshakeAssumption
<1>2. /\ Argv.words = o \cap Worded
      /\ Argv.letters = IF "archive" \in o THEN (o \cap Lettered) \ Archived ELSE o \cap Lettered
  BY DEF Argv, server_args
<1>3. \A opt \in {"compress", "owner", "group"} :
        (opt \in Expanded((Argv.letters \ {"backup"}) \cup Argv.words)) = (opt \in Expanded(o))
  BY <1>1, <1>2 DEF Expanded, Lettered, Worded, Archived
<1>4. \A opt \in {"compress", "owner", "group"} :
        (opt \in Expanded(Expanded(Argv.letters) \cap CarriedOver)) = (opt \in Expanded(o))
  BY <1>1, <1>2 DEF Expanded, Lettered, Worded, Archived, CarriedOver
<1>5. ("compress" \in Expanded(o)) = Given("compress")
  BY DEF Expanded, Archived, Given
<1>6. UseChecksum(Argv) = Given("checksum")
  BY <1>1, <1>2 DEF UseChecksum, Given, Lettered, Worded, Archived
<1>7. ("delete" \in Expanded((Argv.letters \ {"backup"}) \cup Argv.words)) = Given("delete")
  BY <1>1, <1>2 DEF Expanded, Lettered, Worded, Archived, Given
<1>8. ASSUME case.push, ~case.daemon, Consumed(Argv) 
      PROVE  ("delete" \in Expanded(Expanded(Argv.letters) \cap CarriedOver)) = Given("delete")
  BY <1>8, <1>1, <1>2 DEF Supported, Forgotten, Argv, Expanded, CarriedOver, Archived, Given
<1>9. case.daemon \in BOOLEAN /\ Consumed(Argv) \in BOOLEAN
  BY HandshakeAssumption DEF Consumed
<1>10. CASE case.daemon \/ ~Consumed(Argv)
  BY <1>3, <1>5, <1>6, <1>7, <1>10, Zenon DEF ServerFlags, parse_server_argv
<1>11. CASE ~(case.daemon \/ ~Consumed(Argv))
  BY <1>4, <1>5, <1>6, <1>8, <1>11, Zenon DEF ServerFlags
<1> QED BY <1>10, <1>11

-----------------------------------------------------------------------------
(* Reading.                                                                *)

Kinds == {"version", "greeting", "line", "compat", "sums", "comp", "seed", "flist",
          "module", "argv", "filters"}

\* Lists are sequences of kinds.
LEMMA ListsTyped ==
    ASSUME NEW b
    PROVE  Lists(b) \in Seq(Kinds) /\ <<"compat">> \o Lists(b) \in Seq(Kinds)
<1>1. "compat" \in Kinds /\ "sums" \in Kinds /\ "comp" \in Kinds
  BY DEF Kinds
<1>2. CASE b
  BY <1>1, <1>2, ListShape, TupleTyped
<1>3. CASE ~b
  BY <1>1, <1>3, ListShape, TupleTyped
<1> QED BY <1>2, <1>3

\* What each side still expects is a sequence of kinds.
LEMMA NeedsTyped == CNeeds \in Seq(Kinds) /\ SNeeds \in Seq(Kinds)
<1>1. Lists(Given("compress")) \in Seq(Kinds) /\ <<"compat">> \o Lists(Given("compress")) \in Seq(Kinds)
  BY ListsTyped
<1>2. Lists("compress" \in sflags) \in Seq(Kinds)
  BY ListsTyped
<1>3. <<>> \in Seq(Kinds) /\ (\A a \in Kinds : <<a>> \in Seq(Kinds))
      /\ \A a, b \in Kinds : <<a, b>> \in Seq(Kinds)
  BY TupleTyped
<1> DEFINE X == Seq(Kinds)
<1>4. /\ <<>> \in X /\ <<"version">> \in X /\ <<"greeting">> \in X /\ <<"line">> \in X /\ <<"seed">> \in X
       /\ <<"flist">> \in X /\ <<"module">> \in X /\ <<"argv">> \in X /\ <<"filters">> \in X
       /\ <<"filters", "flist">> \in X
  BY <1>3 DEF Kinds
<1> HIDE DEF X
<1>5. CNeeds \in Seq(Kinds)
  BY <1>1, <1>4 DEF CNeeds, X
<1>6. SNeeds \in Seq(Kinds)
  BY <1>2, <1>4 DEF SNeeds, X
<1> QED BY <1>5, <1>6

\* What is read has arrived, and a program that reads one thing takes that from
\* the stream.
LEMMA GetsFacts ==
    /\ CGets => s2c # <<>>
    /\ SGets => c2s # <<>>
<1>1. ASSUME NEW stream, NEW needs \in Seq(Kinds), NEW framed, Arrived(stream, needs, framed)
      PROVE  stream # <<>>
  BY <1>1 DEF Arrived
<1> QED BY <1>1, NeedsTyped DEF CGets, SGets

\* One item taken off a channel.
LEMMA TakeOne ==
    ASSUME NEW x, NEW n, NEW P, NEW s \in Seq(P)
    PROVE  /\ After(<<x>>, <<n>>) = <<>> /\ Head(<<x>>) = x
           /\ After(<<x>> \o s, <<n>>) = s /\ Head(<<x>> \o s) = x
<1>1. <<x>> \in Seq({x}) /\ <<n>> \in Seq({n}) /\ Len(<<x>>) = Len(<<n>>)
  OBVIOUS
<1>2. After(<<x>>, <<n>>) = <<>>
  BY <1>1, AfterAll
<1>3. Head(<<x>> \o s) = x
  <2> DEFINE Q == P \cup {x}
  <2>1. s \in Seq(Q) /\ <<x>> \in Seq(Q)
    OBVIOUS
  <2> HIDE DEF Q
  <2> QED BY <2>1
<1> QED BY <1>2, <1>3, AfterFirst

\* Only the steps of the programs change what they know; the situation stays.
LEMMA Kept ==
    ASSUME UNCHANGED <<case, crules>>
    PROVE  /\ Proto' = Proto /\ Argv' = Argv /\ CompatItems' = CompatItems /\ ListItems' = ListItems
           /\ RuleItems' = RuleItems /\ FlistItem' = FlistItem
           /\ CVersion' = CVersion /\ SVersion' = SVersion /\ CGreeting' = CGreeting
           /\ SGreeting' = SGreeting /\ Module' = Module /\ RefusedLate' = RefusedLate
           /\ Supported(case)' = Supported(case) /\ CTerms1' = CTerms1 /\ CTerms2' = CTerms2
           /\ STerms1' = STerms1 /\ CMux(CTerms2)' = CMux(CTerms2) /\ ServerFlags(Argv)' = ServerFlags(Argv)
           /\ sflags' = sflags => STerms2' = STerms2 /\ SMux(STerms2)' = SMux(STerms2)
<1>1. /\ Proto' = Proto /\ Argv' = Argv /\ CompatItems' = CompatItems /\ ListItems' = ListItems
      /\ FilterItem' = FilterItem /\ FlistItem' = FlistItem
      /\ CVersion' = CVersion /\ SVersion' = SVersion /\ CGreeting' = CGreeting
      /\ SGreeting' = SGreeting /\ Module' = Module /\ RefusedLate' = RefusedLate
      /\ Supported(case)' = Supported(case)
  BY DEF Proto, Argv, CompatItems, ListItems, Given, FilterItem, FlistItem, CVersion, SVersion,
         CGreeting, SGreeting, Module, RefusedLate
<1>2. RuleItems' = RuleItems
  BY <1>1 DEF RuleItems, Given
<1>3. CTerms1' = CTerms1
  BY <1>1 DEF CTerms1
<1>4. CTerms2' = CTerms2
  BY <1>3 DEF CTerms2, Given
<1>5. STerms1' = STerms1
  BY <1>1 DEF STerms1
<1>6. CMux(CTerms2)' = CMux(CTerms2)
  BY <1>4 DEF CMux, Given
<1>7. ServerFlags(Argv)' = ServerFlags(Argv)
  BY <1>1 DEF ServerFlags
<1>8. ASSUME sflags' = sflags PROVE STerms2' = STerms2 /\ SMux(STerms2)' = SMux(STerms2)
  <2>1. STerms2' = STerms2
    BY <1>5, <1>8 DEF STerms2
  <2> QED BY <1>8, <2>1 DEF SMux
<1> QED BY <1>1, <1>2, <1>3, <1>4, <1>5, <1>6, <1>7, <1>8

\* A step of the client leaves what is known of the server.
LEMMA ClientKeeps ==
    ASSUME ServerTerms, Client
    PROVE  ServerTerms'
<1>1. UNCHANGED <<case, spc, sterms, sflags, crules, down>>
  BY DEF Client
<1> QED BY <1>1, Kept DEF ServerTerms

\* And the other way round.
LEMMA ServerKeeps ==
    ASSUME ClientTerms, UNCHANGED <<case, cpc, cterms, crules>>
    PROVE  ClientTerms'
  BY Kept DEF ClientTerms

-----------------------------------------------------------------------------
(* The client's steps.                                                     *)

\* What is sent into an empty channel is all there is in it, or nothing when the
\* connection is down.
LEMMA SentAlone ==
    ASSUME NEW P, NEW s \in Seq(P)
    PROVE  /\ c2s = <<>> /\ CSend(s) => c2s' \in {<<>>, s}
           /\ s2c = <<>> /\ SSend(s) => s2c' \in {<<>>, s}
  BY Appended DEF CSend, SSend

\* The client sends its version (remote shell) ...
LEMMA CSendVersionStep == Going /\ CSendVersion => Going'
<1> SUFFICES ASSUME Going, CSendVersion PROVE Going'
  OBVIOUS
<1> USE DEF Going, HandshakeInv
<1>1. /\ cpc = "version" /\ cpc' = "await_version" /\ CSend(<<CVersion>>)
      /\ Client /\ UNCHANGED <<case, spc, s2c, cterms, crules, down>>
  BY DEF CSendVersion, Client, CVersion
<1>2. ~case.daemon /\ spc \in {"version", "failed"} /\ c2s = <<>> /\ s2c = <<>>
  BY <1>1 DEF Places, ShellPlaces, DaemonPlaces, CommonPlaces, At
<1>3. c2s' \in {<<>>, <<CVersion>>}
  <2>1. <<CVersion>> \in Seq({CVersion})
    OBVIOUS
  <2> QED BY <1>1, <1>2, <2>1, SentAlone
<1>4. ShellPlaces'
  BY <1>1, <1>2, <1>3, Kept DEF ShellPlaces, At
<1>5. ClientTerms'
  BY <1>1, Kept DEF ClientTerms
<1> QED BY <1>1, <1>4, <1>5, ClientKeeps, Kept DEF Places

\* ... and reads the one of the server.
LEMMA CReadVersionStep == Going /\ CReadVersion => Going'
<1> SUFFICES ASSUME Going, CReadVersion PROVE Going'
  OBVIOUS
<1> USE DEF Going, HandshakeInv
<1>1. /\ cpc = "await_version" /\ CGets /\ CTakes
      /\ Client /\ UNCHANGED <<case, spc, c2s, crules, down>>
  BY DEF CReadVersion, Client
<1>2. CNeeds = <<"version">> /\ s2c # <<>>
  BY <1>1, GetsFacts DEF CNeeds
<1>3. /\ After(<<SVersion>>, <<"version">>) = <<>> /\ Head(<<SVersion>>) = SVersion
      /\ After(<<SVersion>> \o CompatItems, <<"version">>) = CompatItems
      /\ Head(<<SVersion>> \o CompatItems) = SVersion
  BY ItemsTyped, TakeOne
<1>4. /\ ~case.daemon /\ c2s = <<>>
      /\ \/ /\ spc \in {"compat", "failed"} /\ s2c = <<SVersion>>
            /\ spc = "compat" => Acceptable(case.cver)
         \/ /\ spc \in {"await_lists", "failed"} /\ Proto >= 30
            /\ s2c = <<SVersion>> \/ s2c = <<SVersion>> \o CompatItems
         \/ spc \in {"rules", "failed"} /\ s2c = <<SVersion>> /\ ~Acceptable(case.sver)
  BY <1>1, <1>2 DEF Places, ShellPlaces, DaemonPlaces, CommonPlaces, At
<1>5. /\ Head(s2c) = SVersion
      /\ s2c = <<SVersion>> => s2c' = <<>>
      /\ s2c = <<SVersion>> \o CompatItems => s2c' = CompatItems
  BY <1>1, <1>2, <1>3, <1>4 DEF CTakes
<1>6. Head(s2c).v = case.sver
  BY <1>5 DEF SVersion, Plain, Item
<1>7. case.cver \in Nat /\ case.sver \in Nat /\ Proto \in Nat /\ (Proto >= 30 \/ Proto < 20)
  BY HandshakeAssumption DEF Supported, Proto, Min2, MIN_PROTOCOL_VERSION
<1>8. CASE Acceptable(case.sver)
  <2>1. cterms' = [cterms EXCEPT !.proto = Proto] /\ cpc' = CompatOrRules(cterms'.proto)
    BY <1>6, <1>8 DEF CReadVersion, Proto
  <2>2. cterms' = CTerms1 /\ cterms'.proto = Proto
    BY <1>1, <2>1 DEF ClientTerms, CTerms1, NoTerms
  <2>3. CASE Proto >= 30
    <3>1. cpc' = "compat"
      BY <2>1, <2>2, <2>3 DEF CompatOrRules
    <3>2. CommonPlaces'
      BY <1>1, <1>4, <1>5, <1>8, <2>3, <3>1, Kept DEF CommonPlaces, At
    <3>3. ClientTerms'
      BY <1>1, <2>2, <3>1, Kept DEF ClientTerms
    <3> QED BY <1>1, <3>2, <3>3, ClientKeeps, Kept DEF Places
  <2>4. CASE Proto < 20
    <3>1. cpc' = "rules"
      BY <1>7, <2>1, <2>2, <2>4 DEF CompatOrRules
    <3>2. ~Acceptable(case.cver)
      BY <1>7, <1>8, <2>4 DEF Acceptable, Proto, Min2, MIN_PROTOCOL_VERSION, MAX_PROTOCOL_VERSION
    <3>3. spc = "failed" /\ s2c' = <<>>
      BY <1>4, <1>5, <1>7, <1>8, <2>4, <3>2
    <3>4. ShellPlaces'
      BY <1>1, <1>4, <1>7, <2>4, <3>1, <3>3, Kept DEF ShellPlaces
    <3>5. ClientTerms'
      BY <1>1, <1>7, <2>4, <3>1, Kept DEF ClientTerms
    <3> QED BY <1>1, <3>4, <3>5, ClientKeeps, Kept DEF Places
  <2> QED BY <1>7, <2>3, <2>4
<1>9. CASE ~Acceptable(case.sver)
  <2>1. cpc' = "failed" /\ cterms' = cterms
    BY <1>6, <1>9 DEF CReadVersion
  <2>2. ClientTerms'
    BY <1>1, <2>1, Kept DEF ClientTerms
  <2>3. CASE s2c = <<SVersion>>
    <3>1. ShellPlaces'
      BY <1>1, <1>4, <1>5, <1>9, <2>1, <2>3, Kept DEF ShellPlaces, At
    <3> QED BY <1>1, <2>2, <3>1, ClientKeeps, Kept DEF Places
  <2>4. CASE s2c # <<SVersion>>
    <3>1. CommonPlaces'
      BY <1>1, <1>4, <1>5, <2>1, <2>4, Kept DEF CommonPlaces, At
    <3> QED BY <1>1, <2>2, <3>1, ClientKeeps, Kept DEF Places
  <2> QED BY <2>3, <2>4
<1> QED BY <1>8, <1>9

\* The client of a daemon greets it ...
LEMMA CGreetStep == Going /\ CGreet => Going'
<1> SUFFICES ASSUME Going, CGreet PROVE Going'
  OBVIOUS
<1> USE DEF Going, HandshakeInv
<1>1. /\ cpc = "greet" /\ cpc' = "await_greeting" /\ CSend(<<CGreeting>>)
      /\ Client /\ UNCHANGED <<case, spc, s2c, cterms, crules, down>>
  BY DEF CGreet, Client, CGreeting
<1>2. /\ case.daemon /\ c2s = <<>>
      /\ \/ spc \in {"greet", "failed"} /\ s2c = <<>>
         \/ spc \in {"await_greeting", "failed"} /\ s2c \in {<<>>, <<SGreeting>>}
  BY <1>1 DEF Places, ShellPlaces, DaemonPlaces, CommonPlaces, At
<1>3. c2s' = IF down THEN <<>> ELSE <<CGreeting>>
  <2>1. <<CGreeting>> \in Seq({CGreeting})
    OBVIOUS
  <2> QED BY <1>1, <1>2, <2>1, Appended DEF CSend
<1>4. DaemonPlaces'
  BY <1>1, <1>2, <1>3, Kept DEF DaemonPlaces, At
<1>5. ClientTerms'
  BY <1>1, Kept DEF ClientTerms
<1> QED BY <1>1, <1>4, <1>5, ClientKeeps, Kept DEF Places

\* ... reads its greeting ...
LEMMA CReadGreetingStep == Going /\ CReadGreeting => Going'
<1> SUFFICES ASSUME Going, CReadGreeting PROVE Going'
  OBVIOUS
<1> USE DEF Going, HandshakeInv
<1>1. /\ cpc = "await_greeting" /\ CGets /\ CTakes
      /\ Client /\ UNCHANGED <<case, spc, crules, down>>
  BY DEF CReadGreeting, Client
<1>2. CNeeds = <<"greeting">> /\ s2c # <<>>
  BY <1>1, GetsFacts DEF CNeeds
<1>3. /\ After(<<SGreeting>>, <<"greeting">>) = <<>> /\ Head(<<SGreeting>>) = SGreeting
  BY ItemsTyped, TakeOne
<1>4. /\ case.daemon /\ s2c = <<SGreeting>>
      /\ \/ spc \in {"await_greeting", "failed"} /\ c2s \in {<<>>, <<CGreeting>>} /\ (c2s = <<>> => down)
         \/ spc \in {"await_module", "failed"} /\ c2s = <<>>
  BY <1>1, <1>2 DEF Places, ShellPlaces, DaemonPlaces, CommonPlaces, At
<1>5. s2c' = <<>> /\ Head(s2c).v = case.sver
  BY <1>1, <1>2, <1>3, <1>4 DEF CTakes, SGreeting, Plain, Item
<1>6. Proto \in Nat /\ (Proto >= 30 \/ Proto < 20)
  BY HandshakeAssumption DEF Supported, Proto, Min2, MIN_PROTOCOL_VERSION
<1>7. CASE Proto >= MIN_PROTOCOL_VERSION
  <2>1. /\ cterms' = [cterms EXCEPT !.proto = Proto] /\ CSend(<<Module>>) /\ cpc' = "await_ok"
    BY <1>5, <1>7 DEF CReadGreeting, Proto, Module
  <2>2. cterms' = CTerms1 /\ Proto >= 30
    BY <1>1, <1>6, <1>7, <2>1 DEF ClientTerms, CTerms1, MIN_PROTOCOL_VERSION
  <2>3. /\ c2s = <<>> => c2s' \in {<<>>, <<Module>>} /\ (down => c2s' = <<>>)
        /\ c2s = <<CGreeting>> => c2s' \in {<<CGreeting>>, <<CGreeting, Module>>}
    <3>1. <<Module>> \in Seq({Module})
      OBVIOUS
    <3>2. <<>> \o <<Module>> = <<Module>>
      BY <3>1, Appended
    <3>3. <<CGreeting>> \o <<Module>> = <<CGreeting, Module>>
      BY JoinShape
    <3> QED BY <2>1, <3>2, <3>3 DEF CSend
  <2>4. DaemonPlaces'
    BY <1>1, <1>4, <1>5, <2>1, <2>2, <2>3, Kept DEF DaemonPlaces, At
  <2>5. ClientTerms'
    BY <1>1, <2>1, <2>2, Kept DEF ClientTerms
  <2> QED BY <1>1, <2>4, <2>5, ClientKeeps, Kept DEF Places
<1>8. CASE ~(Proto >= MIN_PROTOCOL_VERSION)
  <2>1. cpc' = "failed" /\ UNCHANGED <<cterms, c2s>>
    BY <1>5, <1>8 DEF CReadGreeting, Proto
  <2>2. DaemonPlaces'
    BY <1>1, <1>4, <1>5, <2>1, Kept DEF DaemonPlaces, At
  <2>3. ClientTerms'
    BY <1>1, <2>1, Kept DEF ClientTerms
  <2> QED BY <1>1, <2>2, <2>3, ClientKeeps, Kept DEF Places
<1> QED BY <1>7, <1>8

\* The answer to the module: nothing comes behind the OK, so none of it is lost.
LEMMA CReadOkStep == Going /\ CReadOk => Going'
<1> SUFFICES ASSUME Going, CReadOk PROVE Going'
  OBVIOUS
<1> USE DEF Going, HandshakeInv
<1>1. /\ cpc = "await_ok" /\ CGets /\ CTakes /\ Head(s2c).k = "ok"
      /\ Client /\ UNCHANGED <<case, spc, crules, cterms, down>>
  BY DEF CReadOk, Client
<1>2. CNeeds = <<"line">> /\ s2c # <<>>
  BY <1>1, GetsFacts DEF CNeeds
<1>3. \A x, y : /\ After(<<x>>, <<"line">>) = <<>> /\ Head(<<x>>) = x /\ Len(<<x>>) = 1
                /\ Head(<<x, y>>) = x
  BY ItemsTyped, TakeOne
<1>4. /\ case.daemon /\ s2c = <<Plain("ok", 0)>> /\ spc \in {"await_argv", "failed"} /\ c2s = <<>>
      /\ Proto >= 30
  <2>1. Plain("error", 0).k # "ok" /\ Plain("exit", 0).k # "ok" /\ Plain("text", 0).k # "ok"
    BY DEF Plain, Item
  <2> QED BY <1>1, <1>2, <1>3, <2>1 DEF Places, ShellPlaces, DaemonPlaces, CommonPlaces, At
<1>5. s2c' = <<>> /\ Len(s2c) = 1
  BY <1>1, <1>2, <1>3, <1>4 DEF CTakes
<1>6. cterms = CTerms1 /\ cterms.proto = Proto
  BY <1>1 DEF ClientTerms, CTerms1, NoTerms
<1>7. CSend(<<Plain("argv", Argv)>>) /\ cpc' = "compat"
  BY <1>4, <1>5, <1>6 DEF CReadOk, Argv, CompatOrRules
<1>8. c2s' \in {<<>>, <<Plain("argv", Argv)>>}
  <2> DEFINE x == Plain("argv", Argv)
  <2> HIDE DEF x
  <2>1. <<x>> \in Seq({x})
    OBVIOUS
  <2>2. CSend(<<x>>)
    BY <1>7 DEF x
  <2>3. c2s' \in {<<>>, <<x>>}
    BY <1>4, <2>1, <2>2, SentAlone
  <2> QED BY <2>3 DEF x
<1>9. DaemonPlaces'
  BY <1>1, <1>4, <1>5, <1>7, <1>8, Kept DEF DaemonPlaces, At
<1>10. ClientTerms'
  BY <1>1, <1>6, <1>7, Kept DEF ClientTerms
<1> QED BY <1>1, <1>9, <1>10, ClientKeeps, Kept DEF Places

\* ... and its answer to the module it named.
LEMMA CReadLineStep == Going /\ CReadLine => Going'
<1> SUFFICES ASSUME Going, CReadLine PROVE Going'
  OBVIOUS
<1> USE DEF Going, HandshakeInv
<1>1. /\ cpc = "await_ok" /\ CGets /\ CTakes
      /\ \/ Head(s2c).k = "text" /\ cpc' = cpc
         \/ Head(s2c).k \in {"error", "exit"} /\ cpc' = "failed"
      /\ Client /\ UNCHANGED <<case, spc, c2s, crules, cterms, down>>
  BY DEF CReadLine, Client
<1>2. CNeeds = <<"line">> /\ s2c # <<>>
  BY <1>1, GetsFacts DEF CNeeds
<1>3. \A x, y : /\ After(<<x>>, <<"line">>) = <<>> /\ Head(<<x>>) = x
                /\ After(<<x, y>>, <<"line">>) = <<y>>
  <2> SUFFICES ASSUME NEW x, NEW y
               PROVE  /\ After(<<x>>, <<"line">>) = <<>> /\ Head(<<x>>) = x
                      /\ After(<<x, y>>, <<"line">>) = <<y>>
    OBVIOUS
  <2> DEFINE s == <<y>>
  <2>1. s \in Seq({y})
    OBVIOUS
  <2>2. <<x>> \o s = <<x, y>>
    BY JoinShape
  <2> HIDE DEF s
  <2>3. After(<<x>>, <<"line">>) = <<>> /\ Head(<<x>>) = x /\ After(<<x>> \o s, <<"line">>) = s
    BY <2>1, TakeOne
  <2> QED BY <2>2, <2>3 DEF s
<1>4. /\ case.daemon /\ spc = "failed" /\ c2s = <<>>
      /\ s2c \in {<<Plain("error", 0)>>, <<Plain("exit", 0)>>, <<Plain("text", 0), Plain("exit", 0)>>}
  <2>1. Plain("ok", 0).k \notin {"text", "error", "exit"}
    BY DEF Plain, Item
  <2> QED BY <1>1, <1>2, <1>3, <2>1 DEF Places, ShellPlaces, DaemonPlaces, CommonPlaces, At
<1>5. s2c' \in {<<>>, <<Plain("exit", 0)>>}
  BY <1>1, <1>2, <1>3, <1>4 DEF CTakes
<1>6. DaemonPlaces'
  BY <1>1, <1>4, <1>5, Kept DEF DaemonPlaces, At
<1>7. ClientTerms'
  BY <1>1, Kept DEF ClientTerms
<1> QED BY <1>1, <1>6, <1>7, ClientKeeps, Kept DEF Places

\* The client answers the compatibility flags and lists of the server with its own lists ...
LEMMA CReadCompatStep == Going /\ CReadCompat => Going'
<1> SUFFICES ASSUME Going, CReadCompat PROVE Going'
  OBVIOUS
<1> USE DEF Going, HandshakeInv
<1>1. /\ cpc = "compat" /\ CGets /\ CTakes /\ CSend(ListItems) /\ cpc' = "await_seed"
      /\ Client /\ UNCHANGED <<case, spc, crules, cterms, down>>
  BY DEF CReadCompat, Client, ListItems
<1>2. CNeeds = <<"compat">> \o Lists(Given("compress")) /\ s2c # <<>>
  BY <1>1, GetsFacts DEF CNeeds
<1>3. Len(CNeeds) >= 2 /\ Len(CNeeds) = Len(CompatItems)
  <2>1. CASE Given("compress")
    <3>1. CNeeds = <<"compat", "sums", "comp">>
      BY <1>2, <2>1, ListShape
    <3>2. CompatItems = <<Plain("compat", 0), Plain("sums", 0), Plain("comp", 0)>>
      BY <2>1, CompatShape
    <3> QED BY <3>1, <3>2
  <2>2. CASE ~Given("compress")
    <3>1. CNeeds = <<"compat", "sums">>
      BY <1>2, <2>2, ListShape
    <3>2. CompatItems = <<Plain("compat", 0), Plain("sums", 0)>>
      BY <2>2, CompatShape
    <3> QED BY <3>1, <3>2
  <2> QED BY <2>1, <2>2
<1>4. Len(s2c) >= 2
  BY <1>1, <1>3, NeedsTyped DEF CGets, Arrived
<1>5. spc \in {"await_lists", "failed"} /\ Proto >= 30 /\ c2s = <<>> /\ s2c = CompatItems
  <2> DEFINE x == Plain("error", 0)
  <2> HIDE DEF x
  <2>1. s2c # <<x>>
    <3> SUFFICES ASSUME s2c = <<x>> PROVE FALSE
      OBVIOUS
    <3>1. Len(<<x>>) = 1
      OBVIOUS
    <3>2. Len(s2c) = 1
      BY <3>1
    <3> QED BY <1>4, <3>2
  <2>2. s2c # <<Plain("error", 0)>>
    BY <2>1 DEF x
  <2> QED BY <1>1, <1>2, <2>2 DEF Places, ShellPlaces, DaemonPlaces, CommonPlaces, At
<1>6. s2c' = <<>> /\ c2s' \in {<<>>, ListItems}
  <2>1. After(CompatItems, CNeeds) = <<>>
    BY <1>3, ItemsTyped, NeedsTyped, AfterAll
  <2>2. c2s' \in {<<>>, ListItems}
    BY <1>1, <1>5, ItemsTyped, SentAlone
  <2> QED BY <1>1, <1>5, <2>1, <2>2 DEF CTakes
<1>7. CommonPlaces'
  BY <1>1, <1>5, <1>6, Kept DEF CommonPlaces, At
<1>8. ClientTerms'
  BY <1>1, Kept DEF ClientTerms
<1> QED BY <1>1, <1>7, <1>8, ClientKeeps, Kept DEF Places

\* ... and reads the checksum seed.
LEMMA CReadSeedStep == Going /\ CReadSeed => Going'
<1> SUFFICES ASSUME Going, CReadSeed PROVE Going'
  OBVIOUS
<1> USE DEF Going, HandshakeInv
<1>1. /\ cpc = "await_seed" /\ CGets /\ CTakes /\ cpc' = "rules"
      /\ cterms' = [cterms EXCEPT !.seed = Head(s2c).v, !.zlib = Given("compress")]
      /\ Client /\ UNCHANGED <<case, spc, c2s, crules, down>>
  BY DEF CReadSeed, Client
<1>2. CNeeds = <<"seed">> /\ s2c # <<>>
  BY <1>1, GetsFacts DEF CNeeds
<1>3. /\ After(<<Plain("seed", Seed)>>, <<"seed">>) = <<>>
      /\ Head(<<Plain("seed", Seed)>>) = Plain("seed", Seed)
  BY ItemsTyped, TakeOne
<1>4. /\ spc \in {"rules", "failed"} /\ c2s = <<>> /\ s2c = <<Plain("seed", Seed)>> /\ Proto >= 30
  BY <1>1, <1>2 DEF Places, ShellPlaces, DaemonPlaces, CommonPlaces, At
<1>5. s2c' = <<>> /\ Head(s2c).v = Seed
  BY <1>1, <1>2, <1>3, <1>4 DEF CTakes, Plain, Item
<1>6. cterms' = CTerms2
  BY <1>1, <1>5 DEF ClientTerms, CTerms2
<1>7. CommonPlaces'
  BY <1>1, <1>4, <1>5, Kept DEF CommonPlaces, At
<1>8. ClientTerms'
  BY <1>1, <1>6, Kept DEF ClientTerms
<1> QED BY <1>1, <1>7, <1>8, ClientKeeps, Kept DEF Places

\* Filter rules and the file list are items of known kinds.
LEMMA RuleItemsTyped == RuleItems \in Seq({FilterItem, FlistItem})
<1>1. /\ <<FilterItem>> \in Seq({FilterItem, FlistItem}) /\ <<FlistItem>> \in Seq({FilterItem, FlistItem})
      /\ <<FilterItem, FlistItem>> \in Seq({FilterItem, FlistItem})
  OBVIOUS
<1> QED BY <1>1 DEF RuleItems

\* The client sends its filter rules, and the list when it pushes.
LEMMA CSendRulesStep == Going /\ CSendRules => Going'
<1> SUFFICES ASSUME Going, CSendRules PROVE Going'
  OBVIOUS
<1> USE DEF Going, HandshakeInv
<1>1. /\ cpc = "rules" /\ cterms' = CMux(cterms)
      /\ cpc' = IF case.push THEN "session" ELSE "await_flist"
      /\ Client /\ UNCHANGED <<case, spc, s2c, crules, down>>
  BY DEF CSendRules, Client
<1>2. \/ spc \in {"rules", "failed"} /\ c2s = <<>> /\ s2c = <<>> /\ Proto >= 30
      \/ ~case.daemon /\ spc = "failed" /\ s2c = <<>> /\ Proto < 30
  BY <1>1 DEF Places, ShellPlaces, DaemonPlaces, CommonPlaces, At
<1>3. Proto \in Nat
  BY HandshakeAssumption DEF Proto, Min2
<1>4. CASE Proto >= 30
  <2>1. cterms' = CMux(CTerms2)
    BY <1>1, <1>4 DEF ClientTerms
  <2>2. cterms'.muxout = TRUE
    BY <2>1, <1>4 DEF CMux, CTerms2, CTerms1, NoTerms
  <2>3. CSend(RuleItems)
    <3> DEFINE filters == Item("filters", cterms'.muxout, IF case.push THEN <<>> ELSE WireTexts(crules))
               flist == Item("flist", cterms'.muxout, 0)
    <3>1. filters = FilterItem /\ flist = FlistItem
      BY <2>2 DEF FilterItem, FlistItem
    <3>2. IF case.push THEN CSend((IF Given("delete") THEN <<filters>> ELSE <<>>) \o <<flist>>)
          ELSE CSend(<<filters>>)
      BY DEF CSendRules
    <3> HIDE DEF filters, flist
    <3>3. <<filters>> \o <<flist>> = <<filters, flist>>
      BY JoinShape
    <3>4. <<>> \o <<flist>> = <<flist>>
      <4>1. <<flist>> \in Seq({flist})
        OBVIOUS
      <4> QED BY <4>1, Appended
    <3>5. CASE ~case.push
      BY <3>1, <3>2, <3>5 DEF RuleItems
    <3>6. CASE case.push /\ Given("delete")
      BY <3>1, <3>2, <3>3, <3>6 DEF RuleItems
    <3>7. CASE case.push /\ ~Given("delete")
      BY <3>1, <3>2, <3>4, <3>7 DEF RuleItems
    <3> QED BY <3>5, <3>6, <3>7
  <2>4. c2s' \in {<<>>, RuleItems}
    BY <1>2, <1>3, <1>4, <2>3, RuleItemsTyped, SentAlone
  <2>5. CommonPlaces'
    BY <1>1, <1>2, <1>3, <1>4, <2>4, Kept DEF CommonPlaces, At
  <2>6. ClientTerms'
    BY <1>1, <2>1, Kept DEF ClientTerms
  <2> QED BY <1>1, <2>5, <2>6, ClientKeeps, Kept DEF Places
<1>5. CASE Proto < 30
  <2>1. ShellPlaces'
    BY <1>1, <1>2, <1>3, <1>5, Kept DEF ShellPlaces
  <2>2. ClientTerms'
    BY <1>1, <1>3, <1>5, Kept DEF ClientTerms
  <2> QED BY <1>1, <2>1, <2>2, ClientKeeps, Kept DEF Places
<1> QED BY <1>3, <1>4, <1>5

\* The client that receives reads the list.
LEMMA CReadListStep == Going /\ CReadList => Going'
<1> SUFFICES ASSUME Going, CReadList PROVE Going'
  OBVIOUS
<1> USE DEF Going, HandshakeInv
<1>1. /\ cpc = "await_flist" /\ CGets /\ CTakes /\ cpc' = "session"
      /\ Client /\ UNCHANGED <<case, spc, c2s, crules, cterms, down>>
  BY DEF CReadList, Client
<1>2. CNeeds = <<"flist">> /\ s2c # <<>>
  BY <1>1, GetsFacts DEF CNeeds
<1>3. After(<<FlistItem>>, <<"flist">>) = <<>>
  BY ItemsTyped, TakeOne
<1>4. spc \in {"session", "failed"} /\ c2s = <<>> /\ s2c = <<FlistItem>> /\ Proto >= 30
  BY <1>1, <1>2 DEF Places, ShellPlaces, DaemonPlaces, CommonPlaces, At
<1>5. s2c' = <<>>
  BY <1>1, <1>2, <1>3, <1>4 DEF CTakes
<1>6. CommonPlaces'
  BY <1>1, <1>4, <1>5, Kept DEF CommonPlaces, At
<1>7. ClientTerms'
  BY <1>1, Kept DEF ClientTerms
<1> QED BY <1>1, <1>6, <1>7, ClientKeeps, Kept DEF Places

\* A program that gives up stays where it was, and so do the streams.
LEMMA GiveUpStep == Going /\ (CEof \/ SEof \/ Break) => Going'
<1> SUFFICES ASSUME Going, CEof \/ SEof \/ Break PROVE Going'
  OBVIOUS
<1> USE DEF Going, HandshakeInv
<1>1. /\ UNCHANGED <<case, crules, c2s, s2c, cterms, sterms, sflags>>
      /\ cpc' \in {cpc, "failed"} /\ spc' \in {spc, "failed"} /\ (down => down')
  BY DEF CEof, SEof, Break, Client, Server
<1>2. ShellPlaces => ShellPlaces'
  BY <1>1, Kept DEF ShellPlaces, At
<1>3. DaemonPlaces => DaemonPlaces'
  BY <1>1, Kept DEF DaemonPlaces, At
<1>4. CommonPlaces => CommonPlaces'
  BY <1>1, Kept DEF CommonPlaces, At
<1>5. ClientTerms' /\ ServerTerms'
  BY <1>1, Kept DEF ClientTerms, ServerTerms
<1> QED BY <1>1, <1>2, <1>3, <1>4, <1>5, Kept DEF Places

-----------------------------------------------------------------------------
(* The server's steps.                                                     *)

\* The server reads the version of the client and answers.
LEMMA SReadVersionStep == Going /\ SReadVersion => Going'
<1> SUFFICES ASSUME Going, SReadVersion PROVE Going'
  OBVIOUS
<1> USE DEF Going, HandshakeInv
<1>1. /\ spc = "version" /\ SGets /\ STakes /\ SSend(<<SVersion>>)
      /\ UNCHANGED <<case, cpc, cterms, crules, down>>
  BY DEF SReadVersion, Server, SVersion
<1>2. SNeeds = <<"version">> /\ c2s # <<>>
  BY <1>1, GetsFacts DEF SNeeds
<1>3. After(<<CVersion>>, <<"version">>) = <<>> /\ Head(<<CVersion>>) = CVersion
  BY ItemsTyped, TakeOne
<1>4. ~case.daemon /\ cpc \in {"await_version", "failed"} /\ c2s = <<CVersion>> /\ s2c = <<>>
  BY <1>1, <1>2 DEF Places, ShellPlaces, DaemonPlaces, CommonPlaces, At
<1>5. c2s' = <<>> /\ Head(c2s).v = case.cver
  BY <1>1, <1>2, <1>3, <1>4 DEF STakes, CVersion, Plain, Item
<1>6. s2c' = IF down THEN <<>> ELSE <<SVersion>>
  <2>1. <<SVersion>> \in Seq({SVersion})
    OBVIOUS
  <2> QED BY <1>1, <1>4, <2>1, Appended DEF SSend
<1>7. ClientTerms'
  BY <1>1, ServerKeeps
<1>8. CASE Acceptable(case.cver)
  <2>1. /\ sterms' = [sterms EXCEPT !.proto = Min2(case.sver, case.cver), !.sums = UseChecksum(Argv)]
        /\ sflags' = ServerFlags(Argv) /\ spc' = "compat"
    BY <1>5, <1>8 DEF SReadVersion, Argv
  <2>2. Min2(case.sver, case.cver) = Proto
    BY HandshakeAssumption DEF Proto, Min2
  <2>3. sterms' = STerms1
    BY <1>1, <2>1, <2>2 DEF ServerTerms, STerms1
  <2>4. ServerTerms'
    BY <1>1, <2>1, <2>3, Kept DEF ServerTerms
  <2>5. ShellPlaces'
    BY <1>1, <1>4, <1>5, <1>6, <1>8, <2>1, Kept DEF ShellPlaces, At
  <2> QED BY <1>1, <1>7, <2>4, <2>5, Kept DEF Places
<1>9. CASE ~Acceptable(case.cver)
  <2>1. spc' = "failed"
    BY <1>5, <1>9 DEF SReadVersion
  <2>2. ServerTerms'
    BY <2>1 DEF ServerTerms
  <2>3. ShellPlaces'
    BY <1>1, <1>4, <1>5, <1>6, <2>1, Kept DEF ShellPlaces, At
  <2> QED BY <1>1, <1>7, <2>2, <2>3, Kept DEF Places
<1> QED BY <1>8, <1>9

\* The daemon greets ...
LEMMA SGreetStep == Going /\ SGreet => Going'
<1> SUFFICES ASSUME Going, SGreet PROVE Going'
  OBVIOUS
<1> USE DEF Going, HandshakeInv
<1>1. /\ spc = "greet" /\ spc' = "await_greeting" /\ SSend(<<SGreeting>>)
      /\ UNCHANGED <<case, cpc, c2s, cterms, sterms, sflags, crules, down>>
  BY DEF SGreet, Server, SGreeting
<1>2. /\ case.daemon /\ s2c = <<>>
      /\ \/ cpc \in {"greet", "failed"} /\ c2s = <<>>
         \/ cpc \in {"await_greeting", "failed"} /\ c2s \in {<<>>, <<CGreeting>>} /\ (c2s = <<>> => down)
  BY <1>1 DEF Places, ShellPlaces, DaemonPlaces, CommonPlaces, At
<1>3. s2c' \in {<<>>, <<SGreeting>>}
  <2>1. <<SGreeting>> \in Seq({SGreeting})
    OBVIOUS
  <2> QED BY <1>1, <1>2, <2>1, SentAlone
<1>4. DaemonPlaces'
  BY <1>1, <1>2, <1>3, Kept DEF DaemonPlaces, At
<1>5. ServerTerms'
  BY <1>1, Kept DEF ServerTerms
<1> QED BY <1>1, <1>4, <1>5, ServerKeeps, Kept DEF Places

\* ... reads the greeting of the client ...
LEMMA SReadGreetingStep == Going /\ SReadGreeting => Going'
<1> SUFFICES ASSUME Going, SReadGreeting PROVE Going'
  OBVIOUS
<1> USE DEF Going, HandshakeInv
<1>1. /\ spc = "await_greeting" /\ SGets /\ STakes /\ spc' = "await_module"
      /\ UNCHANGED <<case, cpc, s2c, cterms, sterms, sflags, crules, down>>
  BY DEF SReadGreeting, Server
<1>2. SNeeds = <<"greeting">> /\ c2s # <<>>
  BY <1>1, GetsFacts DEF SNeeds
<1>3. /\ After(<<CGreeting>>, <<"greeting">>) = <<>>
      /\ After(<<CGreeting, Module>>, <<"greeting">>) = <<Module>>
  <2> DEFINE s == <<Module>>
  <2>1. s \in Seq({Module})
    OBVIOUS
  <2>2. <<CGreeting>> \o s = <<CGreeting, Module>>
    BY JoinShape
  <2> HIDE DEF s
  <2>3. After(<<CGreeting>>, <<"greeting">>) = <<>> /\ After(<<CGreeting>> \o s, <<"greeting">>) = s
    BY <2>1, TakeOne
  <2> QED BY <2>2, <2>3 DEF s
<1>4. /\ case.daemon
      /\ \/ cpc \in {"await_greeting", "failed"} /\ c2s = <<CGreeting>> /\ s2c \in {<<>>, <<SGreeting>>}
         \/ /\ cpc \in {"await_ok", "failed"} /\ c2s \in {<<CGreeting>>, <<CGreeting, Module>>} /\ s2c = <<>>
            /\ Proto >= 30
  BY <1>1, <1>2 DEF Places, ShellPlaces, DaemonPlaces, CommonPlaces, At
<1>5. /\ c2s = <<CGreeting>> => c2s' = <<>>
      /\ c2s = <<CGreeting, Module>> => c2s' = <<Module>>
  BY <1>1, <1>2, <1>3 DEF STakes
<1>6. DaemonPlaces'
  BY <1>1, <1>4, <1>5, Kept DEF DaemonPlaces, At
<1>7. ServerTerms'
  BY <1>1, Kept DEF ServerTerms
<1> QED BY <1>1, <1>6, <1>7, ServerKeeps, Kept DEF Places

\* The line reader has nothing of the arguments yet that it could lose.
LEMMA SReadModuleStep == Going /\ SReadModule => Going'
<1> SUFFICES ASSUME Going, SReadModule PROVE Going'
  OBVIOUS
<1> USE DEF Going, HandshakeInv
<1> DEFINE okay == <<Plain("ok", 0)>>
           text == <<Plain("text", 0), Plain("exit", 0)>>
           error == <<Plain("error", 0)>>
<1>1. /\ spc = "await_module" /\ SGets
      /\ \/ /\ \E n \in 1..Len(c2s) : c2s' = SubSeq(c2s, n + 1, Len(c2s))
            /\ SSend(okay) /\ spc' = "await_argv"
         \/ STakes /\ SSend(text) /\ spc' = "failed"
         \/ STakes /\ SSend(error) /\ spc' = "failed"
      /\ UNCHANGED <<case, cpc, cterms, sterms, sflags, crules, down>>
  BY DEF SReadModule, Server
<1>2. SNeeds = <<"module">> /\ c2s # <<>>
  BY <1>1, GetsFacts DEF SNeeds
<1>3. After(<<Module>>, <<"module">>) = <<>>
  BY ItemsTyped, TakeOne
<1>4. case.daemon /\ cpc \in {"await_ok", "failed"} /\ c2s = <<Module>> /\ s2c = <<>> /\ Proto >= 30
  BY <1>1, <1>2 DEF Places, ShellPlaces, DaemonPlaces, CommonPlaces, At
<1>5. c2s' = <<>>
  <2>1. Len(<<Module>>) = 1 /\ SubSeq(<<Module>>, 2, 1) = <<>>
    OBVIOUS
  <2>2. \A n \in 1..Len(c2s) : SubSeq(c2s, n + 1, Len(c2s)) = <<>>
    BY <1>4, <2>1
  <2> QED BY <1>1, <1>2, <1>3, <1>4, <2>2 DEF STakes
<1>6. /\ SSend(okay) => s2c' \in {<<>>, okay}
      /\ SSend(text) => s2c' \in {<<>>, text}
      /\ SSend(error) => s2c' \in {<<>>, error}
  <2> DEFINE P == {Plain("ok", 0), Plain("text", 0), Plain("exit", 0), Plain("error", 0)}
  <2>1. okay \in Seq(P) /\ text \in Seq(P) /\ error \in Seq(P)
    BY TupleTyped
  <2> HIDE DEF P, okay, text, error
  <2> QED BY <1>4, <2>1, SentAlone
<1>7. DaemonPlaces'
  BY <1>1, <1>4, <1>5, <1>6, Kept DEF DaemonPlaces, At
<1>8. ServerTerms'
  BY <1>1, Kept DEF ServerTerms
<1> QED BY <1>1, <1>7, <1>8, ServerKeeps, Kept DEF Places

\* ... and its arguments.
LEMMA SReadArgvStep == Going /\ SReadArgv => Going'
<1> SUFFICES ASSUME Going, SReadArgv PROVE Going'
  OBVIOUS
<1> USE DEF Going, HandshakeInv
<1> DEFINE item == Plain("argv", Argv)
<1>1. /\ spc = "await_argv" /\ SGets /\ STakes
      /\ UNCHANGED <<case, cpc, cterms, crules, down>>
  BY DEF SReadArgv, Server
<1>2. SNeeds = <<"argv">> /\ c2s # <<>>
  BY <1>1, GetsFacts DEF SNeeds
<1>3. After(<<item>>, <<"argv">>) = <<>> /\ Head(<<item>>) = item
  BY ItemsTyped, TakeOne
<1>4. case.daemon /\ cpc \in {"compat", "failed"} /\ c2s = <<item>> /\ s2c = <<>> /\ Proto >= 30
  BY <1>1, <1>2 DEF Places, ShellPlaces, DaemonPlaces, CommonPlaces, At
<1>5. c2s' = <<>> /\ Head(c2s).v = Argv
  BY <1>1, <1>2, <1>3, <1>4 DEF STakes, Plain, Item
<1>6. ClientTerms'
  BY <1>1, ServerKeeps
<1>7. CASE RefusedLate
  <2>1. SSend(<<Plain("error", 0)>>) /\ spc' = "failed" /\ UNCHANGED <<sterms, sflags>>
    BY <1>7 DEF SReadArgv, RefusedLate
  <2>2. s2c' \in {<<>>, <<Plain("error", 0)>>}
    <3> DEFINE x == Plain("error", 0)
    <3> HIDE DEF x
    <3>1. <<x>> \in Seq({x})
      OBVIOUS
    <3>2. SSend(<<x>>)
      BY <2>1 DEF x
    <3>3. s2c' \in {<<>>, <<x>>}
      BY <1>4, <3>1, <3>2, SentAlone
    <3> QED BY <3>3 DEF x
  <2>3. DaemonPlaces'
    BY <1>1, <1>4, <1>5, <1>7, <2>1, <2>2, Kept DEF DaemonPlaces, At
  <2>4. ServerTerms'
    BY <2>1 DEF ServerTerms
  <2> QED BY <1>1, <1>6, <2>3, <2>4, Kept DEF Places
<1>8. CASE ~RefusedLate
  <2>1. ~(case.push /\ case.module = "read_only")
    BY <1>4, <1>8 DEF RefusedLate
  <2>2. /\ sterms' = [sterms EXCEPT !.proto = case.sver, !.sums = UseChecksum(Argv)]
        /\ sflags' = ServerFlags(Argv) /\ spc' = "compat" /\ s2c' = s2c
    BY <1>5, <2>1 DEF SReadArgv
  <2>3. case.sver = Proto
    BY <1>4, HandshakeAssumption DEF Proto, Min2, Supported
  <2>4. sterms' = STerms1
    BY <1>1, <2>2, <2>3 DEF ServerTerms, STerms1
  <2>5. ServerTerms'
    BY <1>1, <2>2, <2>4, Kept DEF ServerTerms
  <2>6. CommonPlaces'
    BY <1>1, <1>4, <1>5, <2>2, Kept DEF CommonPlaces, At
  <2> QED BY <1>1, <1>6, <2>5, <2>6, Kept DEF Places
<1> QED BY <1>7, <1>8

\* The server sends the compatibility flags and its lists ...
LEMMA SSendCompatStep == Going /\ SSendCompat => Going'
<1> SUFFICES ASSUME Going, SSendCompat PROVE Going'
  OBVIOUS
<1> USE DEF Going, HandshakeInv
<1>1. /\ spc = "compat" /\ UNCHANGED <<case, cpc, cterms, crules, down, c2s, sflags>>
  BY DEF SSendCompat, Server
<1>2. sterms = STerms1 /\ sterms.proto = Proto /\ sflags = ServerFlags(Argv)
  BY <1>1 DEF ServerTerms, STerms1, NoTerms
<1>3. /\ c2s = <<>>
      /\ \/ /\ ~case.daemon /\ cpc \in {"await_version", "failed"} /\ s2c \in {<<>>, <<SVersion>>}
            /\ Acceptable(case.cver) /\ (cpc = "await_version" /\ s2c = <<>> => down)
         \/ cpc \in {"compat", "failed"} /\ s2c = <<>> /\ Proto >= 30
  BY <1>1 DEF Places, ShellPlaces, DaemonPlaces, CommonPlaces, At
<1>4. case.cver \in Nat /\ case.sver \in Nat /\ Proto \in Nat /\ (Proto >= 30 \/ Proto < 20)
  BY HandshakeAssumption DEF Supported, Proto, Min2, MIN_PROTOCOL_VERSION
<1>5. ClientTerms'
  BY <1>1, ServerKeeps
<1>6. CASE Proto >= 30
  <2>1. spc' = "await_lists" /\ sterms' = sterms
        /\ SSend(ItemsOf(<<"compat">> \o Lists("compress" \in sflags)))
    BY <1>2, <1>6 DEF SSendCompat
  <2>2. SSend(CompatItems)
    <3>1. ("compress" \in sflags) = Given("compress")
      BY <1>2, OptionFacts
    <3> QED BY <2>1, <3>1 DEF CompatItems
  <2>3. <<>> \o CompatItems = CompatItems
    BY ItemsTyped, Appended
  <2>4. s2c' = IF down THEN s2c ELSE s2c \o CompatItems
    BY <2>2 DEF SSend
  <2>5. ShellPlaces' \/ CommonPlaces'
    <3>1. CASE s2c = <<SVersion>>
      BY <1>1, <1>3, <1>6, <2>1, <2>4, <3>1, Kept DEF ShellPlaces, At
    <3>2. CASE s2c = <<>> /\ down
      BY <1>1, <1>3, <1>6, <2>1, <2>4, <3>2, Kept DEF ShellPlaces, CommonPlaces, At
    <3>3. CASE s2c = <<>> /\ ~down
      BY <1>1, <1>3, <1>6, <2>1, <2>3, <2>4, <3>3, Kept DEF CommonPlaces, At
    <3> QED BY <1>3, <3>1, <3>2, <3>3
  <2>6. ServerTerms'
    BY <1>1, <1>2, <2>1, Kept DEF ServerTerms
  <2> QED BY <1>1, <1>5, <2>5, <2>6, Kept DEF Places
<1>7. CASE Proto < 20
  <2>1. spc' = "rules" /\ s2c' = s2c
    BY <1>2, <1>4, <1>7 DEF SSendCompat
  <2>2. ~Acceptable(case.sver)
    <3>1. Acceptable(case.cver)
      BY <1>3, <1>4, <1>7
    <3>2. Proto = case.cver \/ Proto = case.sver
      BY DEF Proto, Min2
    <3> QED BY <1>4, <1>7, <3>1, <3>2 DEF Acceptable, MIN_PROTOCOL_VERSION, MAX_PROTOCOL_VERSION
  <2>3. ShellPlaces'
    BY <1>1, <1>3, <1>4, <1>7, <2>1, <2>2, Kept DEF ShellPlaces, At
  <2>4. ServerTerms'
    BY <1>1, <1>2, <1>4, <1>7, <2>1, Kept DEF ServerTerms
  <2> QED BY <1>1, <1>5, <2>3, <2>4, Kept DEF Places
<1> QED BY <1>4, <1>6, <1>7

\* ... answers the lists of the client with the seed ...
LEMMA SReadListsStep == Going /\ SReadLists => Going'
<1> SUFFICES ASSUME Going, SReadLists PROVE Going'
  OBVIOUS
<1> USE DEF Going, HandshakeInv
<1>1. /\ spc = "await_lists" /\ SGets /\ STakes /\ SSend(<<Plain("seed", Seed)>>) /\ spc' = "rules"
      /\ sterms' = SMux([sterms EXCEPT !.seed = Seed, !.zlib = "compress" \in sflags])
      /\ UNCHANGED <<case, cpc, cterms, crules, down, sflags>>
  BY DEF SReadLists, Server
<1>2. SNeeds = Lists("compress" \in sflags) /\ c2s # <<>>
  BY <1>1, GetsFacts DEF SNeeds
<1>3. sterms = STerms1 /\ sflags = ServerFlags(Argv)
  BY <1>1 DEF ServerTerms
<1>4. cpc \in {"await_seed", "failed"} /\ c2s = ListItems /\ s2c = <<>> /\ Proto >= 30
  BY <1>1, <1>2 DEF Places, ShellPlaces, DaemonPlaces, CommonPlaces, At
<1>5. Len(SNeeds) = Len(ListItems)
  <2>1. SNeeds = Lists(Given("compress"))
    BY <1>2, <1>3, OptionFacts
  <2>2. CASE Given("compress")
    <3>1. SNeeds = <<"sums", "comp">> /\ ListItems = <<Plain("sums", 0), Plain("comp", 0)>>
      BY <2>1, <2>2, ListShape, CompatShape
    <3> QED BY <3>1
  <2>3. CASE ~Given("compress")
    <3>1. SNeeds = <<"sums">> /\ ListItems = <<Plain("sums", 0)>>
      BY <2>1, <2>3, ListShape, CompatShape
    <3> QED BY <3>1
  <2> QED BY <2>2, <2>3
<1>6. c2s' = <<>>
  <2>1. After(ListItems, SNeeds) = <<>>
    BY <1>5, ItemsTyped, NeedsTyped, AfterAll
  <2> QED BY <1>1, <1>4, <2>1 DEF STakes
<1>7. s2c' \in {<<>>, <<Plain("seed", Seed)>>}
  <2> DEFINE x == Plain("seed", Seed)
  <2> HIDE DEF x
  <2>1. <<x>> \in Seq({x})
    OBVIOUS
  <2>2. SSend(<<x>>)
    BY <1>1 DEF x
  <2>3. s2c' \in {<<>>, <<x>>}
    BY <1>4, <2>1, <2>2, SentAlone
  <2> QED BY <2>3 DEF x
<1>8. sterms' = SMux(STerms2)
  BY <1>1, <1>3 DEF STerms2
<1>9. ServerTerms'
  BY <1>1, <1>3, <1>8, Kept DEF ServerTerms
<1>10. CommonPlaces'
  BY <1>1, <1>4, <1>6, <1>7, Kept DEF CommonPlaces, At
<1> QED BY <1>1, <1>9, <1>10, ServerKeeps, Kept DEF Places

\* The server reads filter rules when, and only when, they were sent.
LEMMA RulesNeeded ==
    ASSUME Going, spc = "rules"
    PROVE  /\ ~case.push => SNeeds = <<"filters">>
           /\ case.push /\ Given("delete") => SNeeds = <<"filters", "flist">>
           /\ case.push /\ ~Given("delete") => SNeeds = <<"flist">>
<1> USE DEF Going, HandshakeInv
<1>1. sflags = ServerFlags(Argv)
  BY DEF ServerTerms
<1>2. case.push => ("delete" \in sflags) = Given("delete")
  BY <1>1, OptionFacts
<1>3. SNeeds = IF ~case.push THEN <<"filters">>
               ELSE IF "delete" \in sflags THEN <<"filters", "flist">> ELSE <<"flist">>
  BY DEF SNeeds
<1> QED BY <1>2, <1>3

\* ... and reads the filter rules or the list.
LEMMA SReadRulesStep == Going /\ SReadRules => Going'
<1> SUFFICES ASSUME Going, SReadRules PROVE Going'
  OBVIOUS
<1>1. /\ spc = "rules" /\ SGets /\ STakes /\ spc' = "session"
      /\ IF case.push THEN s2c' = s2c ELSE SSend(<<SItem("flist")>>)
      /\ UNCHANGED <<case, cpc, cterms, crules, down, sflags, sterms>>
  BY DEF SReadRules
<1>2. c2s # <<>> /\ case \in Cases /\ Supported(case) /\ case.push \in BOOLEAN
  BY <1>1, GetsFacts, HandshakeAssumption DEF Going, HandshakeInv
<1>3. /\ cpc \in {IF case.push THEN "session" ELSE "await_flist", "failed"} /\ c2s = RuleItems /\ s2c = <<>>
      /\ Proto >= 30
  BY <1>1, <1>2 DEF Going, HandshakeInv, Places, ShellPlaces, DaemonPlaces, CommonPlaces, At
<1>4. Len(SNeeds) = Len(RuleItems)
  <2>1. CASE ~case.push
    <3>1. SNeeds = <<"filters">> /\ RuleItems = <<FilterItem>>
      BY <1>1, <2>1, RulesNeeded DEF RuleItems
    <3> QED BY <3>1
  <2>2. CASE case.push /\ Given("delete")
    <3>1. SNeeds = <<"filters", "flist">> /\ RuleItems = <<FilterItem, FlistItem>>
      BY <1>1, <2>2, RulesNeeded DEF RuleItems
    <3> QED BY <3>1
  <2>3. CASE case.push /\ ~Given("delete")
    <3>1. SNeeds = <<"flist">> /\ RuleItems = <<FlistItem>>
      BY <1>1, <2>3, RulesNeeded DEF RuleItems
    <3> QED BY <3>1
  <2> QED BY <2>1, <2>2, <2>3
<1>5. c2s' = <<>>
  <2>1. After(RuleItems, SNeeds) = <<>>
    BY <1>4, RuleItemsTyped, NeedsTyped, AfterAll
  <2> QED BY <1>1, <1>3, <2>1 DEF STakes
<1>6. sterms = SMux(STerms2)
  BY <1>1, <1>2, <1>3 DEF Going, HandshakeInv, ServerTerms
<1>7. s2c' \in {<<>>} \cup (IF case.push THEN {} ELSE {<<FlistItem>>})
  <2>1. sterms.muxout = TRUE
    BY <1>6 DEF SMux, STerms2, STerms1, NoTerms
  <2>2. SItem("flist") = FlistItem
    BY <2>1 DEF SItem, FlistItem
  <2>3. <<FlistItem>> \in Seq({FlistItem})
    OBVIOUS
  <2>4. SSend(<<FlistItem>>) => s2c' \in {<<>>, <<FlistItem>>}
    BY <1>3, <2>3, SentAlone
  <2> QED BY <1>1, <1>3, <2>2, <2>4
<1>8. CommonPlaces'
  BY <1>1, <1>2, <1>3, <1>5, <1>7, Kept DEF CommonPlaces, At
<1>9. ServerTerms' /\ ClientTerms'
  BY <1>1, <1>2, Kept, ServerKeeps DEF Going, HandshakeInv, ServerTerms
<1> QED BY <1>1, <1>2, <1>8, <1>9, Kept DEF Going, HandshakeInv, Places

-----------------------------------------------------------------------------
(* The theorems.                                                           *)

\* The invariant holds when both have started.
LEMMA HandshakeInit == Init => HandshakeInv
<1> SUFFICES ASSUME Init PROVE HandshakeInv
  OBVIOUS
<1>1. /\ case \in Cases /\ cpc = (IF case.daemon THEN "greet" ELSE "version") /\ spc = cpc
      /\ c2s = <<>> /\ s2c = <<>> /\ cterms = NoTerms /\ sterms = NoTerms
  BY DEF Init
<1>2. Places
  BY <1>1 DEF Places, ShellPlaces, DaemonPlaces, At
<1>3. ClientTerms /\ ServerTerms
  BY <1>1 DEF ClientTerms, ServerTerms
<1> QED BY <1>1, <1>2, <1>3 DEF HandshakeInv

\* Every step keeps the invariant.
LEMMA HandshakeStep == HandshakeInv /\ [Next]_vars => HandshakeInv'
<1> SUFFICES ASSUME HandshakeInv, [Next]_vars PROVE HandshakeInv'
  OBVIOUS
<1>1. case' = case
  BY DEF Next, ClientStep, ServerStep, CSendVersion, CReadVersion, CGreet, CReadGreeting, CReadOk,
         CReadLine, CReadCompat, CReadSeed, CSendRules, CReadList, CEof, SReadVersion, SGreet,
         SReadGreeting, SReadModule, SReadArgv, SSendCompat, SReadLists, SReadRules, SEof, Break,
         Client, Server, vars
<1>2. CASE ~Supported(case)
  BY <1>1, <1>2 DEF HandshakeInv
<1>3. CASE Supported(case)
  <2>1. Going
    BY <1>3 DEF Going
  <2>2. CASE UNCHANGED vars
    <3>1. UNCHANGED <<case, cpc, spc, c2s, s2c, cterms, sterms, sflags, crules, down>>
      BY <2>2 DEF vars
    <3>2. Places => Places'
      BY <3>1, Kept DEF Places, ShellPlaces, DaemonPlaces, CommonPlaces, At
    <3>3. (ClientTerms => ClientTerms') /\ (ServerTerms => ServerTerms')
      BY <3>1, Kept DEF ClientTerms, ServerTerms
    <3> QED BY <1>3, <3>1, <3>2, <3>3 DEF HandshakeInv
  <2>3. CASE ClientStep
    BY <2>1, <2>3, CSendVersionStep, CReadVersionStep, CGreetStep, CReadGreetingStep, CReadOkStep,
       CReadLineStep, CReadCompatStep, CReadSeedStep, CSendRulesStep, CReadListStep, GiveUpStep
       DEF ClientStep, Going
  <2>4. CASE ServerStep
    BY <2>1, <2>4, SReadVersionStep, SGreetStep, SReadGreetingStep, SReadModuleStep, SReadArgvStep,
       SSendCompatStep, SReadListsStep, SReadRulesStep, GiveUpStep DEF ServerStep, Going
  <2>5. CASE Break
    BY <2>1, <2>5, GiveUpStep DEF Going
  <2> QED BY <2>2, <2>3, <2>4, <2>5 DEF Next
<1> QED BY <1>2, <1>3

\* The invariant: the table of the places the two programs can be at together, what is
\* on its way between them at each, and what either holds for agreed.
THEOREM HandshakeInvHolds == Spec => []HandshakeInv
  BY HandshakeInit, HandshakeStep, PTL DEF Spec

\* One item that fits is not one of another kind.
LEMMA OneNeed ==
    ASSUME NEW n, NEW framed, NEW s, s = <<>> \/ Fits(s[1], n, framed)
    PROVE  ~Other(s, <<n>>, framed) /\ ~Other(s, <<>>, framed)
  BY DEF Other

\* Nor are two or three.
LEMMA TupleFits ==
    ASSUME NEW a, NEW b, NEW c, NEW x, NEW y, NEW z, NEW framed
    PROVE  /\ Fits(x, a, framed) => ~Other(<<x>>, <<a>>, framed) /\ ~Other(<<x, y>>, <<a>>, framed)
           /\ Fits(x, a, framed) /\ Fits(y, b, framed) => ~Other(<<x, y>>, <<a, b>>, framed)
           /\ Fits(x, a, framed) /\ Fits(y, b, framed) /\ Fits(z, c, framed)
                => ~Other(<<x, y, z>>, <<a, b, c>>, framed)
<1> DEFINE F(i, n) == Fits(i, n, framed)
<1>1. \A s, needs : Other(s, needs, framed) <=> \E i \in DOMAIN needs \cap DOMAIN s : ~F(s[i], needs[i])
  BY DEF Other
<1> HIDE DEF F
<1>2. /\ F(x, a) => ~Other(<<x>>, <<a>>, framed) /\ ~Other(<<x, y>>, <<a>>, framed)
      /\ F(x, a) /\ F(y, b) => ~Other(<<x, y>>, <<a, b>>, framed)
      /\ F(x, a) /\ F(y, b) /\ F(z, c) => ~Other(<<x, y, z>>, <<a, b, c>>, framed)
  BY <1>1
<1> QED BY <1>2 DEF F

\* Nor is nothing.
LEMMA EmptyFits == ASSUME NEW needs, NEW framed PROVE ~Other(<<>>, needs, framed)
  BY DEF Other

\* A server finds in its stream what it reads for.
LEMMA ServerInStep == Going => ~SAstray
<1> SUFFICES ASSUME Going PROVE ~SAstray
  OBVIOUS
<1> USE DEF Going, HandshakeInv
<1>1. CASE spc \in {"version", "await_greeting", "await_module", "await_argv"}
  <2>1. sterms.muxin = FALSE
    BY <1>1 DEF ServerTerms, NoTerms
  <2>2. SNeeds = <<IF spc = "version" THEN "version" ELSE IF spc = "await_greeting" THEN "greeting"
                   ELSE IF spc = "await_module" THEN "module" ELSE "argv">>
    BY <1>1 DEF SNeeds
  <2>3. /\ spc = "version" => c2s \in {<<>>, <<CVersion>>}
        /\ spc = "await_greeting" => c2s \in {<<>>, <<CGreeting>>, <<CGreeting, Module>>}
        /\ spc = "await_module" => c2s \in {<<>>, <<Module>>}
        /\ spc = "await_argv" => c2s \in {<<>>, <<Plain("argv", Argv)>>}
    BY DEF Places, ShellPlaces, DaemonPlaces, CommonPlaces, At
  <2>4. c2s = <<>> \/ Fits(c2s[1], SNeeds[1], FALSE)
    BY <1>1, <2>2, <2>3 DEF Fits, CVersion, CGreeting, Module, Plain, Item
  <2>5. PICK n : SNeeds = <<n>>
    BY <2>2
  <2> QED BY <2>1, <2>4, <2>5, OneNeed DEF SAstray
<1>2. CASE spc = "await_lists"
  <2>1. sterms.muxin = FALSE /\ sflags = ServerFlags(Argv)
    BY <1>2 DEF ServerTerms, STerms1, NoTerms
  <2>2. SNeeds = Lists(Given("compress"))
    BY <1>2, <2>1, OptionFacts DEF SNeeds
  <2>3. c2s \in {<<>>, ListItems}
    BY <1>2 DEF Places, ShellPlaces, DaemonPlaces, CommonPlaces, At
  <2>4. ~Other(ListItems, SNeeds, FALSE)
    <3>1. CASE Given("compress")
      <4>1. SNeeds = <<"sums", "comp">> /\ ListItems = <<Plain("sums", 0), Plain("comp", 0)>>
        BY <2>2, <3>1, ListShape, CompatShape
      <4>2. Fits(Plain("sums", 0), "sums", FALSE) /\ Fits(Plain("comp", 0), "comp", FALSE)
        BY DEF Fits, Plain, Item
      <4> QED BY <4>1, <4>2, TupleFits
    <3>2. CASE ~Given("compress")
      <4>1. SNeeds = <<"sums">> /\ ListItems = <<Plain("sums", 0)>>
        BY <2>2, <3>2, ListShape, CompatShape
      <4>2. Fits(Plain("sums", 0), "sums", FALSE)
        BY DEF Fits, Plain, Item
      <4> QED BY <4>1, <4>2, TupleFits
    <3> QED BY <3>1, <3>2
  <2> QED BY <2>1, <2>3, <2>4, EmptyFits DEF SAstray
<1>3. CASE spc = "rules"
  <2>1. c2s = <<>> \/ (c2s = RuleItems /\ Proto >= 30)
    BY <1>3 DEF Places, ShellPlaces, DaemonPlaces, CommonPlaces, At
  <2>2. CASE c2s = <<>>
    BY <2>2, EmptyFits DEF SAstray
  <2>3. CASE c2s = RuleItems /\ Proto >= 30
    <3>1. sterms.muxin = TRUE
      BY <1>3, <2>3 DEF ServerTerms, SMux, STerms2, STerms1, NoTerms
    <3>2. Fits(FilterItem, "filters", TRUE) /\ Fits(FlistItem, "flist", TRUE)
      BY DEF Fits, FilterItem, FlistItem, Item
    <3>3. CASE ~case.push
      <4>1. SNeeds = <<"filters">> /\ c2s = <<FilterItem>>
        BY <1>3, <2>3, <3>3, RulesNeeded DEF RuleItems
      <4>2. ~Other(c2s, SNeeds, TRUE)
        BY <3>2, <4>1, TupleFits
      <4> QED BY <3>1, <4>2 DEF SAstray
    <3>4. CASE case.push /\ Given("delete")
      <4>1. SNeeds = <<"filters", "flist">> /\ c2s = <<FilterItem, FlistItem>>
        BY <1>3, <2>3, <3>4, RulesNeeded DEF RuleItems
      <4>2. ~Other(c2s, SNeeds, TRUE)
        BY <3>2, <4>1, TupleFits
      <4> QED BY <3>1, <4>2 DEF SAstray
    <3>5. CASE case.push /\ ~Given("delete")
      <4>1. SNeeds = <<"flist">> /\ c2s = <<FlistItem>>
        BY <1>3, <2>3, <3>5, RulesNeeded DEF RuleItems
      <4>2. ~Other(c2s, SNeeds, TRUE)
        BY <3>2, <4>1, TupleFits
      <4> QED BY <3>1, <4>2 DEF SAstray
    <3> QED BY <3>3, <3>4, <3>5
  <2> QED BY <2>1, <2>2, <2>3
<1>4. CASE spc \notin {"version", "await_greeting", "await_module", "await_argv", "await_lists", "rules"}
  <2>1. SNeeds = <<>>
    BY <1>4 DEF SNeeds
  <2> QED BY <2>1 DEF SAstray, Other
<1> QED BY <1>1, <1>2, <1>3, <1>4

\* So does a client, unless the daemon has refused it after all.
LEMMA ClientInStep == Going /\ ~RefusedLate => ~CAstray
<1> SUFFICES ASSUME Going, ~RefusedLate PROVE ~CAstray
  OBVIOUS
<1> USE DEF Going, HandshakeInv
<1>1. CASE cpc \in {"await_version", "await_greeting", "await_ok", "await_seed"}
  <2>1. cterms.muxin = FALSE
    BY <1>1 DEF ClientTerms, CTerms1, NoTerms
  <2>2. CNeeds = <<IF cpc = "await_version" THEN "version" ELSE IF cpc = "await_greeting" THEN "greeting"
                   ELSE IF cpc = "await_ok" THEN "line" ELSE "seed">>
    BY <1>1 DEF CNeeds
  <2>3. /\ cpc = "await_version" => s2c \in {<<>>, <<SVersion>>, <<SVersion>> \o CompatItems}
        /\ cpc = "await_greeting" => s2c \in {<<>>, <<SGreeting>>}
        /\ cpc = "await_ok" => s2c \in {<<>>, <<Plain("ok", 0)>>, <<Plain("error", 0)>>, <<Plain("exit", 0)>>,
                                        <<Plain("text", 0), Plain("exit", 0)>>}
        /\ cpc = "await_seed" => s2c \in {<<>>, <<Plain("seed", Seed)>>}
    BY DEF Places, ShellPlaces, DaemonPlaces, CommonPlaces, At
  <2>4. (<<SVersion>> \o CompatItems)[1] = SVersion
    <3> DEFINE Q == Items \cup {SVersion}
    <3>1. CompatItems \in Seq(Q) /\ <<SVersion>> \in Seq(Q)
      BY ItemsTyped
    <3> HIDE DEF Q
    <3> QED BY <3>1
  <2>5. /\ Fits(SVersion, "version", FALSE) /\ Fits(SGreeting, "greeting", FALSE)
        /\ Fits(Plain("seed", Seed), "seed", FALSE)
        /\ \A k \in Line : Fits(Plain(k, 0), "line", FALSE)
    BY DEF Fits, SVersion, SGreeting, Plain, Item
  <2>6. CASE cpc = "await_version"
    <3>1. s2c = <<>> \/ s2c[1] = SVersion
      BY <2>3, <2>4, <2>6
    <3>2. s2c = <<>> \/ Fits(s2c[1], "version", FALSE)
      BY <2>5, <3>1
    <3>3. CNeeds = <<"version">>
      BY <2>2, <2>6
    <3> QED BY <2>1, <3>2, <3>3, OneNeed DEF CAstray
  <2>7. CASE cpc = "await_greeting"
    <3>1. CNeeds = <<"greeting">>
      BY <2>2, <2>7
    <3>2. ~Other(<<SGreeting>>, <<"greeting">>, FALSE)
      BY <2>5, TupleFits
    <3> QED BY <2>1, <2>3, <2>7, <3>1, <3>2, EmptyFits DEF CAstray
  <2>8. CASE cpc = "await_ok"
    <3>1. CNeeds = <<"line">>
      BY <2>2, <2>8
    <3>2. \A k \in Line : ~Other(<<Plain(k, 0)>>, <<"line">>, FALSE)
                          /\ ~Other(<<Plain(k, 0), Plain("exit", 0)>>, <<"line">>, FALSE)
      BY <2>5, TupleFits
    <3>3. "ok" \in Line /\ "error" \in Line /\ "exit" \in Line /\ "text" \in Line
      BY DEF Line
    <3> QED BY <2>1, <2>3, <2>8, <3>1, <3>2, <3>3, EmptyFits DEF CAstray
  <2>9. CASE cpc = "await_seed"
    <3>1. CNeeds = <<"seed">>
      BY <2>2, <2>9
    <3>2. ~Other(<<Plain("seed", Seed)>>, <<"seed">>, FALSE)
      BY <2>5, TupleFits
    <3> QED BY <2>1, <2>3, <2>9, <3>1, <3>2, EmptyFits DEF CAstray
  <2> QED BY <1>1, <2>6, <2>7, <2>8, <2>9
<1>2. CASE cpc = "compat"
  <2>1. cterms.muxin = FALSE
    BY <1>2 DEF ClientTerms, CTerms1, NoTerms
  <2>2. s2c \in {<<>>, CompatItems}
    BY <1>2 DEF Places, ShellPlaces, DaemonPlaces, CommonPlaces, At
  <2>3. CNeeds = <<"compat">> \o Lists(Given("compress"))
    BY <1>2 DEF CNeeds
  <2>4. /\ Fits(Plain("compat", 0), "compat", FALSE)
        /\ Fits(Plain("sums", 0), "sums", FALSE) /\ Fits(Plain("comp", 0), "comp", FALSE)
    BY DEF Fits, Plain, Item
  <2>5. ~Other(CompatItems, CNeeds, FALSE)
    <3>1. CASE Given("compress")
      <4>1. /\ CNeeds = <<"compat", "sums", "comp">>
            /\ CompatItems = <<Plain("compat", 0), Plain("sums", 0), Plain("comp", 0)>>
        BY <2>3, <3>1, ListShape, CompatShape
      <4> QED BY <2>4, <4>1, TupleFits
    <3>2. CASE ~Given("compress")
      <4>1. CNeeds = <<"compat", "sums">> /\ CompatItems = <<Plain("compat", 0), Plain("sums", 0)>>
        BY <2>3, <3>2, ListShape, CompatShape
      <4> QED BY <2>4, <4>1, TupleFits
    <3> QED BY <3>1, <3>2
  <2> QED BY <2>1, <2>2, <2>5, EmptyFits DEF CAstray
<1>3. CASE cpc = "await_flist"
  <2>1. s2c = <<>> \/ (s2c = <<FlistItem>> /\ Proto >= 30)
    BY <1>3 DEF Places, ShellPlaces, DaemonPlaces, CommonPlaces, At
  <2>2. CNeeds = <<"flist">>
    BY <1>3 DEF CNeeds
  <2>3. s2c = <<FlistItem>> /\ Proto >= 30 => cterms.muxin = TRUE
    BY <1>3 DEF ClientTerms, CMux, CTerms2, CTerms1, NoTerms
  <2>4. Fits(FlistItem, "flist", TRUE)
    BY DEF Fits, FlistItem, Item
  <2>5. ~Other(<<FlistItem>>, <<"flist">>, TRUE)
    BY <2>4, TupleFits
  <2> QED BY <2>1, <2>2, <2>3, <2>5, EmptyFits DEF CAstray
<1>4. CASE cpc \notin {"await_version", "await_greeting", "await_ok", "await_seed", "compat", "await_flist"}
  <2>1. CNeeds = <<>>
    BY <1>4 DEF CNeeds
  <2> QED BY <2>1 DEF CAstray, Other
<1> QED BY <1>1, <1>2, <1>3, <1>4

\* Neither program ever takes one thing on the wire for another: whatever the options,
\* the versions and the rules, and wherever the connection breaks, what a supported
\* client and server write is what the other one reads for at that place, framed as it
\* expects, except that a daemon's late refusal meets a client waiting for flags.
THEOREM InStepHolds == Spec => [](Supported(case) => InStep)
<1>1. HandshakeInv => (Supported(case) => InStep)
  BY ServerInStep, ClientInStep DEF Going, InStep
<1> QED BY <1>1, HandshakeInvHolds, PTL

\* When both sides begin the transfer they have the same protocol, seed and compression,
\* the same view of an entry of the file list, and the framing that the other one uses.
THEOREM AgreedHolds == Spec => [](Supported(case) => Agreed)
<1>1. HandshakeInv => (Supported(case) => Agreed)
  <2> SUFFICES ASSUME Going, cpc = "session", spc = "session" PROVE Agreed
    BY DEF Going, Agreed
  <2> USE DEF Going, HandshakeInv
  <2>1. Proto >= 30
    BY DEF Places, ShellPlaces, DaemonPlaces, CommonPlaces, At
  <2>2. cterms = CMux(CTerms2) /\ sterms = SMux(STerms2) /\ sflags = ServerFlags(Argv)
    BY <2>1 DEF ClientTerms, ServerTerms
  <2>3. /\ cterms.proto = Proto /\ cterms.seed = Seed /\ cterms.zlib = Given("compress")
        /\ cterms.sums = Given("checksum") /\ cterms.uid = ("owner" \in Expanded(case.opts))
        /\ cterms.gid = ("group" \in Expanded(case.opts))
        /\ cterms.muxin = TRUE /\ cterms.muxout = TRUE
    BY <2>1, <2>2 DEF CMux, CTerms2, CTerms1, NoTerms
  <2>4. /\ sterms.proto = Proto /\ sterms.seed = Seed /\ sterms.zlib = ("compress" \in sflags)
        /\ sterms.sums = UseChecksum(Argv) /\ sterms.uid = ("owner" \in sflags)
        /\ sterms.gid = ("group" \in sflags)
        /\ sterms.muxin = TRUE /\ sterms.muxout = TRUE
    BY <2>1, <2>2 DEF SMux, STerms2, STerms1, NoTerms
  <2>5. /\ ("compress" \in sflags) = Given("compress")
        /\ ("owner" \in sflags) = ("owner" \in Expanded(case.opts))
        /\ ("group" \in sflags) = ("group" \in Expanded(case.opts))
        /\ UseChecksum(Argv) = Given("checksum")
    BY <2>2, OptionFacts
  <2> QED BY <2>3, <2>4, <2>5 DEF Agreed
<1> QED BY <1>1, HandshakeInvHolds, PTL

-----------------------------------------------------------------------------
(* Numbers and sequences.                                                  *)

\* A set of natural numbers that is not empty has a least one.
LEMMA LeastNatural ==
    ASSUME NEW T \in SUBSET Nat, T # {}
    PROVE  \E x \in T : \A y \in T : x <= y
<1>1. IsWellFoundedOn(OpToRel(<, Nat), Nat)
  BY NatLessThanWellFounded
<1>2. PICK x \in T : \A y \in T : ~ (<<y, x>> \in OpToRel(<, Nat))
  BY <1>1, WFMin
<1>3. ASSUME NEW y \in T PROVE x <= y
  <2>1. ~(y < x)
    BY <1>2, y \in Nat, x \in Nat, Zenon DEF OpToRel
  <2> QED BY <2>1
<1> QED BY <1>3

\* A set with 0 and with the successor of each of its numbers has all of them.
LEMMA SetInduction ==
    ASSUME NEW S, 0 \in S, \A n \in Nat : n \in S => n + 1 \in S
    PROVE  \A n \in Nat : n \in S
<1> SUFFICES ASSUME Nat \ S # {} PROVE FALSE OBVIOUS
<1>1. PICK x \in Nat \ S : \A y \in Nat \ S : x <= y BY LeastNatural
<1>2. x # 0 /\ x - 1 \in Nat OBVIOUS
<1>3. x - 1 \in S BY <1>1, <1>2
<1> QED BY <1>2, <1>3

\* Min and Max are what they are called.
LEMMA MinIs ==
    ASSUME NEW S \in SUBSET Nat, S # {}
    PROVE  Min(S) \in S /\ \A y \in S : Min(S) <= y
<1>1. \E x \in S : \A y \in S : x <= y BY LeastNatural
<1> QED BY <1>1, Zenon DEF Min

\* The largest of a set of numbers up to n is in it, and none of them is larger.
LEMMA MaxIs ==
    ASSUME NEW n \in Nat, NEW S \in SUBSET (0..n), S # {}
    PROVE  Max(S) \in S /\ \A y \in S : Max(S) >= y
<1> DEFINE T == {m \in Nat : \A y \in S : y <= m}
<1>1. n \in T OBVIOUS
<1>2. PICK x \in T : \A y \in T : x <= y
  <2> HIDE DEF T
  <2>1. T \subseteq Nat BY DEF T
  <2> QED BY <1>1, <2>1, LeastNatural
<1>3. x \in S
  <2> SUFFICES ASSUME x \notin S PROVE FALSE OBVIOUS
  <2>1. PICK y \in S : TRUE OBVIOUS
  <2>2. x # 0 /\ x - 1 \in Nat BY <2>1
  <2>3. x - 1 \in T BY <2>2
  <2> QED BY <1>2, <2>3
<1>4. \E z \in S : \A y \in S : z >= y BY <1>2, <1>3
<1> QED BY <1>4, Zenon DEF Max

\* The parts of h, one behind the other.
JoinStep(g, h, i) == IF i = 0 THEN <<>> ELSE g[i - 1] \o h[i]

\* There is a function that joins the parts step by step.
LEMMA JoinExists ==
    ASSUME NEW h, NEW n \in Nat
    PROVE  \E g : g = [i \in 0..n |-> JoinStep(g, h, i)]
<1> DEFINE T == {m \in Nat : \E g : g = [i \in 0..m |-> JoinStep(g, h, i)]}
<1>1. 0 \in T
  <2>1. PICK g : g = [i \in 0..0 |-> <<>>] OBVIOUS
  <2>2. \A i \in 0..0 : JoinStep(g, h, i) = <<>> BY DEF JoinStep
  <2>3. g = [i \in 0..0 |-> JoinStep(g, h, i)] BY <2>1, <2>2
  <2> QED BY <2>3
<1>2. ASSUME NEW m \in Nat, m \in T PROVE m + 1 \in T
  <2>1. PICK g : g = [i \in 0..m |-> JoinStep(g, h, i)] BY <1>2
  <2>2. PICK k : k = [i \in 0..(m + 1) |-> IF i <= m THEN g[i] ELSE JoinStep(g, h, i)] OBVIOUS
  <2>3. ASSUME NEW i \in 0..(m + 1) PROVE JoinStep(k, h, i) = JoinStep(g, h, i)
    <3>1. CASE i = 0 BY <3>1, Zenon DEF JoinStep
    <3>2. CASE i # 0
      <4>1. i - 1 \in 0..(m + 1) /\ i - 1 <= m BY <3>2
      <4>2. k[i - 1] = g[i - 1] BY <2>2, <4>1
      <4> QED BY <3>2, <4>2, Zenon DEF JoinStep
    <3> QED BY <3>1, <3>2
  <2>4. ASSUME NEW i \in 0..(m + 1)
        PROVE  (IF i <= m THEN g[i] ELSE JoinStep(g, h, i)) = JoinStep(k, h, i)
    <3>1. CASE i <= m
      <4>1. i \in 0..m BY <3>1
      <4>2. g[i] = JoinStep(g, h, i) BY <2>1, <4>1
      <4> QED BY <2>3, <3>1, <4>2, Zenon
    <3>2. CASE ~(i <= m) BY <2>3, <3>2, Zenon
    <3> QED BY <3>1, <3>2
  <2>5. k = [i \in 0..(m + 1) |-> JoinStep(k, h, i)] BY <2>2, <2>4
  <2> QED BY <2>5
<1>3. \A m \in Nat : m \in T
  <2> HIDE DEF T
  <2> QED BY <1>1, <1>2, SetInduction
<1> QED BY <1>3

\* Where a part begins the one before it ends.
LEMMA PredIn == ASSUME NEW n \in Nat, NEW i \in 1..n
                PROVE  i \in 0..n /\ i # 0 /\ i - 1 \in 0..n /\ (i # 1 => i - 1 \in 1..n)
  OBVIOUS

\* FlattenSeq joins the parts one by one.
LEMMA FlatIs ==
    ASSUME NEW P, NEW h \in Seq(Seq(P)), NEW n \in Nat, Len(h) = n
    PROVE  \E g : /\ FlattenSeq(h) = g[n] /\ g[0] = <<>>
                  /\ \A i \in 1..n : g[i] = g[i - 1] \o h[i]
<1> DEFINE body(f, i) == IF i = 1 THEN h[i] ELSE f[i - 1] \o h[i]
<1>1. \A i \in 1..n : h[i] \in Seq(P) /\ <<>> \o h[i] = h[i]
  <2>1. \A i \in 1..n : h[i] \in Seq(P)
    OBVIOUS
  <2> QED BY <2>1, Appended
<1>2. PICK g : g = [i \in 0..n |-> JoinStep(g, h, i)]
  BY JoinExists
<1>3. /\ g[0] = <<>> 
      /\ \A i \in 1..n : g[i] = g[i - 1] \o h[i]
  <2>1. \A i \in 0..n : g[i] = JoinStep(g, h, i)
    BY <1>2
  <2>2. 0 \in 0..n
    OBVIOUS
  <2> QED BY <2>1, <2>2, PredIn, Zenon DEF JoinStep
<1>4. CASE n = 0
  <2>1. FlattenSeq(h) = h /\ h = <<>>
    BY <1>4 DEF FlattenSeq
  <2> QED BY <1>3, <1>4, <2>1
<1>5. CASE n # 0
  <2>1. PICK k : k = [i \in 1..n |-> g[i]]
    OBVIOUS
  <2>2. ASSUME NEW i \in 1..n PROVE g[i] = body(k, i)
    <3>1. g[i] = g[i - 1] \o h[i]
      BY <1>3
    <3>2. CASE i = 1
      <4>1. g[i - 1] = <<>>
        BY <1>3, <3>2
      <4> QED BY <1>1, <3>1, <3>2, <4>1, Zenon
    <3>3. CASE i # 1
      <4>1. k[i - 1] = g[i - 1]
        BY <2>1, <3>3
      <4> QED BY <3>1, <3>3, <4>1, Zenon
    <3> QED BY <3>2, <3>3
  <2> HIDE DEF body
  <2>3. k = [i \in 1..n |-> body(k, i)]
    BY <2>1, <2>2
  <2> DEFINE f == CHOOSE f : f = [i \in 1..n |-> body(f, i)]
  <2>4. f = [i \in 1..n |-> body(f, i)]
    BY <2>3, Zenon
  <2>5. FlattenSeq(h) = f[n]
    BY <1>5, Zenon DEF FlattenSeq, body
  <2> HIDE DEF f
  <2>6. PICK u : u = [i \in 0..n |-> IF i = 0 THEN <<>> ELSE f[i]]
    OBVIOUS
  <2>7. u[0] = <<>> /\ u[n] = f[n] /\ \A i \in 1..n : u[i] = f[i]
    BY <1>5, <2>6
  <2>8. ASSUME NEW i \in 1..n PROVE u[i] = u[i - 1] \o h[i]
    <3>1. u[i] = body(f, i)
      BY <2>4, <2>7
    <3>2. CASE i = 1
      <4>1. u[i - 1] = <<>>
        BY <2>7, <3>2
      <4> QED BY <1>1, <3>1, <3>2, <4>1, Zenon DEF body
    <3>3. CASE i # 1
      <4>1. u[i - 1] = f[i - 1]
        BY <2>7, <3>3, PredIn
      <4> QED BY <3>1, <3>3, <4>1, Zenon DEF body
    <3> QED BY <3>2, <3>3
  <2> QED BY <2>5, <2>7, <2>8
<1> QED BY <1>4, <1>5

\* What stands where behind another sequence.
LEMMA JoinAt ==
    ASSUME NEW P, NEW s \in Seq(P), NEW t \in Seq(P)
    PROVE  /\ s \o t \in Seq(P) /\ Len(s \o t) = Len(s) + Len(t)
           /\ Len(s) \in Nat /\ Len(t) \in Nat
           /\ \A i \in 1..Len(s) : (s \o t)[i] = s[i]
           /\ \A i \in 1..Len(t) : (s \o t)[Len(s) + i] = t[i]
  OBVIOUS

\* Part k of h lies in s behind the first off[k - 1].
Placed(h, n, s, off) ==
    /\ off \in [0..n -> Nat] /\ off[0] = 0 /\ off[n] = Len(s)
    /\ \A k \in 1..n :
         /\ off[k] = off[k - 1] + Len(h[k]) /\ off[k] <= off[n]
         /\ \A j \in 1..Len(h[k]) : s[off[k - 1] + j] = h[k][j]

\* Each part lies at its place, in one piece.
LEMMA FlatAt ==
    ASSUME NEW P, NEW h \in Seq(Seq(P)), NEW n \in Nat, Len(h) = n
    PROVE  /\ FlattenSeq(h) \in Seq(P)
           /\ \E off : Placed(h, n, FlattenSeq(h), off)
<1>1. \A i \in 1..n : h[i] \in Seq(P) /\ Len(h[i]) \in Nat
  OBVIOUS
<1>2. PICK g : FlattenSeq(h) = g[n] /\ g[0] = <<>> /\ \A i \in 1..n : g[i] = g[i - 1] \o h[i]
  BY FlatIs
<1> DEFINE LaidAt(k, i) == /\ g[k - 1] \in Seq(P) /\ Len(g[k - 1]) + Len(h[k]) = Len(g[k])
                           /\ Len(g[k]) <= Len(g[i])
                           /\ \A j \in 1..Len(h[k]) : g[i][Len(g[k - 1]) + j] = h[k][j]
           Laid(i) == g[i] \in Seq(P) /\ \A k \in 1..i : LaidAt(k, i)
           T == {i \in Nat : i <= n => Laid(i)}
<1>3. 0 \in T
  <2>1. <<>> \in Seq(P)
    OBVIOUS
  <2>2. Laid(0)
    BY <1>2, <2>1
  <2> QED BY <2>2
<1>4. ASSUME NEW i \in Nat, i \in T PROVE i + 1 \in T
  <2> SUFFICES ASSUME i + 1 <= n PROVE Laid(i + 1)
    <3> HIDE DEF Laid
    <3> QED OBVIOUS
  <2>1. i + 1 \in 1..n /\ i <= n /\ (i + 1) - 1 = i
    OBVIOUS
  <2>2. Laid(i) /\ h[i + 1] \in Seq(P)
    BY <1>1, <1>4, <2>1
  <2> HIDE DEF LaidAt
  <2>3. g[i + 1] = g[i] \o h[i + 1]
    BY <1>2, <2>1
  <2> DEFINE a == g[i]
             b == h[i + 1]
             c == g[i + 1]
             m == i + 1
  <2>4. /\ c \in Seq(P) /\ Len(c) = Len(a) + Len(b)
        /\ Len(a) \in Nat /\ Len(b) \in Nat
        /\ \A x \in 1..Len(a) : c[x] = a[x]
        /\ \A x \in 1..Len(b) : c[Len(a) + x] = b[x]
    <3> HIDE DEF a, b, c
    <3>1. a \in Seq(P) /\ b \in Seq(P) /\ c = a \o b
      BY <2>2, <2>3 DEF a, b, c
    <3> QED BY <3>1, JoinAt
  <2>5. ASSUME NEW k \in 1..m PROVE LaidAt(k, m)
    <3>1. CASE k = m
      <4>1. g[k - 1] = a /\ h[k] = b /\ g[k] = c
        BY <2>1, <3>1
      <4>2. a \in Seq(P)
        BY <2>2
      <4> HIDE DEF a, b, c
      <4>3. Len(c) <= Len(c)
        BY <2>4
      <4> QED BY <2>4, <3>1, <4>1, <4>2, <4>3 DEF LaidAt
    <3>2. CASE k # m
      <4>1. k \in 1..i /\ k \in 1..n
        BY <2>1, <3>2
      <4>2. LaidAt(k, i)
        BY <2>2, <4>1
      <4>3. PICK x, y, z : x = Len(g[k - 1]) /\ y = Len(h[k]) /\ z = Len(g[k])
        OBVIOUS
      <4>4. /\ x \in Nat /\ y \in Nat /\ z \in Nat
            /\ g[k - 1] \in Seq(P) /\ x + y = z /\ z <= Len(a)
            /\ \A j \in 1..y : a[x + j] = h[k][j]
        <5>1. g[k - 1] \in Seq(P) /\ h[k] \in Seq(P)
          BY <1>1, <4>1, <4>2, Zenon DEF LaidAt
        <5>2. x \in Nat /\ y \in Nat
          BY <4>3, <5>1
        <5>3. x + y = z /\ z <= Len(a) /\ \A j \in 1..y : a[x + j] = h[k][j]
          BY <4>2, <4>3, Zenon DEF LaidAt
        <5> QED BY <5>1, <5>2, <5>3
      <4> HIDE DEF a, b
      <4>5. \A j \in 1..y : x + j \in 1..Len(a)
        BY <2>4, <4>4
      <4>6. \A j \in 1..y : c[x + j] = h[k][j]
        BY <2>4, <4>4, <4>5
      <4>7. z <= Len(c)
        BY <2>4, <4>4
      <4> QED BY <4>3, <4>4, <4>6, <4>7 DEF LaidAt
    <3> QED BY <3>1, <3>2
  <2>6. g[i + 1] \in Seq(P)
    BY <2>4
  <2> QED BY <2>5, <2>6
<1>5. \A i \in Nat : i \in T
  <2> HIDE DEF T
  <2> QED BY <1>3, <1>4, SetInduction
<1>6. \A i \in 0..n : Laid(i)
  <2> HIDE DEF Laid
  <2> QED BY <1>5
<1>7. \A i \in 0..n : g[i] \in Seq(P)
  BY <1>6
<1>8. \A k \in 1..n : LaidAt(k, n)
  <2> HIDE DEF LaidAt
  <2> QED BY <1>6
<1> HIDE DEF Laid, T, LaidAt
<1>9. PICK off : off = [i \in 0..n |-> Len(g[i])]
  OBVIOUS
<1>10. off \in [0..n -> Nat]
  <2>1. \A i \in 0..n : Len(g[i]) \in Nat
    BY <1>7
  <2> QED BY <1>9, <2>1
<1>11. off[0] = 0 /\ off[n] = Len(FlattenSeq(h)) /\ FlattenSeq(h) \in Seq(P)
  <2>1. 0 \in 0..n /\ n \in 0..n
    OBVIOUS
  <2>2. Len(<<>>) = 0
    OBVIOUS
  <2> QED BY <1>2, <1>7, <1>9, <2>1, <2>2
<1>12. ASSUME NEW k \in 1..n
       PROVE  /\ off[k] = off[k - 1] + Len(h[k]) /\ off[k] <= off[n]
              /\ \A j \in 1..Len(h[k]) : FlattenSeq(h)[off[k - 1] + j] = h[k][j]
  <2>1. k \in 0..n /\ k - 1 \in 0..n /\ n \in 0..n
    OBVIOUS
  <2>2. off[k] = Len(g[k]) /\ off[k - 1] = Len(g[k - 1]) /\ off[n] = Len(g[n])
    BY <1>9, <2>1
  <2> QED BY <1>2, <1>8, <2>2 DEF LaidAt
<1>13. Placed(h, n, FlattenSeq(h), off)
  BY <1>10, <1>11, <1>12, Zenon DEF Placed
<1> QED BY <1>11, <1>13

\* Parts of one element each.
LEMMA FlatSingles ==
    ASSUME NEW P, NEW h \in Seq(Seq(P)), NEW n \in Nat, Len(h) = n, \A i \in 1..n : Len(h[i]) = 1
    PROVE  /\ FlattenSeq(h) \in Seq(P) /\ Len(FlattenSeq(h)) = n
           /\ \A i \in 1..n : FlattenSeq(h)[i] = h[i][1]
<1>1. PICK off : Placed(h, n, FlattenSeq(h), off)
  BY FlatAt
<1>2. /\ off \in [0..n -> Nat] /\ off[0] = 0 /\ off[n] = Len(FlattenSeq(h))
      /\ \A k \in 1..n : off[k] = off[k - 1] + 1 /\ FlattenSeq(h)[off[k - 1] + 1] = h[k][1]
  <2>1. 1 \in 1..1
    OBVIOUS
  <2>2. \A k \in 1..n : 1 \in 1..Len(h[k])
    BY <2>1, Zenon
  <2> QED BY <1>1, <2>2, Zenon DEF Placed
<1> DEFINE T == {i \in Nat : i <= n => off[i] = i}
<1>3. 0 \in T
  BY <1>2
<1>4. ASSUME NEW i \in Nat, i \in T PROVE i + 1 \in T
  <2> SUFFICES ASSUME i + 1 <= n PROVE off[i + 1] = i + 1
    OBVIOUS
  <2>1. i + 1 \in 1..n /\ (i + 1) - 1 = i /\ off[i] = i
    BY <1>4
  <2> QED BY <1>2, <2>1
<1>5. \A i \in Nat : i \in T
  <2> HIDE DEF T
  <2> QED BY <1>3, <1>4, SetInduction
<1>6. \A i \in 0..n : off[i] = i
  BY <1>5
<1>7. ASSUME NEW i \in 1..n PROVE FlattenSeq(h)[i] = h[i][1]
  <2>1. off[i - 1] = i - 1 /\ (i - 1) + 1 = i
    BY <1>6
  <2> QED BY <1>2, <2>1
<1>8. FlattenSeq(h) \in Seq(P)
  BY FlatAt
<1>9. Len(FlattenSeq(h)) = n
  BY <1>2, <1>6
<1> QED BY <1>7, <1>8, <1>9

-----------------------------------------------------------------------------
(* Pieces of texts.                                                        *)

\* A piece of a sequence.
LEMMA ChunkIs ==
    ASSUME NEW P, NEW s \in Seq(P), NEW a \in Nat, NEW b \in Nat, 1 <= a, b <= Len(s)
    PROVE  /\ SubSeq(s, a, b) \in Seq(P)
           /\ a <= b => Len(SubSeq(s, a, b)) = b - a + 1
           /\ b < a => SubSeq(s, a, b) = <<>> /\ Len(SubSeq(s, a, b)) = 0
           /\ \A i \in 1..(b - a + 1) : SubSeq(s, a, b)[i] = s[a + i - 1]
  OBVIOUS

\* A sequence is all of its own places.
LEMMA Whole == ASSUME NEW P, NEW s \in Seq(P) PROVE SubSeq(s, 1, Len(s)) = s
  OBVIOUS

\* The rest of a text from a place on, or nothing.
LEMMA FromIs ==
    ASSUME NEW P, NEW s \in Seq(P), NEW a \in Nat, 1 <= a, a <= Len(s) + 1
    PROVE  /\ From(s, a) \in Seq(P) /\ Len(From(s, a)) = Len(s) - a + 1
           /\ \A i \in 1..(Len(s) - a + 1) : From(s, a)[i] = s[a + i - 1]
<1>1. Len(s) \in Nat
  OBVIOUS
<1>2. PICK n \in Nat : n = Len(s)
  BY <1>1
<1>3. From(s, a) = SubSeq(s, a, n)
  BY <1>2 DEF From
<1>4. CASE a <= n
  BY <1>2, <1>3, <1>4, ChunkIs
<1>5. CASE a = n + 1
  BY <1>2, <1>3, <1>5, ChunkIs
<1> QED BY <1>2, <1>4, <1>5

\* The places that hold none of c.
LEMMA OthersIs ==
    ASSUME NEW P, NEW s \in Seq(P), NEW c
    PROVE  /\ Others(s, c) = {i \in 1..Len(s) : s[i] \notin c}
           /\ Others(s, c) # {} =>
                /\ Min(Others(s, c)) \in Others(s, c) /\ \A y \in Others(s, c) : Min(Others(s, c)) <= y
                /\ Max(Others(s, c)) \in Others(s, c) /\ \A y \in Others(s, c) : Max(Others(s, c)) >= y
<1>1. Others(s, c) = {i \in 1..Len(s) : s[i] \notin c} /\ Len(s) \in Nat
  BY DEF Others
<1>2. Others(s, c) \in SUBSET Nat /\ Others(s, c) \in SUBSET (0..Len(s))
  BY <1>1
<1> QED BY <1>1, <1>2, MinIs, MaxIs

\* Trimming gives a piece of the text.
LEMMA TrimTyped ==
    ASSUME NEW P, NEW s \in Seq(P), NEW c
    PROVE  Trim(s) \in Seq(P) /\ TrimStart(s, c) \in Seq(P)
<1>1. <<>> \in Seq(P) /\ Len(s) \in Nat
  OBVIOUS
<1>2. Trim(s) \in Seq(P)
  <2>1. CASE Others(s, White) = {}
    BY <1>1, <2>1 DEF Trim
  <2>2. CASE Others(s, White) # {}
    <3>1. PICK a, b \in 1..Len(s) : a = Min(Others(s, White)) /\ b = Max(Others(s, White))
      BY <2>2, OthersIs
    <3>2. SubSeq(s, a, b) \in Seq(P)
      BY <1>1, <3>1, ChunkIs
    <3> QED BY <2>2, <3>1, <3>2 DEF Trim
  <2> QED BY <2>1, <2>2
<1>3. TrimStart(s, c) \in Seq(P)
  <2>1. CASE Others(s, {c}) = {}
    BY <1>1, <2>1 DEF TrimStart
  <2>2. CASE Others(s, {c}) # {}
    <3>1. PICK a \in 1..Len(s) : a = Min(Others(s, {c}))
      BY <2>2, OthersIs
    <3>2. From(s, a) \in Seq(P)
      BY <1>1, <3>1, FromIs
    <3> QED BY <2>2, <3>1, <3>2 DEF TrimStart
  <2> QED BY <2>1, <2>2
<1> QED BY <1>2, <1>3

\* A text that trimming leaves alone is empty, or begins and ends with no white space.
LEMMA TrimmedIs ==
    ASSUME NEW P, NEW s \in Seq(P), s # <<>>
    PROVE  Trim(s) = s <=> s[1] \notin White /\ s[Len(s)] \notin White
<1>1. PICK n \in Nat : n = Len(s) /\ n >= 1
  OBVIOUS
<1>2. CASE Others(s, White) = {}
  <2>1. Trim(s) = <<>> /\ s[1] \in White
    BY <1>1, <1>2, OthersIs DEF Trim
  <2> QED BY <2>1
<1>3. CASE Others(s, White) # {}
  <2>1. PICK a, b \in 1..n : /\ a = Min(Others(s, White)) /\ b = Max(Others(s, White))
                             /\ s[a] \notin White /\ s[b] \notin White /\ a <= b
                             /\ \A y \in 1..n : s[y] \notin White => a <= y /\ y <= b
    BY <1>1, <1>3, OthersIs
  <2>2. Trim(s) = SubSeq(s, a, b) /\ Len(SubSeq(s, a, b)) = b - a + 1
    BY <1>1, <1>3, <2>1, ChunkIs DEF Trim
  <2>3. ASSUME Trim(s) = s PROVE s[1] \notin White /\ s[n] \notin White
    <3>1. b - a + 1 = n
      BY <1>1, <2>2, <2>3
    <3>2. a = 1 /\ b = n
      BY <3>1
    <3> QED BY <2>1, <3>2
  <2>4. ASSUME s[1] \notin White, s[n] \notin White PROVE Trim(s) = s
    <3>1. a = 1 /\ b = n
      BY <1>1, <2>1, <2>4
    <3> QED BY <1>1, <2>2, <3>1, Whole
  <2> QED BY <1>1, <2>3, <2>4
<1> QED BY <1>2, <1>3

\* A text is a sequence of bytes.
Text == Seq(Byte)

-----------------------------------------------------------------------------
(* Rules as they are stored, and parsed from the wire.                     *)

\* A rule as it can be in a list: the mark of "!" or one that is built.
Stored == {ClearRule} \cup {build_rule(p, TRUE) : p \in Text} \cup {build_rule(p, FALSE) : p \in Text}

\* The fields of a rule that is built.
LEMMA BuiltIs ==
    ASSUME NEW p \in Text, NEW inc \in BOOLEAN
    PROVE  LET r == build_rule(p, inc)
               dir == p # <<>> /\ p[Len(p)] = Slash
               pat == IF dir THEN SubSeq(p, 1, Len(p) - 1) ELSE p
           IN  /\ r.pattern = TrimStart(pat, Slash) /\ r.pattern \in Text /\ pat \in Text
               /\ r.include = inc /\ ~r.clear /\ r.dir = dir
               /\ r.abs = (pat # <<>> /\ pat[1] = Slash)
               /\ r.wild = (Has(pat, Star) \/ Has(pat, Question) \/ Has(pat, Open))
               /\ r.slashes = Cardinality({i \in DOMAIN r.pattern : r.pattern[i] = Slash})
<1> DEFINE dir == p # <<>> /\ p[Len(p)] = Slash
           pat == IF dir THEN SubSeq(p, 1, Len(p) - 1) ELSE p
<1>1. pat \in Text
  <2>1. CASE dir
    <3>1. SubSeq(p, 1, Len(p) - 1) \in Seq(Byte)
      BY <2>1 DEF Text
    <3> QED BY <2>1, <3>1 DEF Text
  <2>2. CASE ~dir
    BY <2>2
  <2> QED BY <2>1, <2>2
<1> HIDE DEF pat, dir
<1>2. TrimStart(pat, Slash) \in Text
  BY <1>1, TrimTyped DEF Text
<1>3. build_rule(p, inc) =
        [pattern |-> TrimStart(pat, Slash), include |-> inc, clear |-> FALSE, dir |-> dir,
         abs |-> pat # <<>> /\ pat[1] = Slash,
         wild |-> Has(pat, Star) \/ Has(pat, Question) \/ Has(pat, Open),
         slashes |-> Cardinality({i \in DOMAIN TrimStart(pat, Slash) : TrimStart(pat, Slash)[i] = Slash})]
  BY Zenon DEF build_rule, pat, dir
<1>4. /\ build_rule(p, inc).pattern = TrimStart(pat, Slash)
      /\ build_rule(p, inc).include = inc /\ ~build_rule(p, inc).clear /\ build_rule(p, inc).dir = dir
      /\ build_rule(p, inc).abs = (pat # <<>> /\ pat[1] = Slash)
      /\ build_rule(p, inc).wild = (Has(pat, Star) \/ Has(pat, Question) \/ Has(pat, Open))
      /\ build_rule(p, inc).slashes =
           Cardinality({i \in DOMAIN TrimStart(pat, Slash) : TrimStart(pat, Slash)[i] = Slash})
  BY <1>3
<1> QED BY <1>1, <1>2, <1>4, Zenon DEF pat, dir

\* A first word and what is left of the text behind it are texts.
LEMMA PrefixTyped ==
    ASSUME NEW s \in Text
    PROVE  Prefix(s)[2] \in Text
<1>1. Len(s) \in Nat /\ <<>> \in Text
  BY DEF Text
<1>2. CASE Len(s) >= 2 /\ s[2] \in {Space, Comma}
  <2>1. From(s, 3) \in Text
    BY <1>1, <1>2, FromIs DEF Text
  <2>2. Trim(From(s, 3)) \in Text
    BY <2>1, TrimTyped DEF Text
  <2>3. Prefix(s) = <<SubSeq(s, 1, 1), Trim(From(s, 3))>>
    BY <1>2, Zenon DEF Prefix
  <2> QED BY <2>2, <2>3
<1>3. CASE ~(Len(s) >= 2 /\ s[2] \in {Space, Comma}) /\ Has(s, Space)
  <2>1. PICK sp : sp = Min({i \in DOMAIN s : s[i] = Space})
    OBVIOUS
  <2>2. sp \in 1..Len(s)
    <3> DEFINE S == {i \in 1..Len(s) : s[i] = Space}
    <3>1. S \in SUBSET Nat /\ S # {} /\ S = {i \in DOMAIN s : s[i] = Space}
      BY <1>1, <1>3 DEF Text, Has
    <3>2. Min(S) \in S
      <4> HIDE DEF S
      <4> QED BY <3>1, MinIs
    <3> QED BY <2>1, <3>1, <3>2
  <2>3. From(s, sp + 1) \in Text
    BY <1>1, <2>2, FromIs DEF Text
  <2>4. Trim(From(s, sp + 1)) \in Text
    BY <2>3, TrimTyped DEF Text
  <2>5. Prefix(s) = <<SubSeq(s, 1, sp - 1), Trim(From(s, sp + 1))>>
    BY <1>3, <2>1, Zenon DEF Prefix
  <2> QED BY <2>4, <2>5
<1>4. CASE ~(Len(s) >= 2 /\ s[2] \in {Space, Comma}) /\ ~Has(s, Space)
  <2>1. Prefix(s) = <<s, <<>>>>
    BY <1>4, Zenon DEF Prefix
  <2> QED BY <1>1, <2>1
<1> QED BY <1>2, <1>3, <1>4

\* What is parsed is stored.
LEMMA ParsedTyped == ASSUME NEW t \in Text PROVE parse_rule(t) \in Seq(Stored)
<1> DEFINE s == Trim(t)
           word == Prefix(s)[1]
           rest == Prefix(s)[2]
<1>1. s \in Text
  BY TrimTyped DEF Text
<1>2. rest \in Text
  BY <1>1, PrefixTyped
<1> HIDE DEF s, rest, word
<1>3. <<>> \in Seq(Stored) /\ \A x \in Stored : <<x>> \in Seq(Stored)
  OBVIOUS
<1>4. ClearRule \in Stored /\ build_rule(rest, FALSE) \in Stored /\ build_rule(rest, TRUE) \in Stored
  BY <1>2, Zenon DEF Stored
<1>5. parse_rule(t) \in {<<>>, <<ClearRule>>, <<build_rule(rest, FALSE)>>, <<build_rule(rest, TRUE)>>}
  <2>1. parse_rule(t) =
          IF s = <<>> \/ s[1] = Hash THEN <<>>
          ELSE IF word \in {<<Dash>>, EXCLUDE} THEN <<build_rule(rest, FALSE)>>
          ELSE IF word \in {<<Plus>>, INCLUDE} THEN <<build_rule(rest, TRUE)>>
          ELSE IF word = <<Bang>> THEN <<ClearRule>>
          ELSE <<>>
    BY Zenon DEF parse_rule, s, word, rest
  <2> QED BY <2>1, Zenon
<1> QED BY <1>3, <1>4, <1>5

\* Whatever texts are parsed, what comes of them are rules of a list.
LEMMA ParseAllTyped == ASSUME NEW texts \in Seq(Text) PROVE ParseAll(texts) \in Seq(Stored)
<1> DEFINE h == [i \in DOMAIN texts |-> parse_rule(texts[i])]
<1>1. PICK n \in Nat : n = Len(texts) /\ DOMAIN texts = 1..n
  OBVIOUS
<1>2. \A i \in 1..n : parse_rule(texts[i]) \in Seq(Stored)
  BY <1>1, ParsedTyped
<1>3. h \in Seq(Seq(Stored)) /\ Len(h) = n
  BY <1>1, <1>2
<1>4. FlattenSeq(h) \in Seq(Stored)
  <2> HIDE DEF h
  <2> QED BY <1>3, FlatAt
<1> QED BY <1>4 DEF ParseAll

\* A rule that is portable and not a mark is stored as it was written.
LEMMA PortableIs ==
    ASSUME NEW r \in Stored, Portable(r), ~r.clear
    PROVE  r = build_rule(r.pattern, r.include) /\ r.pattern \in Text /\ r.include \in BOOLEAN
<1>1. ClearRule.clear
  BY DEF ClearRule
<1>2. PICK p \in Text, inc \in BOOLEAN : r = build_rule(p, inc)
  <2>1. TRUE \in BOOLEAN /\ FALSE \in BOOLEAN
    OBVIOUS
  <2> QED BY <1>1, <2>1, Zenon DEF Stored
<1> DEFINE dir == p # <<>> /\ p[Len(p)] = Slash
           pat == IF dir THEN SubSeq(p, 1, Len(p) - 1) ELSE p
<1>3. /\ r.pattern = TrimStart(pat, Slash) /\ r.include = inc /\ r.dir = dir
      /\ r.abs = (pat # <<>> /\ pat[1] = Slash)
  BY <1>2, BuiltIs, Zenon
<1>4. ~dir /\ pat = p
  BY <1>3 DEF Portable
<1>5. p = <<>> \/ p[1] # Slash
  BY <1>3, <1>4 DEF Portable
<1> HIDE DEF dir, pat
<1>6. TrimStart(p, Slash) = p
  <2>1. CASE p = <<>>
    <3>1. Others(p, {Slash}) = {}
      BY <2>1 DEF Others
    <3> QED BY <2>1, <3>1 DEF TrimStart
  <2>2. CASE p # <<>>
    <3>1. Len(p) \in Nat /\ Len(p) >= 1
      BY <2>2 DEF Text
    <3>2. 1 \in Others(p, {Slash})
      BY <1>5, <2>2, <3>1, OthersIs DEF Text
    <3>3. Min(Others(p, {Slash})) = 1
      <4>1. /\ Min(Others(p, {Slash})) \in 1..Len(p) /\ Min(Others(p, {Slash})) <= 1
        BY <3>2, OthersIs DEF Text
      <4> QED BY <3>1, <4>1
    <3>4. From(p, 1) = p
      BY Whole DEF From, Text
    <3> QED BY <3>2, <3>3, <3>4 DEF TrimStart
  <2> QED BY <2>1, <2>2
<1>7. r.pattern = p
  BY <1>3, <1>4, <1>6
<1> QED BY <1>2, <1>3, <1>7

\* A sign, a space and a text.
LEMMA SignedIs ==
    ASSUME NEW sign \in Byte, NEW p \in Text
    PROVE  LET w == <<sign, Space>> \o p
           IN  /\ w \in Text /\ Len(w) = Len(p) + 2 /\ Len(p) \in Nat /\ w[1] = sign /\ w[2] = Space
               /\ \A i \in 1..Len(p) : w[i + 2] = p[i]
<1>1. Space \in Byte
  BY DEF Space, Byte
<1>2. <<sign, Space>> \in Seq(Byte)
  BY <1>1, TupleTyped
<1>3. Len(<<sign, Space>>) = 2 /\ <<sign, Space>>[1] = sign /\ <<sign, Space>>[2] = Space
  OBVIOUS
<1>4. PICK q : q = <<sign, Space>>
  OBVIOUS
<1>5. /\ q \o p \in Seq(Byte) /\ Len(q \o p) = Len(q) + Len(p)
      /\ Len(q) \in Nat /\ Len(p) \in Nat
      /\ \A i \in 1..Len(q) : (q \o p)[i] = q[i]
      /\ \A i \in 1..Len(p) : (q \o p)[Len(q) + i] = p[i]
  BY <1>2, <1>4, JoinAt DEF Text
<1>6. Len(q) = 2 /\ q[1] = sign /\ q[2] = Space
  BY <1>3, <1>4
<1> QED BY <1>4, <1>5, <1>6 DEF Text

\* The first place of a sequence alone.
LEMMA FirstOnly == ASSUME NEW P, NEW s \in Seq(P), Len(s) >= 1 PROVE SubSeq(s, 1, 1) = <<s[1]>>
<1>1. SubSeq(s, 1, 1) \in Seq(P) /\ Len(SubSeq(s, 1, 1)) = 1 /\ SubSeq(s, 1, 1)[1] = s[1]
  OBVIOUS
<1>2. s[1] \in P /\ <<s[1]>> \in Seq(P) /\ Len(<<s[1]>>) = 1 /\ <<s[1]>>[1] = s[1]
  OBVIOUS
<1>3. \A i \in 1..1 : SubSeq(s, 1, 1)[i] = <<s[1]>>[i]
  BY <1>1, <1>2
<1> QED BY <1>1, <1>2, <1>3, SeqEqual

\* A text behind a sign is parsed to the rule that it makes.
LEMMA ParseSigned ==
    ASSUME NEW inc \in BOOLEAN, NEW p \in Text, Trim(p) = p
    PROVE  parse_rule(<<IF inc THEN Plus ELSE Dash, Space>> \o p) = <<build_rule(p, inc)>>
<1> DEFINE sign == IF inc THEN Plus ELSE Dash
           w == <<sign, Space>> \o p
<1>1. /\ sign \in Byte /\ sign \notin White /\ sign # Space /\ sign # Hash /\ sign # Comma
      /\ Space \in White
  BY DEF Byte, Plus, Dash, Space, Hash, Comma, White
<1> HIDE DEF sign
<1>2. /\ w \in Text /\ Len(w) = Len(p) + 2 /\ Len(p) \in Nat /\ w[1] = sign /\ w[2] = Space
      /\ \A i \in 1..Len(p) : w[i + 2] = p[i]
  BY <1>1, SignedIs
<1> HIDE DEF w
<1>3. Prefix(Trim(w)) = <<<<sign>>, p>> /\ Trim(w) # <<>> /\ Trim(w)[1] = sign
  <2>1. CASE p = <<>>
    <3>1. Others(w, White) = {1}
      <4>1. Len(w) = 2 /\ w[1] \notin White /\ w[2] \in White
        BY <1>1, <1>2, <2>1
      <4>2. Others(w, White) = {i \in 1..Len(w) : w[i] \notin White}
        BY <1>2 DEF Others, Text
      <4>3. \A i \in 1..2 : w[i] \notin White <=> i = 1
        BY <4>1
      <4> QED BY <4>1, <4>2, <4>3
    <3>2. Min({1}) = 1 /\ Max({1}) = 1
      <4>1. Min({1}) \in {1} /\ Max({1}) \in {1}
        BY MinIs, MaxIs
      <4> QED BY <4>1
    <3>3. Trim(w) = SubSeq(w, 1, 1)
      BY <3>1, <3>2, Zenon DEF Trim
    <3>4. SubSeq(w, 1, 1) = <<sign>>
      BY <1>2, FirstOnly DEF Text
    <3>5. Prefix(<<sign>>) = <<<<sign>>, <<>>>>
      <4>1. ~(Len(<<sign>>) >= 2) /\ ~Has(<<sign>>, Space)
        BY <1>1 DEF Has
      <4> QED BY <4>1, Zenon DEF Prefix
    <3>6. Trim(w) = <<sign>> /\ Prefix(Trim(w)) = <<<<sign>>, p>>
      BY <2>1, <3>3, <3>4, <3>5, Zenon
    <3>7. <<sign>>[1] = sign /\ <<sign>> # <<>>
      OBVIOUS
    <3> QED BY <3>6, <3>7, Zenon
  <2>2. CASE p # <<>>
    <3>1. p[Len(p)] \notin White /\ Len(p) >= 1
      BY <2>2, TrimmedIs DEF Text
    <3>2. w[Len(w)] \notin White /\ w # <<>>
      BY <1>2, <3>1
    <3>3. Trim(w) = w
      BY <1>1, <1>2, <3>2, TrimmedIs DEF Text
    <3>4. From(w, 3) = p
      <4>1. /\ From(w, 3) \in Text /\ Len(From(w, 3)) = Len(p)
            /\ \A i \in 1..Len(p) : From(w, 3)[i] = w[i + 2]
        <5>1. PICK a, l : a = 3 /\ l = Len(p)
          OBVIOUS
        <5>2. w \in Seq(Byte) /\ a \in Nat /\ l \in Nat /\ 1 <= a /\ a <= Len(w) + 1 /\ Len(w) = l + 2
          <6> HIDE DEF w
          <6> QED BY <1>2, <5>1 DEF Text
        <5> HIDE DEF w
        <5>3. /\ From(w, a) \in Seq(Byte) /\ Len(From(w, a)) = Len(w) - a + 1
              /\ \A i \in 1..(Len(w) - a + 1) : From(w, a)[i] = w[a + i - 1]
          BY <5>2, FromIs
        <5>4. Len(w) - a + 1 = l /\ \A i \in 1..l : a + i - 1 = i + 2
          BY <5>1, <5>2
        <5> QED BY <5>1, <5>3, <5>4 DEF Text
      <4> QED BY <1>2, <4>1, SeqEqual DEF Text
    <3>5. SubSeq(w, 1, 1) = <<sign>>
      BY <1>2, FirstOnly DEF Text
    <3>6. Len(w) >= 2 /\ w[2] \in {Space, Comma}
      BY <1>2
    <3>7. Prefix(w) = <<SubSeq(w, 1, 1), Trim(From(w, 3))>>
      BY <3>6, Zenon DEF Prefix
    <3> QED BY <1>2, <3>2, <3>3, <3>4, <3>5, <3>7
  <2> QED BY <2>1, <2>2
<1>4. Prefix(Trim(w))[1] = <<sign>> /\ Prefix(Trim(w))[2] = p /\ ~(Trim(w) = <<>> \/ Trim(w)[1] = Hash)
  BY <1>1, <1>3
<1>5. CASE inc
  <2>1. <<sign>> \notin {<<Dash>>, EXCLUDE} /\ <<sign>> \in {<<Plus>>, INCLUDE}
    BY <1>5 DEF sign, Plus, Dash, EXCLUDE
  <2>2. parse_rule(w) = <<build_rule(p, TRUE)>>
    BY <1>4, <2>1, Zenon DEF parse_rule
  <2> QED BY <1>5, <2>2 DEF w, sign
<1>6. CASE ~inc
  <2>1. <<sign>> \in {<<Dash>>, EXCLUDE}
    BY <1>6 DEF sign
  <2>2. parse_rule(w) = <<build_rule(p, FALSE)>>
    BY <1>4, <2>1, Zenon DEF parse_rule
  <2> QED BY <1>6, <2>2 DEF w, sign
<1> QED BY <1>5, <1>6

\* What a rule is after crossing the wire: a mark is an empty rule.
Crossed(r) == IF r.clear THEN build_rule(<<>>, FALSE) ELSE r

\* A portable rule crosses the wire as one rule.
LEMMA Crossing ==
    ASSUME NEW r \in Stored, Portable(r)
    PROVE  WireText(r) \in Text /\ parse_rule(WireText(r)) = <<Crossed(r)>> /\ r.clear \in BOOLEAN
<1>1. CASE r.clear
  <2>1. r = ClearRule
    <3>1. ASSUME NEW p \in Text, NEW inc \in BOOLEAN PROVE ~build_rule(p, inc).clear
      BY BuiltIs, Zenon
    <3> QED BY <1>1, <3>1, Zenon DEF Stored
  <2>2. r.pattern = <<>> /\ r.include = FALSE /\ r.clear = TRUE
    BY <2>1 DEF ClearRule
  <2>3. <<>> \in Text /\ Trim(<<>>) = <<>> /\ FALSE \in BOOLEAN /\ Dash \in Byte
    BY <2>2 DEF Text, Portable, Dash, Byte
  <2>4. WireText(r) = <<Dash, Space>> \o <<>>
    BY <2>2, Zenon DEF WireText
  <2>5. parse_rule(<<Dash, Space>> \o <<>>) = <<build_rule(<<>>, FALSE)>>
    <3>1. (IF FALSE THEN Plus ELSE Dash) = Dash
      OBVIOUS
    <3> QED BY <2>3, <3>1, ParseSigned
  <2>6. <<Dash, Space>> \o <<>> \in Text /\ r.clear \in BOOLEAN
    BY <2>2, <2>3, SignedIs
  <2>7. Crossed(r) = build_rule(<<>>, FALSE)
    BY <2>2 DEF Crossed
  <2> QED BY <2>4, <2>5, <2>6, <2>7, Zenon
<1>2. CASE ~r.clear
  <2>1. r = build_rule(r.pattern, r.include) /\ r.pattern \in Text /\ r.include \in BOOLEAN
    BY <1>2, PortableIs
  <2>2. Trim(r.pattern) = r.pattern
    BY DEF Portable
  <2>3. parse_rule(WireText(r)) = <<build_rule(r.pattern, r.include)>>
    BY <2>1, <2>2, ParseSigned DEF WireText
  <2>4. (IF r.include THEN Plus ELSE Dash) \in Byte
    BY DEF Plus, Dash, Byte
  <2>5. WireText(r) \in Text
    BY <2>1, <2>4, SignedIs DEF WireText
  <2>6. ~build_rule(r.pattern, r.include).clear /\ build_rule(r.pattern, r.include).clear \in BOOLEAN
    BY <2>1 DEF build_rule
  <2> QED BY <1>2, <2>1, <2>3, <2>5, <2>6 DEF Crossed
<1> QED BY <1>1, <1>2

\* The last component of a name is not empty.
LEMMA BasenameIs == ASSUME NEW name \in Probes PROVE name # <<>> /\ Basename(name) # <<>>
<1>1. name \in Text /\ name # <<>> /\ name[Len(name)] # Slash
  BY ProbesAssumption DEF Text
<1>2. PICK n \in Nat : n = Len(name) /\ DOMAIN name = 1..n
  BY <1>1 DEF Text
<1>3. CASE ~Has(name, Slash)
  BY <1>1, <1>3 DEF Basename
<1>4. CASE Has(name, Slash)
  <2> DEFINE S == {i \in DOMAIN name : name[i] = Slash}
  <2>1. S \in SUBSET (0..n) /\ S # {}
    BY <1>2, <1>4 DEF Has
  <2>2. Max(S) \in S
    <3> HIDE DEF S
    <3> QED BY <2>1, MaxIs
  <2>3. PICK a \in 1..n : a = Max(S) /\ name[a] = Slash
    BY <1>2, <2>2
  <2>4. a # n /\ a + 1 <= n /\ a + 1 \in Nat
    BY <1>1, <1>2, <2>3
  <2>5. Len(From(name, a + 1)) = n - (a + 1) + 1
    <3>1. name \in Seq(Byte) /\ 1 <= a + 1 /\ a + 1 <= Len(name) + 1
      BY <1>1, <1>2, <2>4 DEF Text
    <3> QED BY <1>2, <2>4, <3>1, FromIs
  <2>6. From(name, a + 1) # <<>>
    BY <2>4, <2>5
  <2>7. Basename(name) = From(name, a + 1)
    BY <1>4, <2>3 DEF Basename
  <2> QED BY <1>1, <2>6, <2>7
<1> QED BY <1>3, <1>4

\* A mark on the other side is a rule that no name matches.
LEMMA MarkMatchesNone ==
    ASSUME NEW name \in Probes, NEW is_dir \in BOOLEAN
    PROVE  ~matches(build_rule(<<>>, FALSE), name, is_dir)
<1>1. PICK r : r = build_rule(<<>>, FALSE)
  OBVIOUS
<1>2. r.pattern = <<>> /\ ~r.dir /\ ~r.wild
  <2>1. /\ Others(<<>>, {Slash}) = {} /\ ~Has(<<>>, Star) /\ ~Has(<<>>, Question) /\ ~Has(<<>>, Open)
    BY DEF Others, Has
  <2>2. TrimStart(<<>>, Slash) = <<>>
    BY <2>1 DEF TrimStart
  <2> QED BY <1>1, <2>1, <2>2 DEF build_rule
<1> QED BY <1>1, <1>2, BasenameIs DEF matches

\* What the server parses are the client's rules, one by one.
LEMMA CarriedOne ==
    ASSUME NEW rules \in Seq(Stored), \A i \in DOMAIN rules : Portable(rules[i])
    PROVE  LET parsed == ParseAll(WireTexts(rules))
           IN  /\ DOMAIN parsed = DOMAIN rules
               /\ \A i \in DOMAIN rules : parsed[i] = Crossed(rules[i])
<1>1. PICK n \in Nat : n = Len(rules) /\ DOMAIN rules = 1..n
  OBVIOUS
<1>2. \A i \in 1..n : /\ WireText(rules[i]) \in Text
                      /\ parse_rule(WireText(rules[i])) = <<Crossed(rules[i])>>
  <2>1. \A i \in 1..n : rules[i] \in Stored /\ Portable(rules[i])
    BY <1>1
  <2> QED BY <2>1, Crossing
<1>3. PICK texts : texts = [i \in 1..n |-> WireText(rules[i])]
  OBVIOUS
<1>4. WireTexts(rules) = texts /\ DOMAIN texts = 1..n /\ \A i \in 1..n : texts[i] = WireText(rules[i])
  BY <1>1, <1>3 DEF WireTexts
<1>5. PICK h : h = [i \in DOMAIN texts |-> parse_rule(texts[i])]
  OBVIOUS
<1>6. h = [i \in 1..n |-> parse_rule(texts[i])] /\ ParseAll(WireTexts(rules)) = FlattenSeq(h)
  BY <1>4, <1>5 DEF ParseAll
<1>7. \A i \in 1..n : h[i] = <<Crossed(rules[i])>> /\ h[i] \in Seq(Stored)
  BY <1>2, <1>4, <1>6, ParsedTyped
<1>8. h \in Seq(Seq(Stored)) /\ Len(h) = n
  BY <1>6, <1>7
<1>9. \A i \in 1..n : Len(h[i]) = 1 /\ h[i][1] = Crossed(rules[i])
  <2>1. \A x : Len(<<x>>) = 1 /\ <<x>>[1] = x
    OBVIOUS
  <2> QED BY <1>7, <2>1, Zenon
<1>10. /\ FlattenSeq(h) \in Seq(Stored) /\ Len(FlattenSeq(h)) = n
       /\ \A i \in 1..n : FlattenSeq(h)[i] = h[i][1]
  BY <1>8, <1>9, FlatSingles
<1>11. DOMAIN FlattenSeq(h) = 1..n
  BY <1>10
<1> QED BY <1>1, <1>6, <1>9, <1>10, <1>11

\* So they decide alike.
LEMMA DecideAlike ==
    ASSUME NEW rules \in Seq(Stored), \A i \in DOMAIN rules : Portable(rules[i]),
           NEW name \in Probes, NEW is_dir \in BOOLEAN
    PROVE  is_excluded(ParseAll(WireTexts(rules)), name, is_dir) <=> is_excluded(rules, name, is_dir)
<1> DEFINE parsed == ParseAll(WireTexts(rules))
           theirs == {i \in DOMAIN parsed : ~parsed[i].clear /\ matches(parsed[i], name, is_dir)}
           mine == {i \in DOMAIN rules : ~rules[i].clear /\ matches(rules[i], name, is_dir)}
<1>1. DOMAIN parsed = DOMAIN rules /\ \A i \in DOMAIN rules : parsed[i] = Crossed(rules[i])
  BY CarriedOne
<1> HIDE DEF parsed
<1>2. \A i \in DOMAIN rules : (~parsed[i].clear /\ matches(parsed[i], name, is_dir))
                              <=> (~rules[i].clear /\ matches(rules[i], name, is_dir))
  BY <1>1, MarkMatchesNone, Zenon DEF Crossed
<1>3. theirs = mine
  BY <1>1, <1>2
<1>4. mine # {} => Min(mine) \in mine
  <2>1. mine \in SUBSET Nat
    OBVIOUS
  <2> HIDE DEF mine
  <2> QED BY <2>1, MinIs
<1>5. mine # {} => parsed[Min(mine)] = rules[Min(mine)]
  <2>1. \A i \in mine : parsed[i] = rules[i]
    BY <1>1 DEF Crossed
  <2> HIDE DEF mine
  <2> QED BY <1>4, <2>1
<1>6. is_excluded(parsed, name, is_dir) <=> (theirs # {} /\ ~parsed[Min(theirs)].include)
  BY Zenon DEF is_excluded
<1>7. is_excluded(rules, name, is_dir) <=> (mine # {} /\ ~rules[Min(mine)].include)
  BY Zenon DEF is_excluded
<1> HIDE DEF mine, theirs
<1>8. is_excluded(parsed, name, is_dir) <=> is_excluded(rules, name, is_dir)
  BY <1>3, <1>5, <1>6, <1>7, Zenon
<1> QED BY <1>8, Zenon DEF parsed

-----------------------------------------------------------------------------
(* The client's list of rules.                                             *)

\* A rule that can be read in one way only.
Written == {r \in RuleType : Readable(r)}

\* A piece is written as a text.
LEMMA TextOfTyped == ASSUME NEW p \in PieceType, Legible(p) PROVE TextOf(p) \in Text
<1>1. \A a, b, c \in Byte : <<>> \in Text /\ <<a>> \in Text /\ <<a, b>> \in Text /\ <<a, b, c>> \in Text
  BY TupleTyped DEF Text
<1>2. /\ Meta.not \in Byte /\ Meta.star \in Byte /\ Meta.to \in Byte /\ Meta.slash \in Byte
      /\ Meta.any \in Byte /\ Meta.open \in Byte /\ Meta.close \in Byte
  BY DEF Meta, Byte
<1>3. PICK n \in Nat : n = Len(p.members) /\ DOMAIN p.members = 1..n
                       /\ \A i \in 1..n : p.members[i] \in Ranges
  <2>1. p.members \in Seq(Ranges)
    BY DEF PieceType
  <2> QED BY <2>1
<1>4. \A r \in Ranges : r.lo \in Byte /\ r.hi \in Byte
  BY DEF Ranges
<1>5. CASE p.piece = "byte"
  <2>1. 1 \in 1..n
    BY <1>3, <1>5 DEF Legible
  <2> QED BY <1>1, <1>3, <1>4, <1>5, <2>1 DEF TextOf
<1>6. CASE p.piece = "any"
  BY <1>1, <1>2, <1>6 DEF TextOf
<1>7. CASE p.piece = "star"
  BY <1>1, <1>2, <1>7 DEF TextOf
<1>8. CASE p.piece = "stars"
  BY <1>1, <1>2, <1>8 DEF TextOf
<1>9. CASE p.piece = "class"
  <2>1. Opening(p) \in Text /\ <<Meta.close>> \in Text
    BY <1>1, <1>2 DEF Opening
  <2>2. \A i \in 1..n : MemberText(p.members[i]) \in Text
    BY <1>1, <1>2, <1>3, <1>4 DEF MemberText
  <2>3. MemberTexts(p) \in Seq(Text) /\ Len(MemberTexts(p)) = n
    BY <1>3, <2>2 DEF MemberTexts
  <2>4. FlattenSeq(MemberTexts(p)) \in Text
    BY <2>3, FlatAt DEF Text
  <2>5. Opening(p) \o FlattenSeq(MemberTexts(p)) \in Text
    BY <2>1, <2>4, JoinAt DEF Text
  <2>6. Opening(p) \o FlattenSeq(MemberTexts(p)) \o <<Meta.close>> \in Text
    BY <2>1, <2>5, JoinAt DEF Text
  <2> QED BY <1>9, <2>6 DEF TextOf
<1>10. p.piece \in {"byte", "any", "class", "star", "stars"}
  BY DEF PieceType
<1> QED BY <1>5, <1>6, <1>7, <1>8, <1>9, <1>10

\* So is a rule.
LEMMA PatternTyped == ASSUME NEW r \in Written PROVE Rendered(r.glob) \in Text /\ Pattern(r) \in Text
<1>1. r.glob \in Seq(PieceType) /\ \A i \in DOMAIN r.glob : Legible(r.glob[i])
  BY DEF Written, RuleType, Readable
<1>2. PICK n \in Nat : n = Len(r.glob) /\ DOMAIN r.glob = 1..n /\ \A i \in 1..n : r.glob[i] \in PieceType
  BY <1>1
<1>3. PICK h : h = [i \in DOMAIN r.glob |-> TextOf(r.glob[i])]
  OBVIOUS
<1>4. h \in Seq(Text) /\ Len(h) = n
  <2>1. \A i \in 1..n : TextOf(r.glob[i]) \in Text
    BY <1>1, <1>2, TextOfTyped
  <2> QED BY <1>2, <1>3, <2>1
<1>5. Rendered(r.glob) \in Text
  <2>1. FlattenSeq(h) \in Text
    BY <1>4, FlatAt DEF Text
  <2> QED BY <1>3, <2>1 DEF Rendered
<1>6. <<>> \in Text /\ <<Meta.slash>> \in Text
  BY DEF Meta, Byte, Text
<1> DEFINE a == IF r.anchored THEN <<Meta.slash>> ELSE <<>>
           b == IF r.dironly THEN <<Meta.slash>> ELSE <<>>
<1>7. a \in Text /\ b \in Text
  BY <1>6
<1> HIDE DEF a, b
<1>8. (a \o Rendered(r.glob)) \o b \in Text
  BY <1>5, <1>7, JoinAt DEF Text
<1>9. Pattern(r) = (a \o Rendered(r.glob)) \o b
  BY Zenon DEF Pattern, a, b
<1> QED BY <1>5, <1>8, <1>9

\* The texts of an option are texts.
LEMMA TextsTyped == ASSUME case \in Cases, NEW via PROVE Texts(via) \in Seq(Text)
<1>1. case.rules \in Seq(RuleType) /\ \A i \in DOMAIN case.rules : case.rules[i] \in Written
  <2>1. case.rules \in Seq(RuleType) /\ \A i \in DOMAIN case.rules : Readable(case.rules[i])
    BY RulesAssumption
  <2> QED BY <2>1 DEF Written
<1>2. PICK n \in Nat : n = Len(case.rules) /\ DOMAIN case.rules = 1..n
  BY <1>1
<1>3. PICK h : h = [i \in DOMAIN case.rules |-> IF case.rules[i].via = via THEN <<case.rules[i]>> ELSE <<>>]
  OBVIOUS
<1>4. h \in Seq(Seq(Written)) /\ Len(h) = n
  <2>1. \A i \in 1..n : (IF case.rules[i].via = via THEN <<case.rules[i]>> ELSE <<>>) \in Seq(Written)
    BY <1>1, <1>2
  <2> QED BY <1>2, <1>3, <2>1
<1>5. FlattenSeq(h) \in Seq(Written)
  BY <1>4, FlatAt
<1>6. GivenBy(case.rules, via) \in Seq(Written)
  BY <1>3, <1>5 DEF GivenBy
<1> DEFINE mine == GivenBy(case.rules, via)
           sign(r) == IF via \in {"include", "exclude", "cvs"} THEN <<>>
                      ELSE <<IF r.include THEN Plus ELSE Dash, Space>>
<1>7. \A r : sign(r) \in Text
  <2>1. Plus \in Byte /\ Dash \in Byte /\ Space \in Byte
    BY DEF Byte, Plus, Dash, Space
  <2>2. <<>> \in Text /\ <<Plus, Space>> \in Text /\ <<Dash, Space>> \in Text
    BY <2>1, TupleTyped DEF Text
  <2> QED BY <2>2
<1> HIDE DEF mine, sign
<1>8. PICK m \in Nat : m = Len(mine) /\ DOMAIN mine = 1..m /\ \A i \in 1..m : mine[i] \in Written
  BY <1>6 DEF mine
<1>9. \A i \in 1..m : sign(mine[i]) \o Pattern(mine[i]) \in Text
  <2> TAKE i \in 1..m
  <2>1. sign(mine[i]) \in Seq(Byte) /\ Pattern(mine[i]) \in Seq(Byte)
    BY <1>7, <1>8, PatternTyped DEF Text
  <2> QED BY <2>1, JoinAt DEF Text
<1>10. [i \in DOMAIN mine |-> sign(mine[i]) \o Pattern(mine[i])] \in Seq(Text)
  BY <1>8, <1>9
<1> QED BY <1>10, Zenon DEF Texts, mine, sign

\* The client's list of rules is one.
LEMMA ClientRulesTyped == ASSUME case \in Cases PROVE ClientRules \in Seq(Stored)
<1> DEFINE o == [filter |-> Texts("filter"), include_from |-> Texts("include_from"),
                 exclude_from |-> Texts("exclude_from"), include |-> Texts("include"),
                 exclude |-> Texts("exclude"), cvs |-> Texts("cvs")]
           built(texts, inc) == [i \in DOMAIN texts |-> build_rule(texts[i], inc)]
<1>1. \A via : Texts(via) \in Seq(Text)
  BY TextsTyped
<1>2. /\ ParseAll(o.filter) \in Seq(Stored) /\ ParseAll(o.include_from) \in Seq(Stored)
      /\ ParseAll(o.exclude_from) \in Seq(Stored)
  BY <1>1, ParseAllTyped
<1>3. ASSUME NEW texts \in Seq(Text) PROVE built(texts, TRUE) \in Seq(Stored) /\ built(texts, FALSE) \in Seq(Stored)
  <2>1. \A p \in Text : build_rule(p, TRUE) \in Stored /\ build_rule(p, FALSE) \in Stored
    BY Zenon DEF Stored
  <2>2. PICK n \in Nat : DOMAIN texts = 1..n /\ \A i \in 1..n : texts[i] \in Text
    OBVIOUS
  <2>3. \A i \in 1..n : build_rule(texts[i], TRUE) \in Stored /\ build_rule(texts[i], FALSE) \in Stored
    BY <2>1, <2>2
  <2>4. PICK x, y : x = [i \in 1..n |-> build_rule(texts[i], TRUE)] /\ y = [i \in 1..n |-> build_rule(texts[i], FALSE)]
    OBVIOUS
  <2>5. x \in [1..n -> Stored] /\ y \in [1..n -> Stored]
    BY <2>3, <2>4
  <2>6. x \in Seq(Stored) /\ y \in Seq(Stored)
    BY <2>5
  <2> QED BY <2>2, <2>4, <2>6
<1>4. built(o.include, TRUE) \in Seq(Stored) /\ built(o.exclude, FALSE) \in Seq(Stored)
      /\ built(o.cvs, FALSE) \in Seq(Stored)
  BY <1>1, <1>3
<1>5. from_options(o) = ParseAll(o.filter) \o ParseAll(o.include_from) \o ParseAll(o.exclude_from)
                        \o built(o.include, TRUE) \o built(o.exclude, FALSE) \o built(o.cvs, FALSE)
  BY Zenon DEF from_options
<1>6. from_options(o) \in Seq(Stored)
  <2> HIDE DEF o, built
  <2> DEFINE a == ParseAll(o.filter)
             b == ParseAll(o.include_from)
             c == ParseAll(o.exclude_from)
             d == built(o.include, TRUE)
             e == built(o.exclude, FALSE)
             f == built(o.cvs, FALSE)
  <2>1. /\ a \in Seq(Stored) /\ b \in Seq(Stored) /\ c \in Seq(Stored) /\ d \in Seq(Stored)
        /\ e \in Seq(Stored) /\ f \in Seq(Stored)
    BY <1>2, <1>4
  <2>2. from_options(o) = a \o b \o c \o d \o e \o f
    BY <1>5
  <2> HIDE DEF a, b, c, d, e, f
  <2> QED BY <2>1, <2>2
<1>7. <<>> \in Seq(Stored)
  OBVIOUS
<1> QED BY <1>6, <1>7, Zenon DEF ClientRules

\* The client's rules stay, and the server has been sent what they are written as.
RulesInv ==
    /\ crules = ClientRules
    /\ Supported(case) /\ spc = "session" /\ ~case.push => srules = WireTexts(crules)

\* It holds when the client has built its rules and nothing has been sent.
LEMMA RulesInit == Init => RulesInv
  BY DEF Init, RulesInv

\* The situation and the client's rules never change.
LEMMA RulesKept == [Next]_vars => case' = case /\ crules' = crules
  BY DEF Next, ClientStep, ServerStep, CSendVersion, CReadVersion, CGreet, CReadGreeting, CReadOk,
         CReadLine, CReadCompat, CReadSeed, CSendRules, CReadList, CEof, SReadVersion, SGreet,
         SReadGreeting, SReadModule, SReadArgv, SSendCompat, SReadLists, SReadRules, SEof, Break,
         Client, Server, vars

\* Only reading the rules takes the server to the session.
LEMMA OnlyByRules ==
    [Next]_vars => \/ spc' = spc /\ srules' = srules
                   \/ spc' # "session"
                   \/ SReadRules
  BY DEF Next, ClientStep, ServerStep, CSendVersion, CReadVersion, CGreet, CReadGreeting, CReadOk,
         CReadLine, CReadCompat, CReadSeed, CSendRules, CReadList, CEof, SReadVersion, SGreet,
         SReadGreeting, SReadModule, SReadArgv, SSendCompat, SReadLists, SEof, Break,
         Client, Server, vars

\* It is kept by every step: only run_client_protocol sends the rules, and only
\* recv_and_parse_filter_list takes them.
LEMMA RulesStep == HandshakeInv /\ RulesInv /\ [Next]_vars => RulesInv'
<1> SUFFICES ASSUME HandshakeInv, RulesInv, [Next]_vars PROVE RulesInv'
  OBVIOUS
<1>1. case' = case /\ crules' = crules
  BY RulesKept
<1>2. crules' = ClientRules'
  BY <1>1 DEF RulesInv, ClientRules, Texts
<1>3. ASSUME Supported(case), spc' = "session", ~case.push PROVE srules' = WireTexts(crules)
  <2>1. CASE spc' = spc /\ srules' = srules
    BY <1>3, <2>1 DEF RulesInv
  <2>2. CASE SReadRules
    <3>1. SGets /\ spc = "rules" /\ srules' = Head(c2s).v
      BY <1>3, <2>2 DEF SReadRules
    <3>2. SNeeds = <<"filters">>
      BY <1>3, <3>1 DEF SNeeds
    <3>3. c2s # <<>>
      BY <3>1, <3>2 DEF SGets, Arrived
    <3>4. c2s = <<FilterItem>>
      <4>1. c2s = <<>> \/ c2s = RuleItems
        BY <1>3, <3>1 DEF HandshakeInv, Places, ShellPlaces, DaemonPlaces, CommonPlaces, At
      <4> QED BY <1>3, <3>3, <4>1 DEF RuleItems
    <3>5. Head(c2s) = FilterItem
      BY <3>4
    <3> QED BY <1>3, <3>1, <3>5 DEF FilterItem, Item
  <2> QED BY <1>3, <2>1, <2>2, OnlyByRules
<1> QED BY <1>1, <1>2, <1>3 DEF RulesInv

\* Between programs that understand one another a server that sends its files leaves out
\* what the client has asked it to: about every name, whatever the rules are, those that
\* recv_and_parse_filter_list makes of the texts decide as the client's own do, unless one
\* of these is anchored, for directories only, or begins or ends with a space.
THEOREM RulesCarriedHolds == Spec => [](Supported(case) => RulesCarried)
<1>1. HandshakeInv /\ RulesInv /\ [Next]_vars => RulesInv'
  BY RulesStep
<1>2. Init => RulesInv
  BY RulesInit
<1>3. HandshakeInv /\ RulesInv => (Supported(case) => RulesCarried)
  <2> SUFFICES ASSUME HandshakeInv, RulesInv, Supported(case), spc = "session", ~case.push,
                      \A i \in DOMAIN crules : Portable(crules[i]),
                      NEW name \in Probes, NEW is_dir \in BOOLEAN
               PROVE  is_excluded(ServerRules, name, is_dir) <=> is_excluded(crules, name, is_dir)
    BY Zenon DEF RulesCarried
  <2>1. crules \in Seq(Stored)
    BY ClientRulesTyped DEF HandshakeInv, RulesInv
  <2>2. ServerRules = ParseAll(WireTexts(crules))
    BY DEF RulesInv, ServerRules
  <2> QED BY <2>1, <2>2, DecideAlike, Zenon
<1> QED BY <1>1, <1>2, <1>3, HandshakeInvHolds, PTL DEF Spec

\* From the top down: what holds of each number when it holds of the larger ones.
LEMMA DownInduction ==
    ASSUME NEW a \in Nat, NEW n \in Nat, NEW S,
           \A i \in a..n : (\A j \in (i + 1)..n : j \in S) => i \in S
    PROVE  \A i \in a..n : i \in S
<1> DEFINE C == {i \in a..n : i \notin S}
<1> SUFFICES ASSUME C # {} PROVE FALSE
  OBVIOUS
<1>1. C \in SUBSET (0..n)
  OBVIOUS
<1>2. PICK x \in C : \A y \in C : x >= y
  <2> HIDE DEF C
  <2> QED BY <1>1, MaxIs
<1>3. x \in a..n /\ \A j \in (x + 1)..n : j \in S
  BY <1>2
<1> QED BY <1>2, <1>3

-----------------------------------------------------------------------------
(* Classes.                                                                *)

\* One step of the scan of a class, over the rest of the scan.
ScanStep(p, start, ch, g, i) ==
    IF i > Len(p) THEN [hit |-> FALSE, next |-> Len(p) + 1]
    ELSE IF p[i] = Close /\ i # start THEN [hit |-> FALSE, next |-> i + 1]
    ELSE IF i + 2 <= Len(p) /\ p[i + 1] = Dash /\ p[i + 2] # Close
    THEN [g[i + 3] EXCEPT !.hit = @ \/ ch \in p[i]..p[i + 2]]
    ELSE [g[i + 1] EXCEPT !.hit = @ \/ ch = p[i]]

\* A step of the scan looks no further than three places on.
LEMMA ScanLocal ==
    ASSUME NEW p, NEW start, NEW ch, NEW g, NEW h, NEW i,
           i > Len(p) \/ (g[i + 1] = h[i + 1] /\ g[i + 3] = h[i + 3])
    PROVE  ScanStep(p, start, ch, g, i) = ScanStep(p, start, ch, h, i)
<1>1. CASE i > Len(p)
  BY <1>1, Zenon DEF ScanStep
<1>2. CASE g[i + 1] = h[i + 1] /\ g[i + 3] = h[i + 3]
  BY <1>2, Zenon DEF ScanStep
<1> QED BY <1>1, <1>2

\* g is the scan of a class from its first member on.
IsScan(p, start, ch, g) == g = [i \in start..(Len(p) + 3) |-> ScanStep(p, start, ch, g, i)]

\* There is such a scan.
LEMMA ScanExists ==
    ASSUME NEW p, NEW n \in Nat, Len(p) = n, NEW ch, NEW start \in Nat, start <= n + 3
    PROVE  \E g : IsScan(p, start, ch, g)
<1> DEFINE T == {a \in Nat : \E g : g = [i \in a..(n + 3) |-> ScanStep(p, start, ch, g, i)]}
<1>1. ASSUME NEW a \in start..(n + 3), \A x \in (a + 1)..(n + 3) : x \in T PROVE a \in T
  <2>1. PICK g : a < n + 3 => g = [i \in (a + 1)..(n + 3) |-> ScanStep(p, start, ch, g, i)]
    <3>1. CASE a < n + 3
      <4>1. a + 1 \in T
        BY <1>1, <3>1
      <4> QED BY <4>1
    <3> QED BY <3>1
  <2>2. PICK k : k = [i \in a..(n + 3) |-> IF i = a THEN ScanStep(p, start, ch, g, i) ELSE g[i]]
    OBVIOUS
  <2>3. ASSUME NEW i \in a..(n + 3) PROVE k[i] = ScanStep(p, start, ch, k, i)
    <3>1. ScanStep(p, start, ch, g, i) = ScanStep(p, start, ch, k, i)
      <4>1. CASE i > n
        BY <4>1, ScanLocal
      <4>2. CASE ~(i > n)
        <5>1. i + 1 \in a..(n + 3) /\ i + 3 \in a..(n + 3) /\ i + 1 # a /\ i + 3 # a
          BY <4>2
        <5>2. k[i + 1] = g[i + 1] /\ k[i + 3] = g[i + 3]
          BY <2>2, <5>1
        <5> QED BY <5>2, ScanLocal
      <4> QED BY <4>1, <4>2
    <3>2. CASE i = a
      BY <2>2, <3>1, <3>2
    <3>3. CASE i # a
      <4>1. i \in (a + 1)..(n + 3) /\ a < n + 3
        BY <3>3
      <4>2. g[i] = ScanStep(p, start, ch, g, i)
        BY <2>1, <4>1
      <4> QED BY <2>2, <3>1, <3>3, <4>2
    <3> QED BY <3>2, <3>3
  <2>4. k = [i \in a..(n + 3) |-> ScanStep(p, start, ch, k, i)]
    <3>1. \A i \in a..(n + 3) : (IF i = a THEN ScanStep(p, start, ch, g, i) ELSE g[i]) = ScanStep(p, start, ch, k, i)
      BY <2>2, <2>3
    <3> QED BY <2>2, <3>1
  <2> QED BY <2>4
<1>2. \A a \in start..(n + 3) : a \in T
  <2> HIDE DEF T
  <2>1. n + 3 \in Nat
    OBVIOUS
  <2> QED BY <1>1, <2>1, DownInduction
<1>3. start \in T
  <2> HIDE DEF T
  <2> QED BY <1>2
<1> QED BY <1>3 DEF IsScan

\* A class begins behind its bracket, or behind the mark of a negation.
Negated(p, b) == b < Len(p) /\ p[b + 1] = Bang
\* Where the first member of a class is.
Start(p, b) == IF Negated(p, b) THEN b + 2 ELSE b + 1

\* What the matcher makes of a class is the scan of it.
LEMMA ClassIs ==
    ASSUME NEW p \in Text, NEW n \in Nat, Len(p) = n, NEW b \in 1..n, NEW ch
    PROVE  \E g : /\ match_char_class(p, b, ch) = [g[Start(p, b)] EXCEPT !.hit = (@ # Negated(p, b))]
                  /\ \A i \in Start(p, b)..(n + 3) : g[i] = ScanStep(p, Start(p, b), ch, g, i)
<1> DEFINE negate == b < Len(p) /\ p[b + 1] = Bang
           start == IF negate THEN b + 2 ELSE b + 1
           body(f, i) == IF i > Len(p) THEN [hit |-> FALSE, next |-> Len(p) + 1]
                         ELSE IF p[i] = Close /\ i # start THEN [hit |-> FALSE, next |-> i + 1]
                         ELSE IF i + 2 <= Len(p) /\ p[i + 1] = Dash /\ p[i + 2] # Close
                         THEN [f[i + 3] EXCEPT !.hit = @ \/ ch \in p[i]..p[i + 2]]
                         ELSE [f[i + 1] EXCEPT !.hit = @ \/ ch = p[i]]
           f == CHOOSE f : f = [i \in start..(Len(p) + 3) |-> body(f, i)]
<1>1. match_char_class(p, b, ch) = [f[start] EXCEPT !.hit = (@ # negate)]
  BY Zenon DEF match_char_class
<1>2. negate = Negated(p, b) /\ start = Start(p, b)
  BY Zenon DEF Negated, Start
<1>3. start \in Nat /\ start <= n + 3
  OBVIOUS
<1>4. \A g, i : body(g, i) = ScanStep(p, start, ch, g, i)
  BY Zenon DEF ScanStep
<1> HIDE DEF start, negate, body
<1>5. PICK g : IsScan(p, start, ch, g)
  BY <1>3, ScanExists
<1>6. g = [i \in start..(Len(p) + 3) |-> body(g, i)]
  <2>1. \A i \in start..(Len(p) + 3) : ScanStep(p, start, ch, g, i) = body(g, i)
    BY <1>4, Zenon
  <2> QED BY <1>5, <2>1 DEF IsScan
<1>7. f = [i \in start..(Len(p) + 3) |-> body(f, i)]
  BY <1>6, Zenon
<1> HIDE DEF f
<1>8. \A i \in start..(Len(p) + 3) : f[i] = ScanStep(p, start, ch, f, i)
  BY <1>4, <1>7, Zenon
<1> QED BY <1>1, <1>2, <1>8, Zenon

\* A class ends behind its beginning, at the end of the pattern at the latest.
LEMMA ClassNext ==
    ASSUME NEW p \in Text, NEW n \in Nat, Len(p) = n, NEW b \in 1..n, NEW ch
    PROVE  match_char_class(p, b, ch).next \in (b + 1)..(n + 1)
<1> DEFINE start == Start(p, b)
<1>1. PICK g : /\ match_char_class(p, b, ch) = [g[start] EXCEPT !.hit = (@ # Negated(p, b))]
               /\ \A i \in start..(n + 3) : g[i] = ScanStep(p, start, ch, g, i)
  BY ClassIs
<1>2. start \in (b + 1)..(n + 1)
  BY DEF Start, Negated
<1> HIDE DEF start
<1> DEFINE Scans == [hit : BOOLEAN, next : Nat]
           Ends(i) == g[i] \in Scans /\ IF i > n THEN g[i].next = n + 1 ELSE g[i].next \in (i + 1)..(n + 1)
           T == {i \in start..(n + 3) : Ends(i)}
<1>3. ASSUME NEW i \in start..(n + 3), \A j \in (i + 1)..(n + 3) : j \in T PROVE Ends(i)
  <2>1. g[i] = ScanStep(p, start, ch, g, i)
    BY <1>1
  <2>2. CASE i > n
    <3>1. g[i] = [hit |-> FALSE, next |-> n + 1]
      BY <2>1, <2>2, Zenon DEF ScanStep
    <3> QED BY <2>2, <3>1
  <2>3. CASE ~(i > n)
    <3>1. i + 1 \in T /\ i + 3 \in T
      <4>1. i + 1 \in (i + 1)..(n + 3) /\ i + 3 \in (i + 1)..(n + 3)
        BY <1>2, <2>3
      <4> HIDE DEF T
      <4> QED BY <1>3, <4>1
    <3>2. Ends(i + 1) /\ Ends(i + 3)
      BY <3>1
    <3>3. PICK u \in Scans, v \in Scans :
            /\ u = g[i + 1] /\ v = g[i + 3]
            /\ u.next \in (i + 1)..(n + 1) /\ v.next \in (i + 1)..(n + 1)
      BY <1>2, <2>3, <3>2, SMTT(30)
    <3>4. \/ g[i] = [hit |-> FALSE, next |-> i + 1]
          \/ g[i] = [v EXCEPT !.hit = @ \/ ch \in p[i]..p[i + 2]]
          \/ g[i] = [u EXCEPT !.hit = @ \/ ch = p[i]]
      BY <2>1, <2>3, <3>3, Zenon DEF ScanStep
    <3>5. CASE g[i] = [hit |-> FALSE, next |-> i + 1]
      BY <1>2, <2>3, <3>5
    <3>6. CASE g[i] = [v EXCEPT !.hit = @ \/ ch \in p[i]..p[i + 2]]
      BY <2>3, <3>3, <3>6
    <3>7. CASE g[i] = [u EXCEPT !.hit = @ \/ ch = p[i]]
      BY <2>3, <3>3, <3>7
    <3> QED BY <3>4, <3>5, <3>6, <3>7
  <2> QED BY <2>2, <2>3
<1>4. \A i \in start..(n + 3) : i \in T
  <2>1. ASSUME NEW i \in start..(n + 3), \A j \in (i + 1)..(n + 3) : j \in T PROVE i \in T
    <3> HIDE DEF Ends
    <3> QED BY <1>3, <2>1
  <2>2. PICK a \in Nat, e \in Nat : a = start /\ e = n + 3
    BY <1>2
  <2> HIDE DEF T
  <2>3. \A i \in a..e : (\A j \in (i + 1)..e : j \in T) => i \in T
    BY <2>1, <2>2
  <2>4. \A i \in a..e : i \in T
    BY <2>3, DownInduction
  <2> QED BY <2>2, <2>4
<1>5. Ends(start)
  <2>1. start \in start..(n + 3)
    BY <1>2
  <2> HIDE DEF Ends
  <2> QED BY <1>4, <2>1
<1>6. g[start].next \in (b + 1)..(n + 1) /\ g[start] \in Scans
  BY <1>2, <1>5
<1> QED BY <1>1, <1>6

-----------------------------------------------------------------------------
(* The matcher.                                                            *)

\* Where the run of stars at place i ends.
RunEnd(p, i) == Min({x \in i..(Len(p) + 1) : x > Len(p) \/ p[x] # Star})

\* One step of the matcher, over what it makes of the rest of the pattern.
MatchStep(p, t, m, i, j) ==
    IF i > Len(p) THEN j > Len(t)
    ELSE IF p[i] = Star
    THEN IF RunEnd(p, i) > Len(p) THEN RunEnd(p, i) - i >= 2 \/ ~Has(From(t, j), Slash)
         ELSE \E x \in j..(Len(t) + 1) :
                m[RunEnd(p, i)][x] /\ (RunEnd(p, i) - i >= 2 \/ ~Has(SubSeq(t, j, x - 1), Slash))
    ELSE IF j > Len(t) THEN FALSE
    ELSE IF p[i] = Open
    THEN match_char_class(p, i, t[j]).hit /\ m[match_char_class(p, i, t[j]).next][j + 1]
    ELSE IF p[i] = Question THEN t[j] # Slash /\ m[i + 1][j + 1]
    ELSE p[i] = t[j] /\ m[i + 1][j + 1]

\* A run of stars ends at the first place that holds something else, or behind the pattern.
LEMMA RunEndIs ==
    ASSUME NEW p \in Text, NEW n \in Nat, Len(p) = n, NEW i \in 1..n, p[i] = Star
    PROVE  LET e == RunEnd(p, i)
           IN  /\ e \in (i + 1)..(n + 1) /\ (e > n \/ p[e] # Star)
               /\ \A x \in i..(e - 1) : p[x] = Star
<1> DEFINE S == {x \in i..(Len(p) + 1) : x > Len(p) \/ p[x] # Star}
<1>1. S \in SUBSET Nat /\ n + 1 \in S
  OBVIOUS
<1>2. Min(S) \in S /\ \A y \in S : Min(S) <= y
  <2> HIDE DEF S
  <2> QED BY <1>1, MinIs
<1>3. PICK e : e = Min(S)
  OBVIOUS
<1>4. e \in i..(n + 1) /\ (e > n \/ p[e] # Star) /\ \A x \in i..(e - 1) : p[x] = Star
  <2>1. e \in S /\ \A y \in S : e <= y
    <3> HIDE DEF S
    <3> QED BY <1>2, <1>3
  <2>2. e \in i..(n + 1) /\ (e > n \/ p[e] # Star)
    BY <2>1
  <2>3. ASSUME NEW x \in i..(e - 1) PROVE p[x] = Star
    <3>1. x \notin S /\ x \in i..(n + 1) /\ ~(x > n)
      BY <2>1, <2>2
    <3> QED BY <3>1
  <2> QED BY <2>2, <2>3
<1>5. e # i
  BY <1>4
<1>6. RunEnd(p, i) = e
  BY <1>3 DEF RunEnd
<1> QED BY <1>4, <1>5, <1>6

\* The step looks at larger places of the pattern only.
LEMMA MatchLocal ==
    ASSUME NEW p \in Text, NEW n \in Nat, Len(p) = n, NEW t, NEW g, NEW h, NEW i \in 1..(n + 1), NEW j,
           \A x \in (i + 1)..(n + 1) : g[x] = h[x]
    PROVE  MatchStep(p, t, g, i, j) = MatchStep(p, t, h, i, j)
<1>1. CASE i > n
  BY <1>1, Zenon DEF MatchStep
<1>2. CASE ~(i > n)
  <2>1. i \in 1..n /\ i + 1 \in (i + 1)..(n + 1)
    BY <1>2
  <2>2. p[i] = Star => RunEnd(p, i) \in (i + 1)..(n + 1)
    BY <2>1, RunEndIs
  <2>3. match_char_class(p, i, t[j]).next \in (i + 1)..(n + 1)
    BY <2>1, ClassNext
  <2>4. /\ g[i + 1] = h[i + 1] /\ g[match_char_class(p, i, t[j]).next] = h[match_char_class(p, i, t[j]).next]
        /\ p[i] = Star => g[RunEnd(p, i)] = h[RunEnd(p, i)]
    BY <2>1, <2>2, <2>3
  <2>5. CASE p[i] = Star
    BY <2>4, <2>5, Zenon DEF MatchStep
  <2>6. CASE p[i] # Star
    BY <2>4, <2>6, Zenon DEF MatchStep
  <2> QED BY <2>5, <2>6
<1> QED BY <1>1, <1>2

\* What is made of one place of the pattern, for every place of the text.
Row(p, t, g, i) == [j \in 1..(Len(t) + 1) |-> MatchStep(p, t, g, i, j)]
\* g is what the matcher makes of all places.
IsMatcher(p, t, g) == g = [i \in 1..(Len(p) + 1) |-> Row(p, t, g, i)]

\* A place of the pattern is decided from the places behind it.
LEMMA RowLocal ==
    ASSUME NEW p \in Text, NEW n \in Nat, Len(p) = n, NEW t, NEW g, NEW h, NEW i \in 1..(n + 1),
           \A x \in (i + 1)..(n + 1) : g[x] = h[x]
    PROVE  Row(p, t, g, i) = Row(p, t, h, i)
<1>1. \A j : MatchStep(p, t, g, i, j) = MatchStep(p, t, h, i, j)
  BY MatchLocal
<1> QED BY <1>1, Zenon DEF Row

\* There is such a matcher.
LEMMA MatcherExists ==
    ASSUME NEW p \in Text, NEW t
    PROVE  \E g : IsMatcher(p, t, g)
<1>1. PICK n \in Nat : n = Len(p)
  BY DEF Text
<1> DEFINE T == {a \in Nat : \E g : g = [i \in a..(n + 1) |-> Row(p, t, g, i)]}
<1>2. ASSUME NEW a \in 1..(n + 1), \A x \in (a + 1)..(n + 1) : x \in T PROVE a \in T
  <2>1. PICK g : a < n + 1 => g = [i \in (a + 1)..(n + 1) |-> Row(p, t, g, i)]
    <3>1. CASE a < n + 1
      <4>1. a + 1 \in T
        BY <1>2, <3>1
      <4> QED BY <4>1
    <3> QED BY <3>1
  <2>2. PICK k : k = [i \in a..(n + 1) |-> IF i = a THEN Row(p, t, g, i) ELSE g[i]]
    OBVIOUS
  <2>3. ASSUME NEW i \in a..(n + 1) PROVE k[i] = Row(p, t, k, i)
    <3>1. Row(p, t, g, i) = Row(p, t, k, i)
      <4>1. \A x \in (i + 1)..(n + 1) : g[x] = k[x]
        BY <2>2
      <4> QED BY <1>1, <4>1, RowLocal
    <3>2. CASE i = a
      BY <2>2, <3>1, <3>2
    <3>3. CASE i # a
      <4>1. i \in (a + 1)..(n + 1) /\ a < n + 1
        BY <3>3
      <4>2. g[i] = Row(p, t, g, i)
        BY <2>1, <4>1
      <4> QED BY <2>2, <3>1, <3>3, <4>2
    <3> QED BY <3>2, <3>3
  <2>4. k = [i \in a..(n + 1) |-> Row(p, t, k, i)]
    <3>1. \A i \in a..(n + 1) : (IF i = a THEN Row(p, t, g, i) ELSE g[i]) = Row(p, t, k, i)
      BY <2>2, <2>3
    <3> QED BY <2>2, <3>1
  <2> QED BY <2>4
<1>3. 1 \in T
  <2> HIDE DEF T
  <2>1. PICK e \in Nat : e = n + 1
    OBVIOUS
  <2>2. \A i \in 1..e : (\A j \in (i + 1)..e : j \in T) => i \in T
    BY <1>2, <2>1
  <2>3. \A i \in 1..e : i \in T
    BY <2>2, DownInduction
  <2> QED BY <2>1, <2>3
<1>4. \E g : g = [i \in 1..(n + 1) |-> Row(p, t, g, i)]
  BY <1>3
<1> QED BY <1>1, <1>4, Zenon DEF IsMatcher

\* The matcher is what its step says of it.
LEMMA MatcherIs ==
    ASSUME NEW p \in Text, NEW t \in Text
    PROVE  \E m : /\ wildmatch(p, t) <=> m[1][1]
                  /\ \A i \in 1..(Len(p) + 1) : \A j \in 1..(Len(t) + 1) :
                       m[i][j] <=> MatchStep(p, t, m, i, j)
<1> DEFINE body(f, i, j) ==
             IF i > Len(p) THEN j > Len(t)
             ELSE IF p[i] = Star
             THEN LET k == Min({x \in i..(Len(p) + 1) : x > Len(p) \/ p[x] # Star})
                      double == k - i >= 2
                  IN  IF k > Len(p) THEN double \/ ~Has(From(t, j), Slash)
                      ELSE \E x \in j..(Len(t) + 1) :
                             f[k][x] /\ (double \/ ~Has(SubSeq(t, j, x - 1), Slash))
             ELSE IF j > Len(t) THEN FALSE
             ELSE IF p[i] = Open
             THEN LET c == match_char_class(p, i, t[j]) IN c.hit /\ f[c.next][j + 1]
             ELSE IF p[i] = Question THEN t[j] # Slash /\ f[i + 1][j + 1]
             ELSE p[i] = t[j] /\ f[i + 1][j + 1]
           row(f, i) == [j \in 1..(Len(t) + 1) |-> body(f, i, j)]
           f == CHOOSE f : f = [i \in 1..(Len(p) + 1) |-> row(f, i)]
<1>1. wildmatch(p, t) = f[1][1]
  BY Zenon DEF wildmatch
<1>2. \A g, i, j : body(g, i, j) = MatchStep(p, t, g, i, j)
  BY Zenon DEF MatchStep, RunEnd
<1> HIDE DEF body
<1>3. \A g, i : row(g, i) = Row(p, t, g, i)
  BY <1>2, Zenon DEF Row
<1> HIDE DEF row
<1>4. PICK g : g = [i \in 1..(Len(p) + 1) |-> Row(p, t, g, i)]
  BY MatcherExists, Zenon DEF IsMatcher
<1>5. g = [i \in 1..(Len(p) + 1) |-> row(g, i)]
  <2>1. \A i \in 1..(Len(p) + 1) : Row(p, t, g, i) = row(g, i)
    BY <1>3, Zenon
  <2> QED BY <1>4, <2>1
<1>6. f = [i \in 1..(Len(p) + 1) |-> row(f, i)]
  BY <1>5, Zenon
<1> HIDE DEF f
<1>7. \A i \in 1..(Len(p) + 1) : f[i] = Row(p, t, f, i)
  BY <1>3, <1>6, Zenon
<1>8. \A i \in 1..(Len(p) + 1) : \A j \in 1..(Len(t) + 1) : f[i][j] = MatchStep(p, t, f, i, j)
  BY <1>7, Zenon DEF Row
<1>9. wildmatch(p, t) <=> f[1][1]
  BY <1>1, Zenon
<1>10. \A i \in 1..(Len(p) + 1) : \A j \in 1..(Len(t) + 1) : f[i][j] <=> MatchStep(p, t, f, i, j)
  <2> TAKE i \in 1..(Len(p) + 1)
  <2> TAKE j \in 1..(Len(t) + 1)
  <2>1. f[i][j] = MatchStep(p, t, f, i, j)
    BY <1>8, Zenon
  <2> QED BY <2>1, Zenon
<1> QED BY <1>9, <1>10, Zenon

\* s and t one behind the other.
Joined(P, s, t) ==
    /\ s \o t \in Seq(P) /\ Len(s \o t) = Len(s) + Len(t)
    /\ Len(s) \in Nat /\ Len(t) \in Nat
    /\ \A i \in 1..Len(s) : (s \o t)[i] = s[i]
    /\ \A i \in 1..Len(t) : (s \o t)[Len(s) + i] = t[i]

\* Two sequences joined lie one behind the other.
LEMMA JoinIs == ASSUME NEW P, NEW s \in Seq(P), NEW t \in Seq(P) PROVE Joined(P, s, t)
  BY DEF Joined

-----------------------------------------------------------------------------
(* Pieces as they are written.                                             *)

\* The members of a class, one behind the other.
Listed(q) == FlattenSeq(MemberTexts(q))

\* The members of a class are ranges of bytes.
LEMMA MembersTyped ==
    ASSUME NEW q \in PieceType
    PROVE  /\ Len(q.members) \in Nat /\ DOMAIN q.members = 1..Len(q.members)
           /\ \A v \in 1..Len(q.members) : q.members[v].lo \in Byte /\ q.members[v].hi \in Byte
           /\ q.negate \in BOOLEAN /\ q.piece \in {"byte", "any", "class", "star", "stars"}
<1>1. /\ q.members \in Seq(Ranges) /\ q.negate \in BOOLEAN
      /\ q.piece \in {"byte", "any", "class", "star", "stars"}
  BY DEF PieceType
<1>2. \A r \in Ranges : r.lo \in Byte /\ r.hi \in Byte
  BY DEF Ranges
<1>3. Len(q.members) \in Nat /\ DOMAIN q.members = 1..Len(q.members)
      /\ \A v \in 1..Len(q.members) : q.members[v] \in Ranges
  BY <1>1
<1> QED BY <1>1, <1>2, <1>3

\* A member is a byte, or two with a dash between them.
LEMMA MemberTextIs ==
    ASSUME NEW r, r.lo \in Byte, r.hi \in Byte
    PROVE  /\ MemberText(r) \in Text /\ MemberText(r)[1] = r.lo
           /\ r.lo = r.hi => Len(MemberText(r)) = 1
           /\ r.lo # r.hi => Len(MemberText(r)) = 3 /\ MemberText(r)[2] = Dash /\ MemberText(r)[3] = r.hi
<1>1. Meta.to = Dash /\ Dash \in Byte
  BY DEF Meta, Dash, Byte
<1>2. CASE r.lo = r.hi
  <2>1. MemberText(r) = <<r.lo>>
    BY <1>2 DEF MemberText
  <2>2. <<r.lo>> \in Seq(Byte)
    BY TupleTyped
  <2> QED BY <1>2, <2>1, <2>2 DEF Text
<1>3. CASE r.lo # r.hi
  <2>1. MemberText(r) = <<r.lo, Dash, r.hi>>
    BY <1>1, <1>3 DEF MemberText
  <2>2. <<r.lo, Dash, r.hi>> \in Seq(Byte)
    BY <1>1, TupleTyped
  <2> QED BY <1>3, <2>1, <2>2 DEF Text
<1> QED BY <1>2, <1>3

\* Where the members of a class lie in it.
LEMMA ListedIs ==
    ASSUME NEW q \in PieceType
    PROVE  /\ Listed(q) \in Text
           /\ MemberTexts(q) \in Seq(Text) /\ Len(MemberTexts(q)) = Len(q.members)
           /\ \A v \in 1..Len(q.members) : MemberTexts(q)[v] = MemberText(q.members[v])
           /\ \E off : Placed(MemberTexts(q), Len(q.members), Listed(q), off)
<1>1. PICK n \in Nat : n = Len(q.members)
  BY MembersTyped
<1>2. MemberTexts(q) = [v \in 1..n |-> MemberText(q.members[v])]
  BY <1>1, MembersTyped DEF MemberTexts
<1>3. \A v \in 1..n : MemberText(q.members[v]) \in Text
  BY <1>1, MembersTyped, MemberTextIs
<1>4. PICK h : h = MemberTexts(q)
  OBVIOUS
<1>5. h \in [1..n -> Text] /\ \A v \in 1..n : h[v] = MemberText(q.members[v])
  BY <1>2, <1>3, <1>4
<1>6. h \in Seq(Text) /\ Len(h) = n
  BY <1>5
<1>7. FlattenSeq(h) \in Text /\ \E off : Placed(h, n, FlattenSeq(h), off)
  BY <1>6, FlatAt DEF Text
<1> QED BY <1>1, <1>4, <1>5, <1>6, <1>7 DEF Listed

\* How a class is written.
LEMMA ClassText ==
    ASSUME NEW q \in PieceType, q.piece = "class"
    PROVE  LET o == IF q.negate THEN 2 ELSE 1
               s == TextOf(q)
           IN  /\ s \in Text /\ Len(Listed(q)) \in Nat /\ Len(s) = o + Len(Listed(q)) + 1
               /\ s[1] = Open /\ (q.negate => s[2] = Bang)
               /\ \A j \in 1..Len(Listed(q)) : s[o + j] = Listed(q)[j]
               /\ s[o + Len(Listed(q)) + 1] = Close
<1>1. /\ Meta.open = Open /\ Meta.not = Bang /\ Meta.close = Close
      /\ Open \in Byte /\ Bang \in Byte /\ Close \in Byte
  BY DEF Meta, Open, Bang, Close, Byte
<1>2. PICK a, b, c : a = Opening(q) /\ b = Listed(q) /\ c = <<Close>>
  OBVIOUS
<1>3. TextOf(q) = (a \o b) \o c
  BY <1>1, <1>2, Zenon DEF TextOf, Listed
<1>4. b \in Seq(Byte) /\ c \in Seq(Byte) /\ Len(c) = 1 /\ c[1] = Close
  BY <1>1, <1>2, ListedIs, TupleTyped DEF Text
<1>5. /\ a \in Seq(Byte) /\ Len(a) = (IF q.negate THEN 2 ELSE 1) /\ a[1] = Open
      /\ q.negate => a[2] = Bang
  <2>1. <<Open>> \in Seq(Byte) /\ <<Open, Bang>> \in Seq(Byte)
    BY <1>1, TupleTyped
  <2>2. q.negate \in BOOLEAN
    BY MembersTyped
  <2>3. CASE q.negate
    <3>1. a = <<Open, Bang>>
      BY <1>1, <1>2, <2>3 DEF Opening
    <3> QED BY <2>1, <2>3, <3>1
  <2>4. CASE ~q.negate
    <3>1. a = <<Open>>
      BY <1>1, <1>2, <2>4 DEF Opening
    <3> QED BY <2>1, <2>4, <3>1
  <2> QED BY <2>3, <2>4
<1>6. /\ a \o b \in Seq(Byte) /\ Len(a \o b) = Len(a) + Len(b) /\ Len(a) \in Nat /\ Len(b) \in Nat
      /\ \A i \in 1..Len(a) : (a \o b)[i] = a[i]
      /\ \A i \in 1..Len(b) : (a \o b)[Len(a) + i] = b[i]
  <2>1. Joined(Byte, a, b)
    BY <1>4, <1>5, JoinIs
  <2> QED BY <2>1, Zenon DEF Joined
<1>7. PICK d : d = a \o b
  OBVIOUS
<1>8. /\ d \o c \in Seq(Byte) /\ Len(d \o c) = Len(d) + Len(c)
      /\ \A i \in 1..Len(d) : (d \o c)[i] = d[i]
      /\ \A i \in 1..Len(c) : (d \o c)[Len(d) + i] = c[i]
  <2>1. Joined(Byte, d, c)
    BY <1>4, <1>6, <1>7, JoinIs
  <2> QED BY <2>1, Zenon DEF Joined
<1>9. PICK s, o, l : s = d \o c /\ o = Len(a) /\ l = Len(b)
  OBVIOUS
<1>10. /\ o \in 1..2 /\ l \in Nat /\ Len(d) = o + l
       /\ s \in Seq(Byte) /\ Len(s) = o + l + 1
       /\ \A i \in 1..o : s[i] = a[i]
       /\ \A i \in 1..l : s[o + i] = b[i]
       /\ s[o + l + 1] = Close
  <2>1. o \in 1..2 /\ l \in Nat /\ Len(d) = o + l /\ s \in Seq(Byte) /\ Len(s) = o + l + 1
    BY <1>4, <1>5, <1>6, <1>7, <1>8, <1>9
  <2>2. \A i \in 1..o : s[i] = a[i]
    BY <1>6, <1>7, <1>8, <1>9, <2>1
  <2>3. \A i \in 1..l : s[o + i] = b[i]
    <3> TAKE i \in 1..l
    <3>1. o + i \in 1..(o + l)
      BY <2>1
    <3> QED BY <1>6, <1>7, <1>8, <1>9, <2>1, <3>1
  <2>4. s[o + l + 1] = Close
    BY <1>4, <1>8, <1>9, <2>1
  <2> QED BY <2>1, <2>2, <2>3, <2>4
<1>11. TextOf(q) = s /\ o = (IF q.negate THEN 2 ELSE 1) /\ l = Len(Listed(q)) /\ b = Listed(q)
  BY <1>2, <1>3, <1>5, <1>7, <1>9
<1>12. s[1] = Open /\ (q.negate => s[2] = Bang)
  BY <1>5, <1>10, <1>11
<1> QED BY <1>10, <1>11, <1>12 DEF Text

\* The text s lies in p from place b on.
LiesAt(p, b, s) == b + Len(s) <= Len(p) + 1 /\ \A j \in 1..Len(s) : p[b - 1 + j] = s[j]

\* Where the members of a class lie in a pattern, the first at place a.
MembersAt(p, a, q, place) ==
    LET M == Len(q.members)
    IN  /\ place[1] = a /\ place[M + 1] <= Len(p) /\ p[place[M + 1]] = Close
        /\ \A v \in 1..(M + 1) : place[v] \in Nat /\ place[v] <= place[M + 1]
        /\ \A v \in 1..M :
             LET r == q.members[v]
             IN  /\ p[place[v]] = r.lo /\ place[v] < place[M + 1]
                 /\ r.lo = r.hi => place[v + 1] = place[v] + 1
                 /\ r.lo # r.hi => place[v + 1] = place[v] + 3 /\ p[place[v] + 1] = Dash /\ p[place[v] + 2] = r.hi

\* A class that is written in a pattern has its members there, one behind the other, and
\* match_char_class finds its sign of negation and its first member.
LEMMA ClassLies ==
    ASSUME NEW q \in PieceType, q.piece = "class", Legible(q),
           NEW p \in Text, NEW b \in Nat, 1 <= b, LiesAt(p, b, TextOf(q))
    PROVE  /\ Start(p, b) = b + (IF q.negate THEN 2 ELSE 1) /\ Negated(p, b) = q.negate
           /\ \E place : /\ MembersAt(p, Start(p, b), q, place)
                         /\ place[Len(q.members) + 1] = b + Len(TextOf(q)) - 1
<1>1. PICK M \in Nat : M = Len(q.members) /\ M >= 1
  <2>1. q.members # <<>> /\ q.members \in Seq(Ranges)
    BY DEF Legible, PieceType
  <2> QED BY <2>1
<1>2. PICK n \in Nat : n = Len(p)
  BY DEF Text
<1>3. PICK o, l, s, f : /\ o = (IF q.negate THEN 2 ELSE 1) /\ l = Len(Listed(q))
                        /\ s = TextOf(q) /\ f = Listed(q)
  OBVIOUS
<1>4. o \in 1..2 /\ l \in Nat /\ q.negate \in BOOLEAN
  BY <1>3, ClassText, MembersTyped
<1>5. /\ Len(s) = o + l + 1 /\ s[1] = Open /\ (q.negate => s[2] = Bang)
      /\ \A j \in 1..l : s[o + j] = f[j]
      /\ s[o + l + 1] = Close
  BY <1>3, ClassText
<1>6. b + o + l <= n /\ \A j \in 1..(o + l + 1) : p[b - 1 + j] = s[j]
  BY <1>2, <1>3, <1>4, <1>5 DEF LiesAt
<1>7. p[b + o + l] = Close /\ (\A j \in 1..l : p[b + o - 1 + j] = f[j]) /\ (q.negate => p[b + 1] = Bang)
  <2>1. p[b - 1 + (o + l + 1)] = s[o + l + 1]
    BY <1>4, <1>6
  <2>2. ASSUME NEW j \in 1..l PROVE p[b + o - 1 + j] = f[j]
    <3>1. p[b - 1 + (o + j)] = s[o + j] /\ s[o + j] = f[j]
      BY <1>4, <1>5, <1>6, SMTT(30)
    <3>2. b - 1 + (o + j) = b + o - 1 + j
      BY <1>4
    <3> QED BY <3>1, <3>2
  <2>3. ASSUME q.negate PROVE p[b + 1] = Bang
    <3>1. p[b - 1 + 2] = s[2]
      BY <1>3, <1>4, <1>6, <2>3
    <3> QED BY <1>5, <2>3, <3>1
  <2>4. b - 1 + (o + l + 1) = b + o + l
    BY <1>4
  <2> QED BY <1>5, <2>1, <2>2, <2>3, <2>4
<1>8. PICK mt, off : /\ mt = MemberTexts(q) /\ Placed(mt, M, f, off)
                     /\ \A v \in 1..M : mt[v] = MemberText(q.members[v])
  BY <1>1, <1>3, ListedIs
<1>9. /\ off \in [0..M -> Nat] /\ off[0] = 0 /\ off[M] = l
      /\ \A v \in 1..M : /\ off[v] = off[v - 1] + Len(mt[v]) /\ off[v] <= l
                         /\ \A j \in 1..Len(mt[v]) : f[off[v - 1] + j] = mt[v][j]
  BY <1>3, <1>8 DEF Placed
<1>10. ASSUME NEW v \in 1..M
       PROVE  LET r == q.members[v]
              IN  /\ f[off[v - 1] + 1] = r.lo
                  /\ r.lo = r.hi => off[v] = off[v - 1] + 1
                  /\ r.lo # r.hi => off[v] = off[v - 1] + 3 /\ f[off[v - 1] + 2] = Dash /\ f[off[v - 1] + 3] = r.hi
  <2>1. PICK r : r = q.members[v] /\ r.lo \in Byte /\ r.hi \in Byte
    BY <1>1, MembersTyped
  <2>2. PICK y : y = mt[v]
    OBVIOUS
  <2>3. /\ y[1] = r.lo
        /\ r.lo = r.hi => Len(y) = 1
        /\ r.lo # r.hi => Len(y) = 3 /\ y[2] = Dash /\ y[3] = r.hi
    BY <1>8, <2>1, <2>2, MemberTextIs
  <2>4. PICK x, z : x = off[v - 1] /\ z = off[v]
    OBVIOUS
  <2>5. z = x + Len(y) /\ \A j \in 1..Len(y) : f[x + j] = y[j]
    BY <1>9, <2>2, <2>4
  <2>6. CASE r.lo = r.hi
    <3>1. Len(y) = 1 /\ f[x + 1] = y[1]
      <4>1. Len(y) = 1
        BY <2>3, <2>6
      <4>2. 1 \in 1..1
        OBVIOUS
      <4> QED BY <2>5, <4>1, <4>2, Zenon
    <3> QED BY <2>1, <2>3, <2>4, <2>5, <2>6, <3>1
  <2>7. CASE r.lo # r.hi
    <3>1. Len(y) = 3 /\ f[x + 1] = y[1] /\ f[x + 2] = y[2] /\ f[x + 3] = y[3]
      <4>1. Len(y) = 3
        BY <2>3, <2>7
      <4>2. 1 \in 1..3 /\ 2 \in 1..3 /\ 3 \in 1..3
        OBVIOUS
      <4> QED BY <2>5, <4>1, <4>2, Zenon
    <3> QED BY <2>1, <2>3, <2>4, <2>5, <2>7, <3>1
  <2> QED BY <2>1, <2>6, <2>7
<1>11. PICK place : place = [v \in 1..(M + 1) |-> b + o + off[v - 1]]
  OBVIOUS
<1>12. \A v \in 1..(M + 1) : place[v] = b + o + off[v - 1] /\ off[v - 1] \in Nat /\ off[v - 1] <= l
  <2> TAKE v \in 1..(M + 1)
  <2>1. v - 1 \in 0..M
    BY <1>1
  <2>2. v - 1 = 0 \/ v - 1 \in 1..M
    BY <1>1
  <2> QED BY <1>4, <1>9, <1>11, <2>1, <2>2
<1>13. place[1] = b + o /\ place[M + 1] = b + o + l
  <2>1. 1 \in 1..(M + 1) /\ M + 1 \in 1..(M + 1) /\ 1 - 1 = 0 /\ (M + 1) - 1 = M
    BY <1>1
  <2> QED BY <1>4, <1>9, <1>12, <2>1
<1>14. ASSUME NEW v \in 1..M
       PROVE  LET r == q.members[v]
              IN  /\ p[place[v]] = r.lo /\ place[v] < place[M + 1]
                  /\ r.lo = r.hi => place[v + 1] = place[v] + 1
                  /\ r.lo # r.hi => place[v + 1] = place[v] + 3 /\ p[place[v] + 1] = Dash /\ p[place[v] + 2] = r.hi
  <2>1. v \in 1..(M + 1) /\ v + 1 \in 1..(M + 1) /\ (v + 1) - 1 = v
    BY <1>1
  <2>2. PICK x \in Nat, y \in Nat : x = off[v - 1] /\ y = off[v] /\ y <= l
    BY <1>9, <1>12, <2>1
  <2>3. place[v] = b + o + x /\ place[v + 1] = b + o + y
    BY <1>12, <2>1, <2>2
  <2>4. PICK r : r = q.members[v]
    OBVIOUS
  <2>5. /\ f[x + 1] = r.lo
        /\ r.lo = r.hi => y = x + 1
        /\ r.lo # r.hi => y = x + 3 /\ f[x + 2] = Dash /\ f[x + 3] = r.hi
    BY <1>10, <2>2, <2>4
  <2>6. x + 1 <= l /\ p[b + o - 1 + (x + 1)] = f[x + 1] /\ b + o - 1 + (x + 1) = b + o + x
    BY <1>4, <1>7, <2>2, <2>5
  <2>7. CASE r.lo = r.hi
    BY <1>4, <1>13, <2>2, <2>3, <2>4, <2>5, <2>6, <2>7
  <2>8. CASE r.lo # r.hi
    <3>1. /\ p[b + o - 1 + (x + 2)] = f[x + 2] /\ b + o - 1 + (x + 2) = b + o + x + 1
          /\ p[b + o - 1 + (x + 3)] = f[x + 3] /\ b + o - 1 + (x + 3) = b + o + x + 2
      BY <1>4, <1>7, <2>2, <2>5, <2>8
    <3> QED BY <1>4, <1>13, <2>2, <2>3, <2>4, <2>5, <2>6, <2>8, <3>1
  <2> QED BY <2>7, <2>8
<1>15. Negated(p, b) = q.negate /\ Start(p, b) = b + o
  <2>1. CASE q.negate
    <3>1. b < n /\ p[b + 1] = Bang
      BY <1>3, <1>4, <1>6, <1>7, <2>1
    <3> QED BY <1>2, <1>3, <2>1, <3>1 DEF Negated, Start
  <2>2. CASE ~q.negate
    <3>1. 1 \in 1..M /\ p[place[1]] = q.members[1].lo /\ place[1] = b + 1
      BY <1>1, <1>3, <1>4, <1>13, <1>14, <2>2
    <3>2. q.members[1].lo # Bang
      BY <2>2 DEF Legible, Meta, Bang
    <3> QED BY <1>2, <1>3, <1>4, <2>2, <3>1, <3>2 DEF Negated, Start
  <2> QED BY <1>4, <2>1, <2>2
<1>16. MembersAt(p, b + o, q, place)
  <2>1. \A v \in 1..(M + 1) : place[v] \in Nat /\ place[v] <= b + o + l
    BY <1>4, <1>12
  <2>2. b + o + l <= n /\ p[b + o + l] = Close
    BY <1>6, <1>7
  <2> QED BY <1>1, <1>2, <1>13, <1>14, <2>1, <2>2 DEF MembersAt
<1>17. place[M + 1] = b + Len(s) - 1
  BY <1>4, <1>5, <1>13
<1> QED BY <1>1, <1>3, <1>15, <1>16, <1>17

\* One of the members from v on has the byte.
HitFrom(q, v, ch) == \E w \in v..Len(q.members) : ch \in q.members[w].lo..q.members[w].hi

\* g is a scan from place s on.
Scanned(p, s, ch, g) == \A i \in s..(Len(p) + 3) : g[i] = ScanStep(p, s, ch, g, i)

\* From the place of a member the scan sees the rest of the members.
LEMMA ScanReads ==
    ASSUME NEW q \in PieceType, q.piece = "class", Legible(q),
           NEW p \in Text, NEW s \in Nat, NEW ch \in Byte, NEW place, MembersAt(p, s, q, place),
           NEW g, NEW M \in Nat, M = Len(q.members), M >= 1,
           Scanned(p, s, ch, g)
    PROVE  g[s] = [hit |-> HitFrom(q, 1, ch), next |-> place[M + 1] + 1]
<1>1. PICK n \in Nat : n = Len(p)
  BY DEF Text
<1>2. /\ place[1] = s /\ place[M + 1] <= n /\ p[place[M + 1]] = Close
      /\ \A v \in 1..(M + 1) : place[v] \in Nat /\ place[v] <= place[M + 1]
      /\ \A v \in 1..M :
           LET r == q.members[v]
           IN  /\ p[place[v]] = r.lo /\ place[v] < place[M + 1]
               /\ r.lo = r.hi => place[v + 1] = place[v] + 1
               /\ r.lo # r.hi => place[v + 1] = place[v] + 3 /\ p[place[v] + 1] = Dash /\ p[place[v] + 2] = r.hi
  BY <1>1, Zenon DEF MembersAt
<1>3. PICK e \in Nat : e = place[M + 1] /\ e <= n
  BY <1>2, SMTT(30)
<1>4. /\ \A v \in 1..M : q.members[v].lo # q.members[v].hi => q.members[v].hi # Close
      /\ \A v \in 1..M : v > 1 => q.members[v].lo # Close
      /\ \A v \in 1..M : q.members[v].lo = q.members[v].hi /\ v < M /\ q.members[v + 1].lo = Dash =>
                           v + 1 = M /\ q.members[v + 1].hi = Dash
  <2>1. DOMAIN q.members = 1..M
    BY MembersTyped
  <2>2. Meta.to = Dash /\ Meta.close = Close
    BY DEF Meta, Dash, Close
  <2> QED BY <2>1, <2>2 DEF Legible
<1> DEFINE Seen(v) == g[place[v]] = [hit |-> HitFrom(q, v, ch), next |-> e + 1]
           T == {v \in 1..(M + 1) : Seen(v)}
<1>5. ASSUME NEW v \in 1..(M + 1) PROVE place[v] \in s..n /\ (v > 1 => place[v] # s)
  <2> DEFINE U == {w \in Nat : w \in 1..(M + 1) => place[w] >= s /\ (w > 1 => place[w] > s)}
  <2>1. 0 \in U
    OBVIOUS
  <2>2. ASSUME NEW w \in Nat, w \in U PROVE w + 1 \in U
    <3> SUFFICES ASSUME w + 1 \in 1..(M + 1) PROVE place[w + 1] >= s /\ (w + 1 > 1 => place[w + 1] > s)
      OBVIOUS
    <3>1. CASE w = 0
      BY <1>2, <3>1
    <3>2. CASE w # 0
      <4>1. w \in 1..M /\ place[w] \in Nat /\ place[w] >= s
        BY <1>2, <2>2, <3>2
      <4>2. place[w + 1] = place[w] + 1 \/ place[w + 1] = place[w] + 3
        BY <1>2, <4>1
      <4> QED BY <4>1, <4>2
    <3> QED BY <3>1, <3>2
  <2>3. v \in U
    <3> HIDE DEF U
    <3>1. \A w \in Nat : w \in U
      BY <2>1, <2>2, SetInduction
    <3> QED BY <3>1
  <2> QED BY <1>2, <1>3, <2>3
<1>6. ASSUME NEW v \in 1..(M + 1), \A w \in (v + 1)..(M + 1) : w \in T PROVE Seen(v)
  <2>1. PICK i \in Nat : i = place[v] /\ i \in s..n /\ (v > 1 => i # s) /\ (v = 1 => i = s)
    BY <1>2, <1>5
  <2>2. g[i] = ScanStep(p, s, ch, g, i) /\ ~(i > Len(p)) /\ i <= n
    BY <1>1, <2>1 DEF Scanned
  <2>3. CASE v = M + 1
    <3>1. p[i] = Close /\ i # s /\ i = e
      BY <1>2, <1>3, <2>1, <2>3
    <3>2. g[i] = [hit |-> FALSE, next |-> i + 1]
      BY <2>2, <3>1, Zenon DEF ScanStep
    <3>3. ~HitFrom(q, v, ch)
      BY <2>3 DEF HitFrom
    <3>4. HitFrom(q, v, ch) = FALSE
      BY <3>3 DEF HitFrom
    <3> QED BY <2>1, <3>1, <3>2, <3>4
  <2>4. CASE v # M + 1
    <3>1. v \in 1..M /\ v + 1 \in 1..(M + 1)
      BY <2>4
    <3>2. Seen(v + 1)
      <4>1. v + 1 \in (v + 1)..(M + 1)
        BY <3>1
      <4> HIDE DEF Seen
      <4> QED BY <1>6, <4>1
    <3>3. PICK r : r = q.members[v] /\ r.lo \in Byte /\ r.hi \in Byte
      BY <3>1, MembersTyped
    <3>4. /\ p[i] = r.lo /\ i < e
          /\ r.lo = r.hi => place[v + 1] = i + 1
          /\ r.lo # r.hi => place[v + 1] = i + 3 /\ p[i + 1] = Dash /\ p[i + 2] = r.hi
      BY <1>2, <1>3, <2>1, <3>1, <3>3
    <3>5. ~(p[i] = Close /\ i # s)
      BY <1>4, <2>1, <3>1, <3>3, <3>4
    <3>6. HitFrom(q, v, ch) = (HitFrom(q, v + 1, ch) \/ ch \in r.lo..r.hi)
      <4>1. \A w \in v..M : w = v \/ w \in (v + 1)..M
        BY <3>1
      <4>2. v \in v..M /\ \A w \in (v + 1)..M : w \in v..M
        BY <3>1
      <4> QED BY <3>3, <4>1, <4>2, Zenon DEF HitFrom
    <3>7. CASE r.lo # r.hi
      <4>1. i + 2 <= Len(p) /\ p[i + 1] = Dash /\ p[i + 2] # Close
        <5>1. place[v + 1] <= e /\ place[v + 1] = i + 3
          BY <1>2, <1>3, <3>1, <3>4, <3>7
        <5>2. r.hi # Close
          BY <1>4, <3>1, <3>3, <3>7
        <5>3. i + 2 <= Len(p)
          <6>1. i + 3 <= e
            BY <5>1
          <6>2. i + 3 <= n
            BY <1>3, <2>1, <6>1
          <6> QED BY <1>1, <2>1, <6>2
        <5> QED BY <3>4, <3>7, <5>2, <5>3
      <4>2. g[i] = [g[i + 3] EXCEPT !.hit = @ \/ ch \in p[i]..p[i + 2]]
        BY <2>2, <3>5, <4>1, Zenon DEF ScanStep
      <4>3. g[i + 3] = [hit |-> HitFrom(q, v + 1, ch), next |-> e + 1]
        BY <3>2, <3>4, <3>7
      <4>4. g[i] = [hit |-> HitFrom(q, v + 1, ch) \/ ch \in r.lo..r.hi, next |-> e + 1]
        BY <3>4, <3>7, <4>2, <4>3, SMTT(30)
      <4> QED BY <2>1, <3>6, <4>4
    <3>8. CASE r.lo = r.hi
      <4>1. ~(i + 2 <= Len(p) /\ p[i + 1] = Dash /\ p[i + 2] # Close)
        <5>1. place[v + 1] = i + 1
          BY <3>4, <3>8
        <5>2. CASE v = M
          <6>1. p[i + 1] = Close
            BY <1>2, <5>1, <5>2
          <6> QED BY <6>1 DEF Close, Dash
        <5>3. CASE v # M
          <6>1. v + 1 \in 1..M /\ v < M
            BY <3>1, <5>3
          <6>2. p[i + 1] = q.members[v + 1].lo
            BY <1>2, <5>1, <6>1
          <6>3. CASE q.members[v + 1].lo = Dash
            <7>1. v + 1 = M /\ q.members[v + 1].hi = Dash
              BY <1>4, <3>1, <3>3, <3>8, <6>1, <6>3
            <7>2. place[(v + 1) + 1] = (i + 1) + 1
              BY <1>2, <5>1, <6>1, <6>3, <7>1
            <7>3. p[i + 2] = Close
              <8>1. (v + 1) + 1 = M + 1 /\ (i + 1) + 1 = i + 2
                BY <2>1, <7>1
              <8> QED BY <1>2, <7>2, <8>1
            <7> QED BY <7>3
          <6>4. CASE q.members[v + 1].lo # Dash
            BY <6>2, <6>4
          <6> QED BY <6>3, <6>4
        <5> QED BY <5>2, <5>3
      <4>2. g[i] = [g[i + 1] EXCEPT !.hit = @ \/ ch = p[i]]
        BY <2>2, <3>5, <4>1, Zenon DEF ScanStep
      <4>3. g[i + 1] = [hit |-> HitFrom(q, v + 1, ch), next |-> e + 1]
        BY <3>2, <3>4, <3>8
      <4>4. (ch \in r.lo..r.hi) = (ch = p[i])
        BY <3>3, <3>4, <3>8 DEF Byte
      <4>5. g[i] = [hit |-> HitFrom(q, v + 1, ch) \/ ch = p[i], next |-> e + 1]
        BY <4>2, <4>3
      <4> QED BY <2>1, <3>6, <4>4, <4>5
    <3> QED BY <3>7, <3>8
  <2> QED BY <2>3, <2>4
<1>7. 1 \in T
  <2> HIDE DEF Seen
  <2>1. PICK N \in Nat : N = M + 1 /\ N >= 1
    OBVIOUS
  <2>2. \A v \in 1..N : (\A w \in (v + 1)..N : w \in T) => v \in T
    BY <1>6, <2>1
  <2> HIDE DEF T
  <2>3. \A v \in 1..N : v \in T
    BY <2>2, DownInduction
  <2> QED BY <2>1, <2>3
<1> QED BY <1>2, <1>3, <1>7

\* The matcher reads a class as it is meant.
LEMMA ClassReads ==
    ASSUME NEW q \in PieceType, q.piece = "class", Legible(q),
           NEW p \in Text, NEW b \in Nat, 1 <= b, LiesAt(p, b, TextOf(q)), NEW ch \in Byte
    PROVE  /\ match_char_class(p, b, ch).next = b + Len(TextOf(q))
           /\ match_char_class(p, b, ch).hit <=> ch \in SetOf(q)
<1>1. PICK M \in Nat : M = Len(q.members) /\ M >= 1
  <2>1. q.members # <<>> /\ q.members \in Seq(Ranges)
    BY DEF Legible, PieceType
  <2> QED BY <2>1
<1>2. PICK n \in Nat : n = Len(p)
  BY DEF Text
<1>3. PICK l \in Nat : l = Len(TextOf(q)) /\ l >= 2 /\ b + l <= n + 1
  <2>1. Len(TextOf(q)) \in Nat /\ Len(TextOf(q)) >= 2
    BY ClassText, MembersTyped
  <2> QED BY <1>2, <2>1 DEF LiesAt
<1>4. b \in 1..n
  BY <1>3
<1>5. PICK s, place : /\ s = Start(p, b) /\ s = b + (IF q.negate THEN 2 ELSE 1) /\ Negated(p, b) = q.negate
                      /\ MembersAt(p, s, q, place) /\ place[M + 1] = b + l - 1
  BY <1>1, <1>3, ClassLies
<1>6. PICK g : /\ match_char_class(p, b, ch) = [g[s] EXCEPT !.hit = (@ # q.negate)]
               /\ \A i \in s..(n + 3) : g[i] = ScanStep(p, s, ch, g, i)
  <2>1. PICK g : /\ match_char_class(p, b, ch) = [g[Start(p, b)] EXCEPT !.hit = (@ # Negated(p, b))]
                 /\ \A i \in Start(p, b)..(n + 3) : g[i] = ScanStep(p, Start(p, b), ch, g, i)
    BY <1>2, <1>4, ClassIs
  <2> QED BY <1>5, <2>1, Zenon
<1>7. s \in Nat
  BY <1>5, MembersTyped
<1>8. g[s] = [hit |-> HitFrom(q, 1, ch), next |-> place[M + 1] + 1]
  <2>1. Scanned(p, s, ch, g)
    BY <1>2, <1>6, Zenon DEF Scanned
  <2>2. MembersAt(p, s, q, place)
    BY <1>5
  <2> QED BY <1>1, <1>7, <2>1, <2>2, ScanReads
<1>9. /\ match_char_class(p, b, ch).hit = (HitFrom(q, 1, ch) # q.negate)
      /\ match_char_class(p, b, ch).next = place[M + 1] + 1
  BY <1>6, <1>8
<1>10. place[M + 1] + 1 = b + l
  BY <1>3, <1>5
<1>11. HitFrom(q, 1, ch) <=> ch \in UNION {q.members[i].lo..q.members[i].hi : i \in DOMAIN q.members}
  <2>1. DOMAIN q.members = 1..Len(q.members)
    BY MembersTyped
  <2> QED BY <2>1, Zenon DEF HitFrom
<1>12. CASE q.negate
  <2>1. ch \in SetOf(q) <=> ~HitFrom(q, 1, ch)
    BY <1>11, <1>12 DEF SetOf
  <2>2. HitFrom(q, 1, ch) \in BOOLEAN /\ q.negate = TRUE
    BY <1>12, MembersTyped DEF HitFrom
  <2>3. (HitFrom(q, 1, ch) # q.negate) <=> ~HitFrom(q, 1, ch)
    BY <2>2
  <2> QED BY <1>3, <1>9, <1>10, <2>1, <2>3
<1>13. CASE ~q.negate
  <2>1. ch \in SetOf(q) <=> HitFrom(q, 1, ch)
    BY <1>11, <1>13 DEF SetOf
  <2>2. HitFrom(q, 1, ch) \in BOOLEAN /\ q.negate = FALSE
    BY <1>13, MembersTyped DEF HitFrom
  <2>3. (HitFrom(q, 1, ch) # q.negate) <=> HitFrom(q, 1, ch)
    BY <2>2
  <2> QED BY <1>3, <1>9, <1>10, <2>1, <2>3
<1> QED BY <1>12, <1>13

-----------------------------------------------------------------------------
(* A glob in its text.                                                     *)

\* What matches the pieces behind the first k is the rest of a text from place a on.
CutFrom(glob, t, k, a) ==
    \E cut \in [k..Len(glob) -> 0..Len(t)] :
        /\ cut[k] = a /\ cut[Len(glob)] = Len(t)
        /\ \A i \in (k + 1)..Len(glob) : Covers(glob[i], t, cut[i - 1], cut[i])

\* Behind the last piece only the end of the text is left.
LEMMA TailEnd ==
    ASSUME NEW glob, NEW t, NEW N \in Nat, N = Len(glob), NEW T \in Nat, T = Len(t), NEW a \in 0..T
    PROVE  CutFrom(glob, t, N, a) <=> a = T
<1>1. ASSUME a = T PROVE CutFrom(glob, t, N, a)
  <2>1. PICK cut : cut = [i \in N..N |-> a]
    OBVIOUS
  <2>2. cut \in [N..N -> 0..T] /\ cut[N] = a /\ (N + 1)..N = {}
    BY <2>1
  <2> QED BY <1>1, <2>2 DEF CutFrom
<1>2. ASSUME CutFrom(glob, t, N, a) PROVE a = T
  BY <1>2 DEF CutFrom
<1> QED BY <1>1, <1>2

\* The next piece takes what it covers, and the others the rest.
LEMMA TailStep ==
    ASSUME NEW glob, NEW t, NEW N \in Nat, N = Len(glob), NEW T \in Nat, T = Len(t), NEW a \in 0..T,
           NEW k \in 0..(N - 1)
    PROVE  CutFrom(glob, t, k, a) <=> \E x \in 0..T : Covers(glob[k + 1], t, a, x) /\ CutFrom(glob, t, k + 1, x)
<1>1. ASSUME CutFrom(glob, t, k, a)
      PROVE  \E x \in 0..T : Covers(glob[k + 1], t, a, x) /\ CutFrom(glob, t, k + 1, x)
  <2>1. PICK cut \in [k..N -> 0..T] :
          /\ cut[k] = a /\ cut[N] = T
          /\ \A i \in (k + 1)..N : Covers(glob[i], t, cut[i - 1], cut[i])
    BY <1>1, Zenon DEF CutFrom
  <2>2. k + 1 \in k..N /\ k + 1 \in (k + 1)..N /\ (k + 1) - 1 = k
    OBVIOUS
  <2>3. PICK d : d = [i \in (k + 1)..N |-> cut[i]]
    OBVIOUS
  <2>4. d \in [(k + 1)..N -> 0..T] /\ d[k + 1] = cut[k + 1] /\ d[N] = T
    BY <2>1, <2>2, <2>3
  <2>5. ASSUME NEW i \in ((k + 1) + 1)..N PROVE Covers(glob[i], t, d[i - 1], d[i])
    <3>1. i \in (k + 1)..N /\ i - 1 \in (k + 1)..N
      OBVIOUS
    <3>2. d[i] = cut[i] /\ d[i - 1] = cut[i - 1]
      BY <2>3, <3>1
    <3> QED BY <2>1, <3>1, <3>2
  <2>6. CutFrom(glob, t, k + 1, cut[k + 1])
    BY <2>4, <2>5, Zenon DEF CutFrom
  <2>7. Covers(glob[k + 1], t, a, cut[k + 1]) /\ cut[k + 1] \in 0..T
    BY <2>1, <2>2
  <2> QED BY <2>6, <2>7
<1>2. ASSUME NEW x \in 0..T, Covers(glob[k + 1], t, a, x), CutFrom(glob, t, k + 1, x)
      PROVE  CutFrom(glob, t, k, a)
  <2>1. PICK d \in [(k + 1)..N -> 0..T] :
          /\ d[k + 1] = x /\ d[N] = T
          /\ \A i \in ((k + 1) + 1)..N : Covers(glob[i], t, d[i - 1], d[i])
    BY <1>2, Zenon DEF CutFrom
  <2>2. PICK cut : cut = [i \in k..N |-> IF i = k THEN a ELSE d[i]]
    OBVIOUS
  <2>3. cut \in [k..N -> 0..T] /\ cut[k] = a /\ cut[N] = T
    BY <2>1, <2>2
  <2>4. ASSUME NEW i \in (k + 1)..N PROVE Covers(glob[i], t, cut[i - 1], cut[i])
    <3>1. CASE i = k + 1
      <4>1. cut[i - 1] = a /\ cut[i] = x
        BY <2>1, <2>2, <3>1
      <4> QED BY <1>2, <3>1, <4>1
    <3>2. CASE i # k + 1
      <4>1. cut[i - 1] = d[i - 1] /\ cut[i] = d[i] /\ i \in ((k + 1) + 1)..N
        BY <2>1, <2>2, <3>2
      <4> QED BY <2>1, <4>1
    <3> QED BY <3>1, <3>2
  <2> QED BY <2>3, <2>4, Zenon DEF CutFrom
<1> QED BY <1>1, <1>2, Zenon

\* Bytes of a piece of a text.
LEMMA HasChunk ==
    ASSUME NEW t \in Text, NEW a \in Nat, NEW b \in Nat, a <= b, b <= Len(t), NEW c
    PROVE  Has(SubSeq(t, a + 1, b), c) <=> \E y \in (a + 1)..b : t[y] = c
<1>1. PICK s : s = SubSeq(t, a + 1, b)
  OBVIOUS
<1>2. Len(s) = b - a /\ DOMAIN s = 1..(b - a) /\ \A i \in 1..(b - a) : s[i] = t[a + i]
  <2>1. CASE a = b
    <3>1. s = <<>>
      BY <1>1, <2>1, ChunkIs DEF Text
    <3> QED BY <2>1, <3>1
  <2>2. CASE a < b
    <3>1. /\ s \in Seq(Byte) /\ Len(s) = b - a
          /\ \A i \in 1..(b - a) : s[i] = t[(a + 1) + i - 1]
      <4>1. a + 1 \in Nat /\ 1 <= a + 1 /\ a + 1 <= b /\ b - (a + 1) + 1 = b - a
        BY <2>2
      <4> QED BY <1>1, <4>1, ChunkIs DEF Text
    <3>2. \A i \in 1..(b - a) : (a + 1) + i - 1 = a + i
      OBVIOUS
    <3> QED BY <3>1, <3>2
  <2> QED BY <2>1, <2>2
<1>3. ASSUME NEW y \in (a + 1)..b, t[y] = c PROVE \E i \in 1..(b - a) : s[i] = c
  <2>1. y - a \in 1..(b - a) /\ a + (y - a) = y
    OBVIOUS
  <2> QED BY <1>2, <1>3, <2>1
<1>4. ASSUME NEW i \in 1..(b - a), s[i] = c PROVE \E y \in (a + 1)..b : t[y] = c
  <2>1. a + i \in (a + 1)..b
    OBVIOUS
  <2> QED BY <1>2, <1>4, <2>1
<1> QED BY <1>1, <1>2, <1>3, <1>4, Zenon DEF Has

\* Every piece is written with a first byte, which is a star for stars only.
LEMMA PieceText ==
    ASSUME NEW q \in PieceType, Legible(q)
    PROVE  LET s == TextOf(q)
           IN  /\ s \in Text /\ Len(s) \in Nat /\ Len(s) >= 1
               /\ q.piece = "byte" => /\ Len(s) = 1 /\ s[1] = q.members[1].lo
                                      /\ s[1] \notin {Star, Question, Open} /\ SetOf(q) = {s[1]}
               /\ q.piece = "any" => Len(s) = 1 /\ s[1] = Question /\ SetOf(q) = Byte \ {Slash}
               /\ q.piece = "star" => Len(s) = 1 /\ s[1] = Star
               /\ q.piece = "stars" => Len(s) = 2 /\ s[1] = Star /\ s[2] = Star
               /\ q.piece = "class" => Len(s) >= 3 /\ s[1] = Open /\ s[Len(s)] = Close
               /\ s[1] = Star <=> Starred(q)
<1>1. /\ Meta.star = Star /\ Meta.any = Question /\ Meta.open = Open /\ Meta.slash = Slash
      /\ Star # Question /\ Star # Open /\ Question # Open
  BY DEF Meta, Star, Question, Open, Slash
<1>2. TextOf(q) \in Text
  BY TextOfTyped
<1>3. CASE q.piece = "byte"
  <2>1. /\ Len(q.members) = 1 /\ q.members[1].lo = q.members[1].hi /\ ~q.negate
        /\ q.members[1].lo \notin {Star, Question, Open}
    BY <1>1, <1>3 DEF Legible
  <2>2. PICK c : c = q.members[1].lo /\ c \in Byte
    BY <2>1, MembersTyped
  <2>3. TextOf(q) = <<c>>
    BY <1>3, <2>2 DEF TextOf
  <2>4. SetOf(q) = {c}
    <3>1. DOMAIN q.members = {1}
      BY <2>1, MembersTyped
    <3>2. c..c = {c}
      BY <2>2 DEF Byte
    <3>3. UNION {q.members[i].lo..q.members[i].hi : i \in DOMAIN q.members} = {c}
      BY <2>1, <2>2, <3>1, <3>2
    <3> QED BY <1>3, <2>1, <3>3 DEF SetOf
  <2> QED BY <1>2, <1>3, <2>1, <2>2, <2>3, <2>4 DEF Starred
<1>4. CASE q.piece = "any"
  <2>1. TextOf(q) = <<Question>> /\ SetOf(q) = Byte \ {Slash}
    BY <1>1, <1>4 DEF TextOf, SetOf
  <2> QED BY <1>1, <1>2, <1>4, <2>1 DEF Starred
<1>5. CASE q.piece = "star"
  <2>1. TextOf(q) = <<Star>>
    BY <1>1, <1>5 DEF TextOf
  <2> QED BY <1>2, <1>5, <2>1 DEF Starred
<1>6. CASE q.piece = "stars"
  <2>1. TextOf(q) = <<Star, Star>>
    BY <1>1, <1>6 DEF TextOf
  <2> QED BY <1>2, <1>6, <2>1 DEF Starred
<1>7. CASE q.piece = "class"
  <2>1. PICK o, l : o = (IF q.negate THEN 2 ELSE 1) /\ l = Len(Listed(q))
    OBVIOUS
  <2>2. /\ o \in 1..2 /\ l \in Nat /\ Len(TextOf(q)) = o + l + 1 /\ TextOf(q)[1] = Open
        /\ TextOf(q)[o + l + 1] = Close
    BY <1>7, <2>1, ClassText
  <2>3. l >= 1
    <3>1. PICK M \in Nat : M = Len(q.members) /\ M >= 1
      <4>1. q.members # <<>> /\ q.members \in Seq(Ranges)
        BY <1>7 DEF Legible, PieceType
      <4> QED BY <4>1
    <3>2. PICK off : Placed(MemberTexts(q), M, Listed(q), off)
      BY <3>1, ListedIs
    <3>3. /\ off \in [0..M -> Nat] /\ off[0] = 0 /\ off[M] = l
          /\ off[1] = off[1 - 1] + Len(MemberTexts(q)[1]) /\ off[1] <= off[M]
      BY <2>1, <3>1, <3>2 DEF Placed
    <3>4. Len(MemberTexts(q)[1]) \in {1, 3}
      <4>1. 1 \in 1..M /\ MemberTexts(q)[1] = MemberText(q.members[1])
            /\ q.members[1].lo \in Byte /\ q.members[1].hi \in Byte
        BY <3>1, ListedIs, MembersTyped
      <4> QED BY <4>1, MemberTextIs
    <3> QED BY <2>2, <3>3, <3>4
  <2> QED BY <1>1, <1>2, <1>7, <2>2, <2>3 DEF Starred
<1> QED BY <1>3, <1>4, <1>5, <1>6, <1>7, MembersTyped

\* Where the pieces of a glob lie in its text.
LaidOut(glob, N, p, off) ==
    /\ off \in [0..N -> Nat] /\ off[0] = 0 /\ off[N] = Len(p)
    /\ \A k \in 1..N : /\ off[k] = off[k - 1] + Len(TextOf(glob[k])) /\ off[k] <= off[N]
                       /\ LiesAt(p, off[k - 1] + 1, TextOf(glob[k]))

\* Every glob is laid out in its text.
LEMMA GlobPlaced ==
    ASSUME NEW glob \in Seq(PieceType), \A i \in DOMAIN glob : Legible(glob[i]),
           NEW N \in Nat, N = Len(glob)
    PROVE  Rendered(glob) \in Text /\ \E off : LaidOut(glob, N, Rendered(glob), off)
<1>1. PICK h : h = [i \in DOMAIN glob |-> TextOf(glob[i])]
  OBVIOUS
<1>2. DOMAIN glob = 1..N /\ \A i \in 1..N : glob[i] \in PieceType /\ Legible(glob[i])
  OBVIOUS
<1>3. \A i \in 1..N : TextOf(glob[i]) \in Seq(Byte)
  BY <1>2, TextOfTyped DEF Text
<1>4. h \in Seq(Seq(Byte)) /\ Len(h) = N /\ \A i \in 1..N : h[i] = TextOf(glob[i])
  BY <1>1, <1>2, <1>3
<1>5. PICK p : p = Rendered(glob)
  OBVIOUS
<1>6. p = FlattenSeq(h)
  BY <1>1, <1>5, Zenon DEF Rendered
<1>7. p \in Text
  BY <1>4, <1>6, FlatAt DEF Text
<1>8. PICK off : Placed(h, N, p, off)
  BY <1>4, <1>6, FlatAt
<1>9. /\ off \in [0..N -> Nat] /\ off[0] = 0 /\ off[N] = Len(p)
      /\ \A k \in 1..N :
           /\ off[k] = off[k - 1] + Len(h[k]) /\ off[k] <= off[N]
           /\ \A j \in 1..Len(h[k]) : p[off[k - 1] + j] = h[k][j]
  BY <1>8, Zenon DEF Placed
<1>10. ASSUME NEW k \in 1..N PROVE LiesAt(p, off[k - 1] + 1, TextOf(glob[k]))
  <2>1. PICK a, s, e : a = off[k - 1] /\ s = TextOf(glob[k]) /\ e = off[k]
    OBVIOUS
  <2>2. a \in Nat /\ e \in Nat /\ h[k] = s
    <3>1. k - 1 \in 0..N /\ k \in 0..N
      BY PredIn
    <3>2. off[k - 1] \in Nat /\ off[k] \in Nat
      BY <1>9, <3>1
    <3> QED BY <1>4, <2>1, <3>2
  <2>3. e = a + Len(s) /\ e <= Len(p) /\ \A j \in 1..Len(s) : p[a + j] = s[j]
    BY <1>9, <2>1, <2>2
  <2>4. Len(s) \in Nat
    BY <1>3, <2>1
  <2>5. \A j \in 1..Len(s) : (a + 1) - 1 + j = a + j
    BY <2>2, <2>4
  <2>6. (a + 1) + Len(s) <= Len(p) + 1
    BY <1>7, <2>2, <2>3, <2>4 DEF Text
  <2> QED BY <2>1, <2>3, <2>5, <2>6 DEF LiesAt
<1> QED BY <1>4, <1>5, <1>7, <1>9, <1>10 DEF LaidOut

\* A glob that can be read: its stars stand apart.
Separate(glob) ==
    \A i \in DOMAIN glob :
        Legible(glob[i]) /\ (i < Len(glob) => ~(Starred(glob[i]) /\ Starred(glob[i + 1])))

\* The text s lies between the first a and the first b bytes of p.
Between(p, s, a, b) ==
    /\ a \in Nat /\ b \in Nat /\ Len(p) \in Nat /\ Len(s) \in Nat /\ Len(s) >= 1
    /\ b = a + Len(s) /\ b <= Len(p)
    /\ \A j \in 1..Len(s) : p[a + j] = s[j]

\* What is known of one piece in its text.
LEMMA PieceLies ==
    ASSUME NEW glob \in Seq(PieceType), Separate(glob), NEW N \in Nat, N = Len(glob),
           NEW p \in Text, NEW off, LaidOut(glob, N, p, off), NEW k \in 1..N
    PROVE  /\ Between(p, TextOf(glob[k]), off[k - 1], off[k])
           /\ glob[k] \in PieceType /\ Legible(glob[k])
           /\ LiesAt(p, off[k - 1] + 1, TextOf(glob[k]))
<1>1. glob[k] \in PieceType /\ Legible(glob[k])
  BY DEF Separate
<1>2. PICK s : s = TextOf(glob[k])
  OBVIOUS
<1>3. Len(s) \in Nat /\ Len(s) >= 1
  BY <1>1, <1>2, PieceText
<1>4. /\ off \in [0..N -> Nat] /\ off[N] = Len(p)
      /\ off[k] = off[k - 1] + Len(s) /\ off[k] <= off[N]
      /\ LiesAt(p, off[k - 1] + 1, s)
  BY <1>2 DEF LaidOut
<1>5. PICK a, b : a = off[k - 1] /\ b = off[k]
  OBVIOUS
<1>6. a \in Nat /\ b \in Nat /\ Len(p) \in Nat
  <2>1. k - 1 \in 0..N /\ k \in 0..N
    BY PredIn
  <2>2. off[k - 1] \in Nat /\ off[k] \in Nat
    BY <1>4, <2>1
  <2>3. Len(p) \in Nat
    BY DEF Text
  <2> QED BY <1>5, <2>2, <2>3
<1>7. \A j \in 1..Len(s) : p[(a + 1) - 1 + j] = s[j]
  BY <1>4, <1>5 DEF LiesAt
<1>8. \A j \in 1..Len(s) : p[a + j] = s[j]
  <2>1. \A j \in 1..Len(s) : (a + 1) - 1 + j = a + j
    BY <1>3, <1>6
  <2> QED BY <1>7, <2>1
<1>9. Between(p, s, a, b)
  BY <1>3, <1>4, <1>5, <1>6, <1>8 DEF Between
<1> QED BY <1>1, <1>2, <1>4, <1>5, <1>9

\* The stars of a piece are a run of their own.
LEMMA StarRun ==
    ASSUME NEW glob \in Seq(PieceType), Separate(glob), NEW N \in Nat, N = Len(glob),
           NEW p \in Text, NEW off, LaidOut(glob, N, p, off), NEW k \in 1..N, Starred(glob[k])
    PROVE  /\ RunEnd(p, off[k - 1] + 1) = off[k] + 1 /\ p[off[k - 1] + 1] = Star
           /\ off[k] - off[k - 1] >= 2 <=> glob[k].piece = "stars"
<1>1. PICK a, b, n, s : a = off[k - 1] /\ b = off[k] /\ n = Len(p) /\ s = TextOf(glob[k])
  OBVIOUS
<1>2. /\ a \in Nat /\ b \in Nat /\ n \in Nat /\ Len(s) \in Nat /\ Len(s) >= 1 /\ b = a + Len(s) /\ b <= n
      /\ \A j \in 1..Len(s) : p[a + j] = s[j]
  <2>1. Between(p, s, a, b)
    BY <1>1, PieceLies
  <2> QED BY <1>1, <2>1 DEF Between
<1>3. /\ glob[k].piece = "star" => Len(s) = 1 /\ s[1] = Star
      /\ glob[k].piece = "stars" => Len(s) = 2 /\ s[1] = Star /\ s[2] = Star
  BY <1>1, PieceText, PieceLies
<1>10. a \in Nat /\ b \in Nat /\ n \in Nat /\ b <= n /\ a < b
  BY <1>2
<1>4. /\ p[a + 1] = Star /\ p[b] = Star /\ (b = a + 1 \/ b = a + 2)
      /\ b = a + 2 <=> glob[k].piece = "stars"
  <2>1. CASE glob[k].piece = "star"
    <3>1. Len(s) = 1 /\ s[1] = Star
      BY <1>3, <2>1
    <3>2. b = a + 1
      BY <1>2, <3>1
    <3>3. p[a + 1] = s[1]
      BY <1>2, <3>1
    <3> QED BY <1>10, <2>1, <3>1, <3>2, <3>3
  <2>2. CASE glob[k].piece = "stars"
    <3>1. Len(s) = 2 /\ s[1] = Star /\ s[2] = Star
      BY <1>3, <2>2
    <3>2. b = a + 2
      BY <1>2, <3>1
    <3>3. p[a + 1] = s[1] /\ p[a + 2] = s[2]
      BY <1>2, <3>1
    <3> QED BY <1>10, <2>2, <3>1, <3>2, <3>3
  <2> QED BY <2>1, <2>2 DEF Starred
<1>5. b - a >= 2 <=> glob[k].piece = "stars"
  BY <1>10, <1>4
<1>6. PICK e : e = RunEnd(p, a + 1)
  OBVIOUS
<1>7. /\ e \in (a + 2)..(n + 1) /\ (e > n \/ p[e] # Star)
      /\ \A x \in (a + 1)..(e - 1) : p[x] = Star
  <2>1. PICK i : i = a + 1
    OBVIOUS
  <2>2. i \in 1..n
    BY <1>2, <2>1
  <2>3. /\ e \in (i + 1)..(n + 1) /\ (e > n \/ p[e] # Star)
        /\ \A x \in i..(e - 1) : p[x] = Star
    <3>1. n \in Nat /\ Len(p) = n /\ p[i] = Star /\ e = RunEnd(p, i)
      BY <1>1, <1>2, <1>4, <1>6, <2>1
    <3> QED BY <2>2, <3>1, RunEndIs
  <2>4. i + 1 = a + 2
    BY <1>2, <2>1
  <2> QED BY <2>1, <2>3, <2>4, Zenon
<1>8. e > b
  <2> SUFFICES ASSUME e <= b PROVE FALSE
    BY <1>2, <1>7
  <2>1. e = b
    BY <1>10, <1>4, <1>7
  <2> QED BY <1>10, <1>4, <1>7, <2>1
<1>9. e = b + 1
  <2>1. CASE k = N
    <3>1. b = n
      BY <1>1, <2>1 DEF LaidOut
    <3>2. e <= n + 1 /\ e \in Nat
      BY <1>2, <1>7
    <3> QED BY <1>2, <1>8, <3>1, <3>2
  <2>2. CASE k # N
    <3>1. k + 1 \in 1..N /\ (k + 1) - 1 = k /\ k \in DOMAIN glob /\ k < Len(glob)
      BY <2>2
    <3>2. ~Starred(glob[k + 1])
      BY <3>1 DEF Separate
    <3>3. PICK r : r = TextOf(glob[k + 1])
      OBVIOUS
    <3>4. r[1] # Star
      BY <3>1, <3>2, <3>3, PieceText, PieceLies
    <3>5. p[b + 1] = r[1]
      <4>1. Between(p, r, b, off[k + 1])
        <5>1. PICK w : w = k + 1 /\ w \in 1..N /\ w - 1 = k
          BY <3>1
        <5>2. Between(p, TextOf(glob[w]), off[w - 1], off[w])
          BY <5>1, PieceLies
        <5> QED BY <1>1, <3>3, <5>1, <5>2
      <4>2. 1 \in 1..Len(r)
        BY <4>1 DEF Between
      <4> QED BY <4>1, <4>2 DEF Between
    <3>6. ~(e > b + 1)
      <4> SUFFICES ASSUME e > b + 1 PROVE FALSE
        OBVIOUS
      <4>1. b + 1 \in (a + 1)..(e - 1)
        BY <1>2, <1>7
      <4> QED BY <1>7, <3>4, <3>5, <4>1
    <3> QED BY <1>2, <1>7, <1>8, <3>6
  <2> QED BY <2>1, <2>2
<1> QED BY <1>1, <1>4, <1>5, <1>6, <1>9

\* m is what the matcher makes of a pattern and a text.
Matched(p, t, m) ==
    \A i \in 1..(Len(p) + 1) : \A j \in 1..(Len(t) + 1) : m[i][j] <=> MatchStep(p, t, m, i, j)

\* Behind the pattern only the end of the text is matched.
LEMMA AtTheEnd ==
    ASSUME NEW p \in Text, NEW n \in Nat, n = Len(p), NEW t \in Text, NEW T \in Nat, T = Len(t),
           NEW m, Matched(p, t, m), NEW a \in 0..T
    PROVE  m[n + 1][a + 1] <=> a = T
<1>1. n + 1 \in 1..(Len(p) + 1) /\ a + 1 \in 1..(Len(t) + 1)
  OBVIOUS
<1>2. m[n + 1][a + 1] <=> MatchStep(p, t, m, n + 1, a + 1)
  BY <1>1, Zenon DEF Matched
<1>3. MatchStep(p, t, m, n + 1, a + 1) <=> a + 1 > Len(t)
  <2>1. n + 1 > Len(p)
    OBVIOUS
  <2> QED BY <2>1, Zenon DEF MatchStep
<1> QED BY <1>2, <1>3

\* What stars cover.
LEMMA StarsCover ==
    ASSUME NEW q, Starred(q), NEW t \in Text, NEW T \in Nat, T = Len(t), NEW a \in 0..T, NEW y \in a..T
    PROVE  Covers(q, t, a, y) <=> (q.piece = "stars" \/ ~Has(SubSeq(t, a + 1, y), Slash))
<1>1. Has(SubSeq(t, a + 1, y), Slash) <=> \E x \in (a + 1)..y : t[x] = Slash
  BY HasChunk
<1>2. Meta.slash = Slash /\ a <= y
  BY DEF Meta, Slash
<1>3. CASE q.piece = "stars"
  BY <1>2, <1>3 DEF Covers
<1>4. CASE q.piece = "star"
  <2>1. Covers(q, t, a, y) <=> a <= y /\ \A i \in (a + 1)..y : t[i] # Meta.slash
    BY <1>4 DEF Covers
  <2> QED BY <1>1, <1>2, <1>4, <2>1
<1> QED BY <1>3, <1>4 DEF Starred

\* At place i of the pattern the piece takes what it covers, and what is matched from
\* place e on takes the rest.
Takes(q, t, m, i, e, a) ==
    m[i][a + 1] <=> \E x \in 0..Len(t) : Covers(q, t, a, x) /\ m[e][x + 1]

\* A run of stars is tried with every rest of the text.
LEMMA StarStep ==
    ASSUME NEW p \in Text, NEW n \in Nat, n = Len(p), NEW t \in Text, NEW T \in Nat, T = Len(t),
           NEW m, Matched(p, t, m), NEW i \in 1..n, NEW e \in 1..(n + 1), p[i] = Star, RunEnd(p, i) = e,
           NEW q, Starred(q), e - i >= 2 <=> q.piece = "stars", NEW a \in 0..T
    PROVE  Takes(q, t, m, i, e, a)
<1> SUFFICES m[i][a + 1] <=> \E x \in 0..T : Covers(q, t, a, x) /\ m[e][x + 1]
  BY DEF Takes
<1> DEFINE Good(y) == q.piece = "stars" \/ ~Has(SubSeq(t, a + 1, y), Slash)
<1>1. m[i][a + 1] <=> MatchStep(p, t, m, i, a + 1)
  <2>1. i \in 1..(Len(p) + 1) /\ a + 1 \in 1..(Len(t) + 1)
    OBVIOUS
  <2> QED BY <2>1, Zenon DEF Matched
<1>2. \A y \in a..T : Covers(q, t, a, y) <=> Good(y)
  BY StarsCover
<1>3. \A y \in 0..T : Covers(q, t, a, y) => y \in a..T
  <2> SUFFICES ASSUME NEW y \in 0..T, Covers(q, t, a, y) PROVE a <= y
    OBVIOUS
  <2> QED BY DEF Covers, Starred
<1>4. ~(i > Len(p))
  OBVIOUS
<1> HIDE DEF Good
<1>5. CASE e > n
  <2>1. e = n + 1 /\ e > Len(p)
    BY <1>5
  <2>2. MatchStep(p, t, m, i, a + 1) <=> e - i >= 2 \/ ~Has(From(t, a + 1), Slash)
    BY <1>4, <2>1, Zenon DEF MatchStep
  <2>3. From(t, a + 1) = SubSeq(t, a + 1, T)
    BY DEF From
  <2>4. MatchStep(p, t, m, i, a + 1) <=> Good(T)
    BY <2>2, <2>3, Zenon DEF Good
  <2>5. T \in a..T /\ T \in 0..T
    OBVIOUS
  <2>6. ASSUME Good(T) PROVE \E x \in 0..T : Covers(q, t, a, x) /\ m[e][x + 1]
    <3>1. m[e][T + 1]
      BY <2>1, <2>5, AtTheEnd
    <3> QED BY <1>2, <2>5, <2>6, <3>1
  <2>7. ASSUME NEW x \in 0..T, Covers(q, t, a, x), m[e][x + 1] PROVE Good(T)
    <3>1. x = T
      BY <2>1, <2>7, AtTheEnd
    <3> QED BY <1>2, <2>5, <2>7, <3>1
  <2> QED BY <1>1, <2>4, <2>6, <2>7
<1>6. CASE e <= n
  <2>1. ~(e > Len(p))
    BY <1>6
  <2>2. MatchStep(p, t, m, i, a + 1) <=>
          \E x \in (a + 1)..(Len(t) + 1) : m[e][x] /\ (e - i >= 2 \/ ~Has(SubSeq(t, a + 1, x - 1), Slash))
    BY <1>4, <2>1, Zenon DEF MatchStep
  <2>3. \A x : (e - i >= 2 \/ ~Has(SubSeq(t, a + 1, x - 1), Slash)) <=> Good(x - 1)
    BY Zenon DEF Good
  <2>4. ASSUME NEW x \in (a + 1)..(Len(t) + 1), m[e][x], Good(x - 1)
        PROVE  \E y \in 0..T : Covers(q, t, a, y) /\ m[e][y + 1]
    <3>1. x - 1 \in a..T /\ x - 1 \in 0..T /\ (x - 1) + 1 = x
      OBVIOUS
    <3> QED BY <1>2, <2>4, <3>1
  <2>5. ASSUME NEW y \in 0..T, Covers(q, t, a, y), m[e][y + 1]
        PROVE  \E x \in (a + 1)..(Len(t) + 1) : m[e][x] /\ Good(x - 1)
    <3>1. y \in a..T
      BY <1>3, <2>5
    <3>2. y + 1 \in (a + 1)..(Len(t) + 1) /\ (y + 1) - 1 = y
      BY <3>1
    <3>3. Good((y + 1) - 1)
      BY <1>2, <2>5, <3>1, <3>2
    <3> QED BY <2>5, <3>2, <3>3
  <2> QED BY <1>1, <2>2, <2>3, <2>4, <2>5, Zenon
<1> QED BY <1>5, <1>6

\* At place i of the pattern the piece takes one byte, and what is matched from place e
\* on takes the rest.
TakesOne(q, t, m, i, e, a) ==
    m[i][a + 1] <=> a < Len(t) /\ t[a + 1] \in SetOf(q) /\ m[e][a + 2]

\* A piece for one byte takes one byte.
LEMMA ByteStep ==
    ASSUME NEW p \in Text, NEW n \in Nat, n = Len(p), NEW t \in Text, NEW T \in Nat, T = Len(t),
           NEW m, Matched(p, t, m), NEW i \in 1..n, NEW q \in PieceType, Legible(q), ~Starred(q),
           LiesAt(p, i, TextOf(q)), NEW a \in 0..T
    PROVE  TakesOne(q, t, m, i, i + Len(TextOf(q)), a)
<1> SUFFICES m[i][a + 1] <=> a < T /\ t[a + 1] \in SetOf(q) /\ m[i + Len(TextOf(q))][a + 2]
  BY DEF TakesOne
<1>1. m[i][a + 1] <=> MatchStep(p, t, m, i, a + 1)
  <2>1. i \in 1..(Len(p) + 1) /\ a + 1 \in 1..(Len(t) + 1)
    OBVIOUS
  <2> QED BY <2>1, Zenon DEF Matched
<1>2. PICK s, l : s = TextOf(q) /\ l = Len(s)
  OBVIOUS
<1>3. l \in Nat /\ l >= 1 /\ s[1] # Star
  BY <1>2, PieceText
<1>4. p[i] = s[1]
  <2>1. \A j \in 1..l : p[i - 1 + j] = s[j]
    BY <1>2 DEF LiesAt
  <2>2. 1 \in 1..l /\ i - 1 + 1 = i
    BY <1>3
  <2>3. p[i - 1 + 1] = s[1]
    BY <2>1, <2>2
  <2> QED BY <2>2, <2>3
<1>5. ~(i > Len(p)) /\ p[i] # Star
  BY <1>3, <1>4
<1>6. CASE a = T
  <2>1. a + 1 > Len(t)
    BY <1>6
  <2>2. ~MatchStep(p, t, m, i, a + 1)
    BY <1>5, <2>1, Zenon DEF MatchStep
  <2> QED BY <1>1, <1>6, <2>2
<1>7. CASE a # T
  <2>1. ~(a + 1 > Len(t)) /\ a < T /\ (a + 1) + 1 = a + 2 /\ a + 1 \in 1..T
    BY <1>7
  <2>2. PICK c : c = t[a + 1] /\ c \in Byte
    BY <2>1 DEF Text
  <2>3. CASE q.piece = "class"
    <3>1. s[1] = Open
      BY <1>2, <2>3, PieceText
    <3>2. MatchStep(p, t, m, i, a + 1) <=>
            match_char_class(p, i, c).hit /\ m[match_char_class(p, i, c).next][(a + 1) + 1]
      BY <1>4, <1>5, <2>1, <2>2, <3>1, Zenon DEF MatchStep
    <3>3. match_char_class(p, i, c).next = i + l /\ (match_char_class(p, i, c).hit <=> c \in SetOf(q))
      <4>1. i \in Nat /\ 1 <= i
        OBVIOUS
      <4> QED BY <1>2, <2>2, <2>3, <4>1, ClassReads
    <3> QED BY <1>1, <1>2, <2>1, <2>2, <3>2, <3>3, Zenon
  <2>4. CASE q.piece = "any"
    <3>1. s[1] = Question /\ l = 1 /\ SetOf(q) = Byte \ {Slash}
      BY <1>2, <2>4, PieceText
    <3>2. p[i] # Open
      BY <1>4, <3>1 DEF Question, Open
    <3>3. MatchStep(p, t, m, i, a + 1) <=> c # Slash /\ m[i + 1][(a + 1) + 1]
      BY <1>4, <1>5, <2>1, <2>2, <3>1, <3>2, Zenon DEF MatchStep
    <3>4. c # Slash <=> c \in SetOf(q)
      BY <2>2, <3>1
    <3> QED BY <1>1, <1>2, <2>1, <2>2, <3>1, <3>3, <3>4, Zenon
  <2>5. CASE q.piece = "byte"
    <3>1. l = 1 /\ s[1] \notin {Star, Question, Open} /\ SetOf(q) = {s[1]}
      BY <1>2, <2>5, PieceText
    <3>2. p[i] # Open /\ p[i] # Question
      BY <1>4, <3>1
    <3>3. MatchStep(p, t, m, i, a + 1) <=> p[i] = c /\ m[i + 1][(a + 1) + 1]
      BY <1>4, <1>5, <2>1, <2>2, <3>2, Zenon DEF MatchStep
    <3>4. p[i] = c <=> c \in SetOf(q)
      BY <1>4, <3>1
    <3> QED BY <1>1, <1>2, <2>1, <2>2, <3>1, <3>3, <3>4, Zenon
  <2> QED BY <2>3, <2>4, <2>5, MembersTyped DEF Starred
<1> QED BY <1>6, <1>7

\* Each piece takes what it covers, and the next ones the rest.
LEMMA PieceStep ==
    ASSUME NEW glob \in Seq(PieceType), Separate(glob), NEW N \in Nat, N = Len(glob),
           NEW p \in Text, NEW off, LaidOut(glob, N, p, off), NEW k \in 1..N,
           NEW t \in Text, NEW T \in Nat, T = Len(t), NEW m, Matched(p, t, m), NEW a \in 0..T
    PROVE  Takes(glob[k], t, m, off[k - 1] + 1, off[k] + 1, a)
<1>1. PICK b, d, n, q, s : b = off[k - 1] /\ d = off[k] /\ n = Len(p) /\ q = glob[k] /\ s = TextOf(q)
  OBVIOUS
<1>2. Between(p, s, b, d) /\ q \in PieceType /\ Legible(q) /\ LiesAt(p, b + 1, s)
  BY <1>1, PieceLies
<1>3. /\ b \in Nat /\ d \in Nat /\ n \in Nat /\ Len(s) \in Nat /\ Len(s) >= 1 /\ d = b + Len(s) /\ d <= n
  BY <1>1, <1>2 DEF Between
<1>4. PICK i, e : i = b + 1 /\ e = d + 1
  OBVIOUS
<1>5. i \in 1..n /\ e \in 1..(n + 1) /\ e = i + Len(s) /\ e - i = d - b
  BY <1>3, <1>4
<1>6. CASE Starred(q)
  <2>1. RunEnd(p, i) = e /\ p[i] = Star /\ (d - b >= 2 <=> q.piece = "stars")
    BY <1>1, <1>4, <1>6, StarRun, SMTT(30)
  <2>2. Takes(q, t, m, i, e, a)
    BY <1>1, <1>5, <1>6, <2>1, StarStep
  <2> QED BY <1>1, <1>4, <2>2
<1>7. CASE ~Starred(q)
  <2>1. m[i][a + 1] <=> a < T /\ t[a + 1] \in SetOf(q) /\ m[e][a + 2]
    <3>1. LiesAt(p, i, TextOf(q))
      BY <1>1, <1>2, <1>4
    <3>2. TakesOne(q, t, m, i, i + Len(TextOf(q)), a)
      BY <1>1, <1>2, <1>5, <1>7, <3>1, ByteStep
    <3>3. TakesOne(q, t, m, i, e, a)
      BY <1>1, <1>5, <3>2
    <3> QED BY <3>3 DEF TakesOne
  <2>2. \A x : Covers(q, t, a, x) <=> x = a + 1 /\ t[x] \in SetOf(q)
    BY <1>7 DEF Covers, Starred
  <2>3. ASSUME a < T, t[a + 1] \in SetOf(q), m[e][a + 2]
        PROVE  \E x \in 0..T : Covers(q, t, a, x) /\ m[e][x + 1]
    <3>1. a + 1 \in 0..T /\ (a + 1) + 1 = a + 2
      BY <2>3
    <3> QED BY <2>2, <2>3, <3>1
  <2>4. ASSUME NEW x \in 0..T, Covers(q, t, a, x), m[e][x + 1]
        PROVE  a < T /\ t[a + 1] \in SetOf(q) /\ m[e][a + 2]
    <3>1. x = a + 1 /\ t[x] \in SetOf(q) /\ x + 1 = a + 2
      BY <2>2, <2>4
    <3> QED BY <2>4, <3>1
  <2>5. Takes(q, t, m, i, e, a)
    BY <2>1, <2>3, <2>4 DEF Takes
  <2> QED BY <1>1, <1>4, <2>5
<1> QED BY <1>6, <1>7

\* From each piece on the matcher does what the pieces mean.
LEMMA GlobReads ==
    ASSUME NEW glob \in Seq(PieceType), Separate(glob), NEW N \in Nat, N = Len(glob),
           NEW p \in Text, NEW off, LaidOut(glob, N, p, off),
           NEW t \in Text, NEW T \in Nat, T = Len(t), NEW m, Matched(p, t, m)
    PROVE  \A k \in 0..N : \A a \in 0..T : m[off[k] + 1][a + 1] <=> CutFrom(glob, t, k, a)
<1> DEFINE Reads(k) == \A a \in 0..T : m[off[k] + 1][a + 1] <=> CutFrom(glob, t, k, a)
           S == {k \in Nat : Reads(k)}
<1>1. ASSUME NEW k \in 0..N, \A j \in (k + 1)..N : j \in S PROVE k \in S
  <2>1. CASE k = N
    <3>1. PICK n \in Nat : n = Len(p)
      BY DEF Text
    <3>2. off[k] = n
      BY <2>1, <3>1 DEF LaidOut
    <3>3. ASSUME NEW a \in 0..T PROVE m[off[k] + 1][a + 1] <=> CutFrom(glob, t, k, a)
      <4>1. m[n + 1][a + 1] <=> a = T
        BY <3>1, AtTheEnd
      <4>2. CutFrom(glob, t, N, a) <=> a = T
        BY TailEnd
      <4> QED BY <2>1, <3>2, <4>1, <4>2
    <3> QED BY <3>3
  <2>2. CASE k # N
    <3>1. PICK w : w = k + 1 /\ w \in 1..N /\ w - 1 = k /\ w \in (k + 1)..N /\ k \in 0..(N - 1)
      BY <2>2
    <3>2. Reads(w)
      BY <1>1, <3>1
    <3>3. ASSUME NEW a \in 0..T PROVE m[off[k] + 1][a + 1] <=> CutFrom(glob, t, k, a)
      <4>1. m[off[k] + 1][a + 1] <=> \E x \in 0..T : Covers(glob[w], t, a, x) /\ m[off[w] + 1][x + 1]
        <5>1. Takes(glob[w], t, m, off[w - 1] + 1, off[w] + 1, a)
          BY <3>1, PieceStep
        <5> QED BY <3>1, <5>1 DEF Takes
      <4>2. CutFrom(glob, t, k, a) <=> \E x \in 0..T : Covers(glob[w], t, a, x) /\ CutFrom(glob, t, w, x)
        BY <3>1, TailStep
      <4> QED BY <3>2, <4>1, <4>2
    <3> QED BY <3>3
  <2> QED BY <2>1, <2>2
<1> HIDE DEF Reads
<1>2. \A k \in 0..N : k \in S
  <2> HIDE DEF S
  <2> QED BY <1>1, DownInduction
<1> QED BY <1>2, Zenon DEF Reads

\* A glob means a text when its pieces from the first on take all of it.
LEMMA MeansIs ==
    ASSUME NEW glob, NEW N \in Nat, N = Len(glob), N >= 1, DOMAIN glob = 1..N,
           NEW t, NEW T \in Nat, T = Len(t)
    PROVE  Means(glob, t) <=> CutFrom(glob, t, 0, 0)
<1>1. ASSUME Means(glob, t) PROVE CutFrom(glob, t, 0, 0)
  <2>1. PICK c \in [1..(N - 1) -> 0..T] :
          \A i \in 1..N : Covers(glob[i], t, IF i = 1 THEN 0 ELSE c[i - 1], IF i = N THEN T ELSE c[i])
    BY <1>1, Zenon DEF Means
  <2>2. PICK cut : cut = [i \in 0..N |-> IF i = 0 THEN 0 ELSE IF i = N THEN T ELSE c[i]]
    OBVIOUS
  <2>3. cut \in [0..N -> 0..T] /\ cut[0] = 0 /\ cut[N] = T
    BY <2>1, <2>2
  <2>4. ASSUME NEW i \in (0 + 1)..N PROVE Covers(glob[i], t, cut[i - 1], cut[i])
    <3>1. i \in 1..N /\ i \in 0..N /\ i - 1 \in 0..N /\ i # 0 /\ i - 1 # N /\ (i - 1 = 0 <=> i = 1)
      OBVIOUS
    <3>2. cut[i - 1] = (IF i = 1 THEN 0 ELSE c[i - 1]) /\ cut[i] = (IF i = N THEN T ELSE c[i])
      BY <2>2, <3>1
    <3> QED BY <2>1, <3>1, <3>2
  <2> QED BY <2>3, <2>4, Zenon DEF CutFrom
<1>2. ASSUME CutFrom(glob, t, 0, 0) PROVE Means(glob, t)
  <2>1. PICK cut \in [0..N -> 0..T] :
          /\ cut[0] = 0 /\ cut[N] = T
          /\ \A i \in (0 + 1)..N : Covers(glob[i], t, cut[i - 1], cut[i])
    BY <1>2, Zenon DEF CutFrom
  <2>2. PICK c : c = [i \in 1..(N - 1) |-> cut[i]]
    OBVIOUS
  <2>3. c \in [1..(N - 1) -> 0..T]
    BY <2>1, <2>2
  <2>4. ASSUME NEW i \in 1..N
        PROVE  Covers(glob[i], t, IF i = 1 THEN 0 ELSE c[i - 1], IF i = N THEN T ELSE c[i])
    <3>1. cut[i - 1] = (IF i = 1 THEN 0 ELSE c[i - 1])
      <4>1. CASE i = 1
        BY <2>1, <4>1
      <4>2. CASE i # 1
        <5>1. i - 1 \in 1..(N - 1)
          BY <4>2
        <5> QED BY <2>2, <4>2, <5>1
      <4> QED BY <4>1, <4>2
    <3>2. cut[i] = (IF i = N THEN T ELSE c[i])
      BY <2>1, <2>2
    <3>3. i \in (0 + 1)..N
      OBVIOUS
    <3> QED BY <2>1, <3>1, <3>2, <3>3
  <2> QED BY <2>3, <2>4, Zenon DEF Means
<1> QED BY <1>1, <1>2

\* The matcher takes the text of a glob to be what the glob means.
LEMMA WildReads ==
    ASSUME NEW glob \in Seq(PieceType), Separate(glob), glob # <<>>, NEW t \in Text
    PROVE  wildmatch(Rendered(glob), t) <=> Means(glob, t)
<1>1. PICK N \in Nat : N = Len(glob) /\ N >= 1 /\ DOMAIN glob = 1..N
  OBVIOUS
<1>2. \A i \in DOMAIN glob : Legible(glob[i])
  BY DEF Separate
<1>3. PICK p : p = Rendered(glob)
  OBVIOUS
<1>4. p \in Text /\ \E off : LaidOut(glob, N, p, off)
  BY <1>1, <1>2, <1>3, GlobPlaced
<1>5. PICK off : LaidOut(glob, N, p, off)
  BY <1>4
<1>6. PICK T \in Nat : T = Len(t)
  BY DEF Text
<1>7. PICK m : (wildmatch(p, t) <=> m[1][1]) /\ Matched(p, t, m)
  BY <1>4, MatcherIs, Zenon DEF Matched
<1>8. \A k \in 0..N : \A a \in 0..T : m[off[k] + 1][a + 1] <=> CutFrom(glob, t, k, a)
  BY <1>1, <1>4, <1>5, <1>6, <1>7, GlobReads
<1>9. m[1][1] <=> CutFrom(glob, t, 0, 0)
  <2>1. off[0] = 0 /\ 0 + 1 = 1 /\ 0 \in 0..N /\ 0 \in 0..T
    BY <1>5 DEF LaidOut
  <2>2. m[off[0] + 1][0 + 1] <=> CutFrom(glob, t, 0, 0)
    BY <1>8, <2>1, Zenon
  <2> QED BY <2>1, <2>2, Zenon
<1>10. Means(glob, t) <=> CutFrom(glob, t, 0, 0)
  BY <1>1, <1>6, MeansIs
<1> QED BY <1>3, <1>7, <1>9, <1>10, Zenon

\* The rests of a pattern and of a text are the same bytes.
Same(p, t, i, j) == Len(p) - i = Len(t) - j /\ \A x \in i..Len(p) : p[x] = t[x - i + j]

\* A pattern without a byte that means something matches itself only.
LEMMA LiteralReads ==
    ASSUME NEW p \in Text, NEW t \in Text, ~Has(p, Star), ~Has(p, Question), ~Has(p, Open)
    PROVE  wildmatch(p, t) <=> p = t
<1>1. PICK n \in Nat, T \in Nat : n = Len(p) /\ T = Len(t)
  BY DEF Text
<1>2. PICK m : (wildmatch(p, t) <=> m[1][1]) /\ Matched(p, t, m)
  BY MatcherIs, Zenon DEF Matched
<1>3. \A i \in 1..n : p[i] # Star /\ p[i] # Question /\ p[i] # Open
  BY <1>1 DEF Has, Text
<1> DEFINE Reads(i) == \A j \in 1..(T + 1) : m[i][j] <=> Same(p, t, i, j)
           S == {i \in Nat : Reads(i)}
<1>4. ASSUME NEW i \in 1..(n + 1), \A x \in (i + 1)..(n + 1) : x \in S PROVE i \in S
  <2>1. ASSUME NEW j \in 1..(T + 1) PROVE m[i][j] <=> MatchStep(p, t, m, i, j)
    BY <1>1, <1>2, <2>1, Zenon DEF Matched
  <2>2. CASE i = n + 1
    <3>1. i > Len(p)
      BY <1>1, <2>2
    <3>2. ASSUME NEW j \in 1..(T + 1) PROVE m[i][j] <=> Same(p, t, i, j)
      <4>1. MatchStep(p, t, m, i, j) <=> j > Len(t)
        BY <3>1, Zenon DEF MatchStep
      <4>2. Same(p, t, i, j) <=> j = T + 1
        BY <1>1, <2>2 DEF Same
      <4> QED BY <1>1, <2>1, <4>1, <4>2
    <3> QED BY <3>2
  <2>3. CASE i # n + 1
    <3>1. i \in 1..n /\ ~(i > Len(p)) /\ i + 1 \in (i + 1)..(n + 1)
      BY <1>1, <2>3
    <3>2. Reads(i + 1)
      BY <1>4, <3>1
    <3>3. ASSUME NEW j \in 1..(T + 1) PROVE m[i][j] <=> Same(p, t, i, j)
      <4>1. CASE j = T + 1
        <5>1. j > Len(t)
          BY <1>1, <4>1
        <5>2. ~MatchStep(p, t, m, i, j)
          BY <1>3, <3>1, <5>1, Zenon DEF MatchStep
        <5>3. ~Same(p, t, i, j)
          BY <1>1, <3>1, <4>1 DEF Same
        <5> QED BY <2>1, <5>2, <5>3
      <4>2. CASE j # T + 1
        <5>1. ~(j > Len(t)) /\ j \in 1..T /\ j + 1 \in 1..(T + 1)
          BY <1>1, <4>2
        <5>2. MatchStep(p, t, m, i, j) <=> p[i] = t[j] /\ m[i + 1][j + 1]
          BY <1>3, <3>1, <5>1, Zenon DEF MatchStep
        <5>3. m[i + 1][j + 1] <=> Same(p, t, i + 1, j + 1)
          BY <3>2, <5>1
        <5>4. ASSUME p[i] = t[j], Same(p, t, i + 1, j + 1) PROVE Same(p, t, i, j)
          <6>1. n - (i + 1) = T - (j + 1) /\ \A x \in (i + 1)..n : p[x] = t[x - (i + 1) + (j + 1)]
            BY <1>1, <5>4 DEF Same
          <6>2. ASSUME NEW x \in i..n PROVE p[x] = t[x - i + j]
            <7>1. CASE x = i
              <8>1. i - i + j = j
                OBVIOUS
              <8> QED BY <5>4, <7>1, <8>1
            <7>2. CASE x # i
              <8>1. x \in (i + 1)..n /\ x - (i + 1) + (j + 1) = x - i + j
                BY <7>2
              <8> QED BY <6>1, <8>1
            <7> QED BY <7>1, <7>2
          <6>3. n - i = T - j
            BY <6>1
          <6> QED BY <1>1, <6>2, <6>3 DEF Same
        <5>5. ASSUME Same(p, t, i, j) PROVE p[i] = t[j] /\ Same(p, t, i + 1, j + 1)
          <6>1. n - i = T - j /\ \A x \in i..n : p[x] = t[x - i + j]
            BY <1>1, <5>5 DEF Same
          <6>2. p[i] = t[j]
            <7>1. i \in i..n /\ i - i + j = j
              BY <3>1
            <7> QED BY <6>1, <7>1
          <6>3. \A x \in (i + 1)..n : p[x] = t[x - (i + 1) + (j + 1)]
            <7> TAKE x \in (i + 1)..n
            <7>1. x \in i..n /\ x - (i + 1) + (j + 1) = x - i + j
              OBVIOUS
            <7> QED BY <6>1, <7>1
          <6>4. n - (i + 1) = T - (j + 1)
            BY <6>1
          <6> QED BY <1>1, <6>2, <6>3, <6>4 DEF Same
        <5> QED BY <2>1, <5>2, <5>3, <5>4, <5>5
      <4> QED BY <4>1, <4>2
    <3> QED BY <3>3
  <2> QED BY <2>2, <2>3
<1>5. Reads(1)
  <2> HIDE DEF Reads
  <2>1. PICK e \in Nat : e = n + 1 /\ 1 \in 1..e
    OBVIOUS
  <2>2. \A i \in 1..e : (\A x \in (i + 1)..e : x \in S) => i \in S
    BY <1>4, <2>1
  <2>3. \A i \in 1..e : i \in S
    <3> HIDE DEF S
    <3> QED BY <2>2, DownInduction
  <2> QED BY <2>1, <2>3
<1>6. m[1][1] <=> Same(p, t, 1, 1)
  BY <1>5
<1>7. Same(p, t, 1, 1) <=> p = t
  <2>1. ASSUME Same(p, t, 1, 1) PROVE p = t
    <3>1. n = T /\ \A x \in 1..n : p[x] = t[x]
      <4>1. n - 1 = T - 1 /\ \A x \in 1..n : p[x] = t[x - 1 + 1]
        BY <1>1, <2>1 DEF Same
      <4>2. \A x \in 1..n : x - 1 + 1 = x
        OBVIOUS
      <4> QED BY <4>1, <4>2
    <3>2. p \in Seq(Byte) /\ t \in Seq(Byte)
      BY DEF Text
    <3> QED BY <1>1, <3>1, <3>2, SeqEqual
  <2>2. ASSUME p = t PROVE Same(p, t, 1, 1)
    <3>1. \A x \in 1..n : x - 1 + 1 = x
      OBVIOUS
    <3> QED BY <1>1, <2>2, <3>1 DEF Same
  <2> QED BY <2>1, <2>2
<1> QED BY <1>2, <1>6, <1>7, Zenon

\* What joined parts have, one of the parts has.
LEMMA FlatHas ==
    ASSUME NEW P, NEW h \in Seq(Seq(P)), NEW c
    PROVE  Has(FlattenSeq(h), c) <=> \E k \in DOMAIN h : Has(h[k], c)
<1>1. PICK n \in Nat : n = Len(h) /\ DOMAIN h = 1..n
  OBVIOUS
<1>2. PICK s, off : s = FlattenSeq(h) /\ s \in Seq(P) /\ Placed(h, n, s, off)
  BY <1>1, FlatAt
<1>3. /\ off \in [0..n -> Nat] /\ off[0] = 0 /\ off[n] = Len(s)
      /\ \A k \in 1..n : /\ off[k] = off[k - 1] + Len(h[k]) /\ off[k] <= off[n]
                         /\ \A j \in 1..Len(h[k]) : s[off[k - 1] + j] = h[k][j]
  BY <1>2, Zenon DEF Placed
<1>4. \A k \in 1..n : h[k] \in Seq(P) /\ Len(h[k]) \in Nat /\ DOMAIN h[k] = 1..Len(h[k])
  BY <1>1
<1>5. DOMAIN s = 1..Len(s) /\ Len(s) \in Nat
  BY <1>2
<1>6. ASSUME NEW k \in 1..n, NEW j \in 1..Len(h[k]), h[k][j] = c PROVE Has(s, c)
  <2>1. PICK a, l, b : a = off[k - 1] /\ l = Len(h[k]) /\ b = off[k]
    OBVIOUS
  <2>2. a \in Nat /\ l \in Nat /\ b \in Nat /\ b = a + l /\ b <= Len(s)
    <3>1. k - 1 \in 0..n /\ k \in 0..n
      BY PredIn
    <3>2. off[k - 1] \in Nat /\ off[k] \in Nat
      BY <1>3, <3>1
    <3> QED BY <1>3, <1>4, <2>1, <3>2
  <2>3. a + j \in 1..Len(s)
    <3>1. PICK e \in Nat : e = Len(s)
      BY <1>5
    <3>2. j \in 1..l /\ a \in Nat /\ l \in Nat /\ a + l <= e
      BY <2>1, <2>2, <3>1
    <3> QED BY <3>1, <3>2
  <2>4. s[a + j] = c
    BY <1>3, <1>6, <2>1
  <2> QED BY <1>5, <2>3, <2>4 DEF Has
<1> DEFINE Found(k) == k <= n => \A x \in 1..off[k] : s[x] = c => \E i \in 1..n : Has(h[i], c)
           S == {k \in Nat : Found(k)}
<1>7. 0 \in S
  BY <1>3
<1>8. ASSUME NEW k \in Nat, k \in S PROVE k + 1 \in S
  <2> SUFFICES ASSUME k + 1 <= n, NEW x \in 1..off[k + 1], s[x] = c
               PROVE  \E i \in 1..n : Has(h[i], c)
    OBVIOUS
  <2>1. k + 1 \in 1..n /\ (k + 1) - 1 = k /\ k <= n
    OBVIOUS
  <2>2. PICK a, l, b : a = off[k] /\ l = Len(h[k + 1]) /\ b = off[k + 1]
    OBVIOUS
  <2>3. a \in Nat /\ l \in Nat /\ b = a + l
    BY <1>3, <1>4, <2>1, <2>2
  <2>4. CASE x <= a
    BY <1>8, <2>1, <2>2, <2>3, <2>4
  <2>5. CASE x > a
    <3>1. x - a \in 1..l /\ a + (x - a) = x
      <4>1. x \in 1..b /\ a \in Nat /\ l \in Nat /\ b = a + l
        BY <2>2, <2>3
      <4> QED BY <2>5, <4>1
    <3>2. s[a + (x - a)] = h[k + 1][x - a]
      BY <1>3, <2>1, <2>2, <3>1
    <3>3. Has(h[k + 1], c)
      BY <1>4, <2>1, <2>2, <3>1, <3>2 DEF Has
    <3> QED BY <2>1, <3>3
  <2> QED BY <2>2, <2>3, <2>4, <2>5
<1>9. n \in S
  <2> HIDE DEF S
  <2>1. \A k \in Nat : k \in S
    BY <1>7, <1>8, SetInduction
  <2> QED BY <2>1
<1>10. ASSUME Has(s, c) PROVE \E i \in 1..n : Has(h[i], c)
  <2>1. PICK x \in 1..Len(s) : s[x] = c
    BY <1>5, <1>10 DEF Has
  <2> QED BY <1>3, <1>9, <2>1
<1>11. ASSUME NEW i \in 1..n, Has(h[i], c) PROVE Has(s, c)
  <2>1. PICK j \in 1..Len(h[i]) : h[i][j] = c
    BY <1>4, <1>11 DEF Has
  <2> QED BY <1>6, <2>1
<1> QED BY <1>1, <1>2, <1>10, <1>11, Zenon

\* The byte of a slash is one and no other.
LEMMA Slashes ==
    /\ Meta.slash = Slash /\ Slash \in Byte
    /\ Slash \notin {Star, Question, Open, Close, Bang, Dash, Space, Hash}
  BY DEF Meta, Slash, Star, Question, Open, Close, Bang, Dash, Space, Hash, Byte

\* A class is written without a slash.
LEMMA ClassSlash ==
    ASSUME NEW q \in PieceType, q.piece = "class", Legible(q)
    PROVE  ~Has(TextOf(q), Slash)
<1>1. PICK o, l, s, f : /\ o = (IF q.negate THEN 2 ELSE 1) /\ l = Len(Listed(q)) /\ s = TextOf(q) /\ f = Listed(q)
  OBVIOUS
<1>2. /\ l \in Nat /\ o \in 1..2 /\ (o = 2 => q.negate)
  BY <1>1, ClassText, MembersTyped
<1>3. /\ Len(s) = o + l + 1 /\ s \in Text /\ s[1] = Open /\ (q.negate => s[2] = Bang)
      /\ \A j \in 1..l : s[o + j] = f[j]
      /\ s[o + l + 1] = Close
  BY <1>1, ClassText
<1>4. PICK h, M : h = MemberTexts(q) /\ M = Len(q.members)
  OBVIOUS
<1>5. /\ h \in Seq(Seq(Byte)) /\ M \in Nat /\ DOMAIN h = 1..M
      /\ \A v \in 1..M : h[v] = MemberText(q.members[v])
  BY <1>4, ListedIs, MembersTyped DEF Text
<1>6. ASSUME NEW v \in 1..M PROVE ~Has(h[v], Slash)
  <2>1. PICK r, y : r = q.members[v] /\ y = h[v]
    OBVIOUS
  <2>2. r.lo \in Byte /\ r.hi \in Byte /\ r.lo # Slash /\ r.hi # Slash
    <3>1. v \in DOMAIN q.members
      BY <1>4, MembersTyped
    <3>2. Meta.slash \notin {q.members[v].lo, q.members[v].hi}
      BY <3>1 DEF Legible
    <3> QED BY <1>4, <2>1, <3>2, MembersTyped, Slashes
  <2>3. /\ y \in Text /\ y[1] = r.lo /\ (r.lo = r.hi => Len(y) = 1)
        /\ r.lo # r.hi => Len(y) = 3 /\ y[2] = Dash /\ y[3] = r.hi
    BY <1>5, <2>1, <2>2, MemberTextIs
  <2>4. \A j \in 1..Len(y) : y[j] # Slash
    <3>1. CASE r.lo = r.hi
      <4>1. Len(y) = 1 /\ y[1] # Slash
        BY <2>2, <2>3, <3>1
      <4>2. \A j \in 1..1 : j = 1
        OBVIOUS
      <4> QED BY <4>1, <4>2
    <3>2. CASE r.lo # r.hi
      <4>1. Len(y) = 3 /\ y[1] # Slash /\ y[2] # Slash /\ y[3] # Slash
        BY <2>2, <2>3, <3>2, Slashes
      <4>2. \A j \in 1..3 : j = 1 \/ j = 2 \/ j = 3
        OBVIOUS
      <4> QED BY <4>1, <4>2
    <3> QED BY <3>1, <3>2
  <2>5. DOMAIN y = 1..Len(y)
    BY <2>3 DEF Text
  <2> QED BY <2>1, <2>4, <2>5 DEF Has
<1>7. ~Has(f, Slash)
  BY <1>1, <1>4, <1>5, <1>6, FlatHas DEF Listed
<1>8. \A j \in 1..l : f[j] # Slash
  <2>1. DOMAIN f = 1..l
    BY <1>1, ListedIs DEF Text
  <2> QED BY <1>7, <2>1 DEF Has
<1>9. ASSUME NEW j \in 1..(o + l + 1) PROVE s[j] # Slash
  <2>1. CASE j <= o
    BY <1>2, <1>3, <2>1, Slashes
  <2>2. CASE j > o /\ j <= o + l
    <3>1. j - o \in 1..l /\ o + (j - o) = j
      BY <1>2, <2>2
    <3> QED BY <1>3, <1>8, <3>1
  <2>3. CASE j = o + l + 1
    BY <1>3, <2>3, Slashes
  <2> QED BY <1>2, <2>1, <2>2, <2>3
<1>10. DOMAIN s = 1..(o + l + 1)
  BY <1>3 DEF Text
<1> QED BY <1>1, <1>9, <1>10 DEF Has

\* A slash is written for a slash and for no other piece.
LEMMA PieceSlash ==
    ASSUME NEW q \in PieceType, Legible(q)
    PROVE  /\ Has(TextOf(q), Slash) <=> IsSlash(q)
           /\ TextOf(q)[1] = Slash <=> IsSlash(q)
           /\ TextOf(q)[Len(TextOf(q))] = Slash <=> IsSlash(q)
<1>1. PICK s : s = TextOf(q)
  OBVIOUS
<1>2. s \in Text /\ Len(s) \in Nat /\ Len(s) >= 1
  BY <1>1, PieceText
<1>3. DOMAIN s = 1..Len(s) /\ 1 \in DOMAIN s /\ Len(s) \in DOMAIN s
  BY <1>2 DEF Text
<1>4. IsSlash(q) => q.piece = "byte"
  BY DEF IsSlash, Lit, Piece
<1>5. CASE q.piece = "byte"
  <2>1. Len(s) = 1 /\ s[1] = q.members[1].lo
    BY <1>1, <1>5, PieceText
  <2>2. Len(q.members) = 1 /\ q.members[1].lo = q.members[1].hi /\ ~q.negate
    BY <1>5 DEF Legible
  <2>3. IsSlash(q) <=> q.members[1].lo = Slash
    <3>1. q.members \in Seq(Ranges) /\ q.members[1] \in Ranges /\ q.negate = FALSE
      BY <2>2 DEF PieceType
    <3>2. q.members = <<q.members[1]>>
      BY <2>2, <3>1
    <3>3. q.members[1] = [lo |-> q.members[1].lo, hi |-> q.members[1].lo]
      BY <2>2, <3>1 DEF Ranges
    <3>4. q = [piece |-> "byte", negate |-> FALSE, members |-> q.members]
      BY <1>5, <3>1 DEF PieceType
    <3>5. ASSUME q.members[1].lo = Slash PROVE IsSlash(q)
      <4>1. q.members = <<[lo |-> Slash, hi |-> Slash]>>
        BY <3>2, <3>3, <3>5, Zenon
      <4> QED BY <3>4, <4>1, Slashes, Zenon DEF IsSlash, Lit, Piece
    <3>6. ASSUME IsSlash(q) PROVE q.members[1].lo = Slash
      BY <3>6, Slashes DEF IsSlash, Lit, Piece
    <3> QED BY <3>5, <3>6
  <2>4. Has(s, Slash) <=> s[1] = Slash
    BY <1>3, <2>1 DEF Has
  <2> QED BY <1>1, <2>1, <2>3, <2>4
<1>6. CASE q.piece = "class"
  <2>1. ~Has(s, Slash)
    BY <1>1, <1>6, ClassSlash
  <2>2. s[1] # Slash /\ s[Len(s)] # Slash
    BY <1>3, <2>1 DEF Has
  <2> QED BY <1>1, <1>4, <1>6, <2>1, <2>2
<1>7. CASE q.piece \in {"any", "star", "stars"}
  <2>1. \A j \in 1..Len(s) : s[j] # Slash
    <3>1. CASE q.piece = "any"
      BY <1>1, <3>1, PieceText, Slashes
    <3>2. CASE q.piece = "star"
      BY <1>1, <3>2, PieceText, Slashes
    <3>3. CASE q.piece = "stars"
      <4>1. Len(s) = 2 /\ s[1] = Star /\ s[2] = Star
        BY <1>1, <3>3, PieceText
      <4> QED BY <4>1, Slashes
    <3> QED BY <1>7, <3>1, <3>2, <3>3
  <2> QED BY <1>1, <1>3, <1>4, <1>7, <2>1 DEF Has
<1> QED BY <1>5, <1>6, <1>7, MembersTyped

\* The glob of a rule that can be read, in its text.
LEMMA RenderedIs ==
    ASSUME NEW r \in Written
    PROVE  LET p == Rendered(r.glob)
           IN  /\ r.glob \in Seq(PieceType) /\ r.glob # <<>> /\ Separate(r.glob)
               /\ p \in Text /\ Len(p) \in Nat /\ Len(p) >= 1 /\ p[1] # Slash /\ p[Len(p)] # Slash
               /\ Has(p, Slash) <=> \E i \in DOMAIN r.glob : IsSlash(r.glob[i])
<1>1. PICK g : g = r.glob
  OBVIOUS
<1>2. g \in Seq(PieceType) /\ g # <<>> /\ Separate(g) /\ ~IsSlash(g[1]) /\ ~IsSlash(g[Len(g)])
  BY <1>1 DEF Written, RuleType, Readable, Separate
<1>3. PICK N \in Nat : N = Len(g) /\ N >= 1 /\ DOMAIN g = 1..N
  BY <1>2
<1>4. \A i \in DOMAIN g : Legible(g[i]) /\ g[i] \in PieceType
  BY <1>2, <1>3 DEF Separate
<1>5. PICK p, off : p = Rendered(g) /\ p \in Text /\ LaidOut(g, N, p, off)
  BY <1>2, <1>3, <1>4, GlobPlaced
<1>6. Len(p) \in Nat /\ Len(p) >= 1 /\ p[1] # Slash
  <2>1. Between(p, TextOf(g[1]), off[1 - 1], off[1])
    BY <1>2, <1>3, <1>5, PieceLies
  <2>2. off[1 - 1] = 0
    BY <1>5 DEF LaidOut
  <2>3. PICK s : s = TextOf(g[1])
    OBVIOUS
  <2>4. Between(p, s, 0, off[1])
    BY <2>1, <2>2, <2>3
  <2>5. 1 \in 1..Len(s) /\ 0 + 1 = 1
    BY <2>4 DEF Between
  <2>6. p[0 + 1] = s[1]
    BY <2>4, <2>5 DEF Between
  <2>7. s[1] # Slash
    BY <1>2, <1>3, <1>4, <2>3, PieceSlash
  <2>8. Len(p) \in Nat /\ Len(p) >= 1
    BY <2>4 DEF Between
  <2> QED BY <2>5, <2>6, <2>7, <2>8
<1>7. p[Len(p)] # Slash
  <2>1. PICK s, a : s = TextOf(g[N]) /\ a = off[N - 1]
    OBVIOUS
  <2>2. Between(p, s, a, off[N])
    BY <1>2, <1>3, <1>5, <2>1, PieceLies
  <2>3. off[N] = Len(p)
    BY <1>5 DEF LaidOut
  <2>4. Len(s) \in 1..Len(s) /\ a + Len(s) = Len(p)
    BY <2>2, <2>3 DEF Between
  <2>5. p[a + Len(s)] = s[Len(s)]
    BY <2>2, <2>4 DEF Between
  <2>6. s[Len(s)] # Slash
    BY <1>2, <1>3, <1>4, <2>1, PieceSlash
  <2> QED BY <2>4, <2>5, <2>6
<1>8. Has(p, Slash) <=> \E i \in DOMAIN g : IsSlash(g[i])
  <2>1. PICK h : h = [i \in DOMAIN g |-> TextOf(g[i])]
    OBVIOUS
  <2>2. \A i \in 1..N : TextOf(g[i]) \in Seq(Byte)
    BY <1>3, <1>4, TextOfTyped DEF Text
  <2>3. h \in Seq(Seq(Byte)) /\ DOMAIN h = DOMAIN g /\ \A i \in DOMAIN g : h[i] = TextOf(g[i])
    BY <1>3, <2>1, <2>2
  <2>4. p = FlattenSeq(h)
    BY <1>5, <2>1, Zenon DEF Rendered
  <2>5. Has(p, Slash) <=> \E i \in DOMAIN h : Has(h[i], Slash)
    BY <2>3, <2>4, FlatHas
  <2>6. \A i \in DOMAIN g : Has(TextOf(g[i]), Slash) <=> IsSlash(g[i])
    BY <1>4, PieceSlash
  <2> QED BY <2>3, <2>5, <2>6
<1> QED BY <1>1, <1>2, <1>5, <1>6, <1>7, <1>8

\* A text behind its mark of an anchor.
Fronted(r, p, q, o) ==
    /\ q \in Text /\ o \in 0..1 /\ (o = 1 <=> r.anchored) /\ Len(q) = o + Len(p)
    /\ r.anchored => q[1] = Slash
    /\ \A j \in 1..Len(p) : q[o + j] = p[j]

\* A pattern begins with its anchor, if any, and its glob.
LEMMA FrontIs ==
    ASSUME NEW r \in Written, NEW p \in Text
    PROVE  \E o : Fronted(r, p, (IF r.anchored THEN <<Meta.slash>> ELSE <<>>) \o p, o)
<1>1. r.anchored \in BOOLEAN
  BY DEF Written, RuleType
<1>2. p \in Seq(Byte) /\ Len(p) \in Nat
  BY DEF Text
<1>3. CASE r.anchored
  <2>1. <<Slash>> \in Seq(Byte) /\ Len(<<Slash>>) = 1 /\ <<Slash>>[1] = Slash
    BY Slashes, TupleTyped
  <2>2. PICK x, q : x = <<Slash>> /\ q = x \o p
    OBVIOUS
  <2>3. Joined(Byte, x, p)
    BY <1>2, <2>1, <2>2, JoinIs
  <2>4. /\ q \in Text /\ Len(q) = 1 + Len(p) /\ q[1] = Slash /\ \A j \in 1..Len(p) : q[1 + j] = p[j]
    <3>1. /\ q \in Seq(Byte) /\ Len(q) = Len(x) + Len(p) /\ Len(x) = 1
          /\ \A i \in 1..Len(x) : q[i] = x[i]
          /\ \A i \in 1..Len(p) : q[Len(x) + i] = p[i]
      BY <2>1, <2>2, <2>3, Zenon DEF Joined
    <3>2. 1 \in 1..1
      OBVIOUS
    <3>3. q[1] = x[1]
      BY <3>1, <3>2, Zenon
    <3> QED BY <2>1, <2>2, <3>1, <3>3 DEF Text
  <2>5. Fronted(r, p, q, 1)
    BY <1>2, <1>3, <2>4 DEF Fronted
  <2>6. (IF r.anchored THEN <<Meta.slash>> ELSE <<>>) \o p = q
    BY <1>3, <2>2, Slashes
  <2> QED BY <2>5, <2>6
<1>4. CASE ~r.anchored
  <2>1. (IF r.anchored THEN <<Meta.slash>> ELSE <<>>) \o p = p
    BY <1>2, <1>4
  <2>2. \A j \in 1..Len(p) : p[0 + j] = p[j]
    BY <1>2
  <2>3. Len(p) = 0 + Len(p)
    BY <1>2
  <2>4. Fronted(r, p, p, 0)
    BY <1>4, <2>2, <2>3 DEF Fronted
  <2> QED BY <2>1, <2>4
<1> QED BY <1>3, <1>4

\* Without its leading slash a text is the glob's own.
LEMMA TrimFront ==
    ASSUME NEW r, NEW p \in Text, Len(p) >= 1, p[1] # Slash, NEW q, NEW o, Fronted(r, p, q, o)
    PROVE  TrimStart(q, Slash) = p
<1>1. PICK n \in Nat : n = Len(p) /\ n >= 1
  BY DEF Text
<1>2. q \in Seq(Byte) /\ o \in 0..1 /\ Len(q) = o + n /\ (o = 1 => q[1] = Slash) /\ \A j \in 1..n : q[o + j] = p[j]
  BY <1>1 DEF Fronted, Text
<1>3. q[o + 1] = p[1] /\ o + 1 \in 1..Len(q)
  BY <1>1, <1>2
<1>4. o + 1 \in Others(q, {Slash})
  BY <1>2, <1>3, OthersIs
<1>5. Min(Others(q, {Slash})) = o + 1
  <2>1. PICK x : x = Min(Others(q, {Slash}))
    OBVIOUS
  <2>2. x \in 1..Len(q) /\ q[x] # Slash /\ x <= o + 1
    BY <1>2, <1>4, <2>1, OthersIs
  <2>3. CASE o = 0
    BY <1>1, <1>2, <2>1, <2>2, <2>3
  <2>4. CASE o = 1
    BY <1>1, <1>2, <2>1, <2>2, <2>4
  <2> QED BY <1>2, <2>3, <2>4
<1>6. From(q, o + 1) = p
  <2>1. PICK f : f = From(q, o + 1)
    OBVIOUS
  <2>2. /\ f \in Seq(Byte) /\ Len(f) = Len(q) - (o + 1) + 1
        /\ \A i \in 1..(Len(q) - (o + 1) + 1) : f[i] = q[(o + 1) + i - 1]
    <3>1. PICK a : a = o + 1
      OBVIOUS
    <3>2. a \in Nat /\ 1 <= a /\ a <= Len(q) + 1
      BY <1>1, <1>2, <3>1
    <3>3. /\ From(q, a) \in Seq(Byte) /\ Len(From(q, a)) = Len(q) - a + 1
          /\ \A i \in 1..(Len(q) - a + 1) : From(q, a)[i] = q[a + i - 1]
      <4>1. q \in Seq(Byte)
        BY <1>2
      <4> QED BY <3>2, <4>1, FromIs
    <3> QED BY <2>1, <3>1, <3>3, Zenon
  <2>3. Len(q) - (o + 1) + 1 = n /\ \A i \in 1..n : (o + 1) + i - 1 = o + i
    BY <1>1, <1>2
  <2>4. Len(f) = n /\ \A i \in 1..n : f[i] = q[o + i]
    BY <2>2, <2>3
  <2>5. \A i \in 1..n : f[i] = p[i]
    BY <1>2, <2>4
  <2>6. p \in Seq(Byte)
    BY DEF Text
  <2>7. f = p
    BY <1>1, <2>2, <2>4, <2>5, <2>6, SeqEqual
  <2> QED BY <2>1, <2>7
<1> QED BY <1>4, <1>5, <1>6 DEF TrimStart

\* It has no other bytes than the glob's text.
LEMMA FrontHas ==
    ASSUME NEW r, NEW p \in Text, NEW q, NEW o, Fronted(r, p, q, o), NEW c, c # Slash
    PROVE  Has(q, c) <=> Has(p, c)
<1>1. PICK n \in Nat : n = Len(p) /\ DOMAIN p = 1..n
  BY DEF Text
<1>2. q \in Seq(Byte) /\ o \in 0..1 /\ Len(q) = o + n /\ (o = 1 => q[1] = Slash) /\ \A j \in 1..n : q[o + j] = p[j]
  BY <1>1 DEF Fronted, Text
<1>3. DOMAIN q = 1..(o + n)
  BY <1>2
<1>4. ASSUME NEW x \in 1..(o + n), q[x] = c PROVE \E j \in 1..n : p[j] = c
  <2>1. x # 1 \/ o = 0
    BY <1>2, <1>4
  <2>2. x - o \in 1..n /\ o + (x - o) = x
    BY <1>2, <2>1
  <2> QED BY <1>2, <1>4, <2>2
<1>5. ASSUME NEW j \in 1..n, p[j] = c PROVE \E x \in 1..(o + n) : q[x] = c
  <2>1. o + j \in 1..(o + n)
    BY <1>2
  <2> QED BY <1>2, <1>5, <2>1
<1> QED BY <1>1, <1>3, <1>4, <1>5 DEF Has

\* A text with its mark for directories.
LEMMA MarkedIs ==
    ASSUME NEW q \in Text, q # <<>>, q[Len(q)] # Slash, NEW d \in BOOLEAN
    PROVE  LET w == q \o (IF d THEN <<Meta.slash>> ELSE <<>>)
               dir == w # <<>> /\ w[Len(w)] = Slash
           IN  /\ w \in Text /\ (dir <=> d)
               /\ (IF dir THEN SubSeq(w, 1, Len(w) - 1) ELSE w) = q
<1>1. PICK n \in Nat : n = Len(q) /\ n >= 1 /\ q \in Seq(Byte)
  BY DEF Text
<1>2. CASE d
  <2>1. PICK x, w : x = <<Slash>> /\ w = q \o x
    OBVIOUS
  <2>2. x \in Seq(Byte) /\ Len(x) = 1 /\ x[1] = Slash
    BY <2>1, Slashes, TupleTyped
  <2>3. Joined(Byte, q, x)
    BY <1>1, <2>2, JoinIs
  <2>4. w \in Seq(Byte) /\ Len(w) = n + 1 /\ w[n + 1] = Slash /\ \A i \in 1..n : w[i] = q[i]
    <3>1. /\ w \in Seq(Byte) /\ Len(w) = n + 1 /\ \A i \in 1..n : w[i] = q[i]
          /\ \A i \in 1..1 : w[n + i] = x[i]
      BY <1>1, <2>1, <2>2, <2>3, Zenon DEF Joined
    <3>2. 1 \in 1..1
      OBVIOUS
    <3>3. w[n + 1] = x[1]
      BY <3>1, <3>2, Zenon
    <3> QED BY <2>2, <3>1, <3>3
  <2>5. SubSeq(w, 1, n) = q
    <3>1. /\ SubSeq(w, 1, n) \in Seq(Byte) /\ Len(SubSeq(w, 1, n)) = n - 1 + 1
          /\ \A i \in 1..(n - 1 + 1) : SubSeq(w, 1, n)[i] = w[1 + i - 1]
      BY <1>1, <2>4, ChunkIs
    <3>2. n - 1 + 1 = n /\ \A i \in 1..n : 1 + i - 1 = i
      BY <1>1
    <3>3. \A i \in 1..n : SubSeq(w, 1, n)[i] = q[i]
      BY <2>4, <3>1, <3>2
    <3> QED BY <1>1, <3>1, <3>2, <3>3, SeqEqual
  <2>6. Len(w) - 1 = n /\ w # <<>> /\ w[Len(w)] = Slash
    BY <1>1, <2>4
  <2>7. q \o (IF d THEN <<Meta.slash>> ELSE <<>>) = w
    BY <1>2, <2>1, Slashes
  <2> QED BY <1>2, <2>4, <2>5, <2>6, <2>7 DEF Text
<1>3. CASE ~d
  <2>1. q \o (IF d THEN <<Meta.slash>> ELSE <<>>) = q
    BY <1>1, <1>3
  <2> QED BY <1>3, <2>1
<1> QED BY <1>2, <1>3

\* A rule is stored as its glob, anchor, kind and slashes say.
LEMMA BuildsGlob ==
    ASSUME NEW r \in Written, NEW inc \in BOOLEAN
    PROVE  LET b == build_rule(Pattern(r), inc)
               p == Rendered(r.glob)
           IN  /\ b.pattern = p /\ b.include = inc /\ ~b.clear
               /\ b.dir <=> r.dironly
               /\ b.abs <=> r.anchored
               /\ b.wild <=> Has(p, Star) \/ Has(p, Question) \/ Has(p, Open)
               /\ b.slashes > 0 <=> \E i \in DOMAIN r.glob : IsSlash(r.glob[i])
<1>1. PICK p : p = Rendered(r.glob)
  OBVIOUS
<1>2. /\ p \in Text /\ Len(p) \in Nat /\ Len(p) >= 1 /\ p[1] # Slash /\ p[Len(p)] # Slash
      /\ Has(p, Slash) <=> \E i \in DOMAIN r.glob : IsSlash(r.glob[i])
  BY <1>1, RenderedIs
<1>3. PICK q, o : q = (IF r.anchored THEN <<Meta.slash>> ELSE <<>>) \o p /\ Fronted(r, p, q, o)
  BY <1>2, FrontIs
<1>4. /\ q \in Text /\ o \in 0..1 /\ (o = 1 <=> r.anchored) /\ Len(q) = o + Len(p)
      /\ r.anchored => q[1] = Slash
      /\ \A j \in 1..Len(p) : q[o + j] = p[j]
  BY <1>3 DEF Fronted
<1>5. q # <<>> /\ q[Len(q)] # Slash
  <2>1. Len(p) \in 1..Len(p) /\ Len(q) >= 1
    BY <1>2, <1>4
  <2> QED BY <1>2, <1>4, <2>1
<1>6. q[1] = Slash <=> r.anchored
  <2>1. CASE r.anchored
    BY <1>4, <2>1
  <2>2. CASE ~r.anchored
    <3>1. o = 0 /\ 1 \in 1..Len(p) /\ 0 + 1 = 1
      BY <1>2, <1>4, <2>2
    <3>2. q[0 + 1] = p[1]
      BY <1>4, <3>1
    <3> QED BY <1>2, <2>2, <3>1, <3>2
  <2> QED BY <2>1, <2>2
<1>17. PICK w : w = q \o (IF r.dironly THEN <<Meta.slash>> ELSE <<>>)
  OBVIOUS
<1> DEFINE dir == w # <<>> /\ w[Len(w)] = Slash
           pat == IF dir THEN SubSeq(w, 1, Len(w) - 1) ELSE w
<1>7. Pattern(r) = w
  BY <1>1, <1>3, <1>17, Zenon DEF Pattern
<1>8. r.dironly \in BOOLEAN
  BY DEF Written, RuleType
<1>9. w \in Text /\ (dir <=> r.dironly) /\ pat = q
  BY <1>4, <1>5, <1>8, <1>17, MarkedIs
<1>10. PICK b : b = build_rule(w, inc)
  OBVIOUS
<1>11. /\ b.pattern = TrimStart(pat, Slash)
       /\ b.include = inc /\ ~b.clear /\ b.dir = dir
       /\ b.abs = (pat # <<>> /\ pat[1] = Slash)
       /\ b.wild = (Has(pat, Star) \/ Has(pat, Question) \/ Has(pat, Open))
       /\ b.slashes = Cardinality({i \in DOMAIN b.pattern : b.pattern[i] = Slash})
  <2>1. w \in Text
    BY <1>9
  <2>2. LET c == build_rule(w, inc)
        IN  /\ c.pattern = TrimStart(pat, Slash)
            /\ c.include = inc /\ ~c.clear /\ c.dir = dir
            /\ c.abs = (pat # <<>> /\ pat[1] = Slash)
            /\ c.wild = (Has(pat, Star) \/ Has(pat, Question) \/ Has(pat, Open))
            /\ c.slashes = Cardinality({i \in DOMAIN c.pattern : c.pattern[i] = Slash})
    BY <2>1, BuiltIs
  <2> HIDE DEF dir, pat
  <2> QED BY <1>10, <2>2, Zenon
<1> HIDE DEF dir, pat
<1>12. b.pattern = p
  BY <1>2, <1>3, <1>9, <1>11, TrimFront
<1>13. b.dir <=> r.dironly
  BY <1>9, <1>11
<1>14. b.abs <=> r.anchored
  BY <1>5, <1>6, <1>9, <1>11
<1>15. b.wild <=> Has(p, Star) \/ Has(p, Question) \/ Has(p, Open)
  <2>1. Star # Slash /\ Question # Slash /\ Open # Slash
    BY Slashes
  <2>2. /\ Has(q, Star) <=> Has(p, Star)
        /\ Has(q, Question) <=> Has(p, Question)
        /\ Has(q, Open) <=> Has(p, Open)
    BY <1>2, <1>3, <2>1, FrontHas
  <2> QED BY <1>9, <1>11, <2>2
<1>16. b.slashes > 0 <=> Has(p, Slash)
  <2>1. PICK S : S = {i \in DOMAIN p : p[i] = Slash}
    OBVIOUS
  <2>2. PICK n \in Nat : n = Len(p) /\ DOMAIN p = 1..n
    BY <1>2 DEF Text
  <2>3. IsFiniteSet(1..n) /\ S \subseteq 1..n
    BY <2>1, <2>2, FS_Interval
  <2>4. IsFiniteSet(S)
    BY <2>3, FS_Subset
  <2>5. Cardinality(S) \in Nat /\ (Cardinality(S) = 0 <=> S = {})
    BY <2>4, FS_CardinalityType, FS_EmptySet
  <2>6. S = {} <=> ~Has(p, Slash)
    BY <2>1 DEF Has
  <2>7. b.slashes = Cardinality(S)
    BY <1>11, <1>12, <2>1
  <2> QED BY <2>5, <2>6, <2>7
<1> QED BY <1>1, <1>2, <1>7, <1>10, <1>11, <1>12, <1>13, <1>14, <1>15, <1>16

\* The matcher's last component is the last component.
LEMMA ComponentIs ==
    ASSUME NEW t \in Text
    PROVE  Basename(t) = Component(t) /\ Basename(t) \in Text
<1>1. PICK n \in Nat : n = Len(t) /\ DOMAIN t = 1..n /\ t \in Seq(Byte)
  BY DEF Text
<1> DEFINE A == {i \in DOMAIN t : t[i] = Slash}
           B == {i \in 0..Len(t) : i = 0 \/ t[i] = Meta.slash}
           last == CHOOSE i \in B : \A j \in B : j <= i
<1>2. Component(t) = SubSeq(t, last + 1, Len(t))
  BY Zenon DEF Component
<1>3. B = {0} \cup A /\ A \subseteq 1..n
  BY <1>1, Slashes
<1>4. CASE Has(t, Slash)
  <2>1. A # {} /\ A \in SUBSET (0..n)
    BY <1>3, <1>4 DEF Has
  <2>2. Basename(t) = From(t, Max(A) + 1)
    BY <1>4, Zenon DEF Basename
  <2> HIDE DEF A
  <2>3. PICK x : x = Max(A) /\ x \in A /\ \A y \in A : x >= y
    BY <2>1, MaxIs
  <2>4. x \in 1..n
    BY <1>3, <2>3
  <2>5. x \in B /\ \A j \in B : j <= x
    BY <1>3, <2>3, <2>4
  <2> HIDE DEF B
  <2>6. last \in B /\ \A j \in B : j <= last
    BY <2>5
  <2>7. last = x
    <3>1. last <= x /\ x <= last
      BY <2>5, <2>6
    <3>2. last \in Int
      <4>1. last \in {0} \cup A
        BY <1>3, <2>6
      <4> HIDE DEF last
      <4> QED BY <1>3, <4>1
    <3> HIDE DEF last
    <3> QED BY <2>4, <3>1, <3>2
  <2> HIDE DEF last
  <2>8. Basename(t) = Component(t)
    BY <1>2, <2>2, <2>3, <2>7 DEF From
  <2>9. From(t, x + 1) \in Seq(Byte)
    <3>1. PICK a : a = x + 1
      OBVIOUS
    <3>2. a \in Nat /\ 1 <= a /\ a <= Len(t) + 1 /\ t \in Seq(Byte)
      BY <1>1, <2>4, <3>1
    <3>3. From(t, a) \in Seq(Byte)
      BY <3>2, FromIs
    <3> QED BY <3>1, <3>3
  <2> QED BY <2>2, <2>3, <2>8, <2>9 DEF Text
<1>5. CASE ~Has(t, Slash)
  <2>1. A = {}
    BY <1>5 DEF Has
  <2>2. B = {0}
    BY <1>3, <2>1
  <2> HIDE DEF A, B
  <2>3. last \in B
    <3>1. 0 \in B /\ \A j \in B : j <= 0
      BY <2>2
    <3> QED BY <3>1
  <2>4. last = 0
    BY <2>2, <2>3
  <2> HIDE DEF last
  <2>5. Component(t) = SubSeq(t, 1, Len(t))
    <3>1. last + 1 = 1
      BY <2>4
    <3> QED BY <1>2, <3>1, Zenon
  <2>6. SubSeq(t, 1, Len(t)) = t
    BY <1>1, Whole
  <2> QED BY <1>5, <2>5, <2>6 DEF Basename
<1> QED BY <1>4, <1>5

\* The rule that is stored matches what the rule that is written is about.
LEMMA MatchesAbout ==
    ASSUME NEW r \in Written, NEW inc \in BOOLEAN, NEW name \in Probes, NEW is_dir \in BOOLEAN
    PROVE  matches(build_rule(Pattern(r), inc), name, is_dir) <=> About(r, name, is_dir)
<1>1. PICK b, p, g : b = build_rule(Pattern(r), inc) /\ p = Rendered(r.glob) /\ g = r.glob
  OBVIOUS
<1>2. /\ b.pattern = p
      /\ b.dir <=> r.dironly
      /\ b.abs <=> r.anchored
      /\ b.wild <=> Has(p, Star) \/ Has(p, Question) \/ Has(p, Open)
      /\ b.slashes > 0 <=> \E i \in DOMAIN g : IsSlash(g[i])
  BY <1>1, BuildsGlob
<1>3. g \in Seq(PieceType) /\ g # <<>> /\ Separate(g) /\ p \in Text
  BY <1>1, RenderedIs
<1>4. PICK whole : whole = (r.anchored \/ \E i \in DOMAIN g : IsSlash(g[i]))
  OBVIOUS
<1>5. PICK target : target = (IF b.slashes > 0 \/ b.abs THEN name ELSE Basename(name))
  OBVIOUS
<1>6. name \in Text
  BY ProbesAssumption DEF Text
<1>7. target = (IF whole THEN name ELSE Component(name)) /\ target \in Text
  BY <1>2, <1>4, <1>5, <1>6, ComponentIs
<1>8. matches(b, name, is_dir) <=>
        (b.dir => is_dir) /\ (IF b.wild THEN wildmatch(p, target) ELSE p = target)
  BY <1>2, <1>5, Zenon DEF matches
<1>9. About(r, name, is_dir) <=> (r.dironly => is_dir) /\ Means(g, target)
  BY <1>1, <1>4, <1>7, Zenon DEF About
<1>10. wildmatch(p, target) <=> Means(g, target)
  BY <1>1, <1>3, <1>7, WildReads
<1>11. CASE b.wild
  BY <1>1, <1>2, <1>8, <1>9, <1>10, <1>11
<1>12. CASE ~b.wild
  <2>1. wildmatch(p, target) <=> p = target
    BY <1>2, <1>3, <1>7, <1>12, LiteralReads
  <2> QED BY <1>1, <1>2, <1>8, <1>9, <1>10, <1>12, <2>1
<1> QED BY <1>11, <1>12

-----------------------------------------------------------------------------
(* Lists of rules.                                                         *)

\* A rule as it is to be stored, and a list of them.
Built(r) == build_rule(Pattern(r), r.include)
AsWritten(stored, rules) ==
    /\ stored \in Seq(Stored) /\ rules \in Seq(Written)
    /\ Len(stored) = Len(rules)
    /\ \A i \in 1..Len(rules) : stored[i] = Built(rules[i])

\* A rule of an option, as it is assumed to be.
GivenRules(via) ==
    {r \in Written :
        /\ via = "include" => r.include
        /\ via \in {"exclude", "cvs"} => ~r.include
        /\ via \in {"filter", "include_from", "exclude_from"} => Trim(Pattern(r)) = Pattern(r)}

\* A rule that can be read is built from its pattern.
LEMMA BuiltTyped == ASSUME NEW r \in Written PROVE Built(r) \in Stored /\ r.include \in BOOLEAN
<1>1. r.include \in BOOLEAN
  BY DEF Written, RuleType
<1>2. Pattern(r) \in Text
  BY PatternTyped
<1>3. CASE r.include = TRUE
  BY <1>2, <1>3, Zenon DEF Stored, Built
<1>4. CASE r.include = FALSE
  BY <1>2, <1>4, Zenon DEF Stored, Built
<1> QED BY <1>1, <1>3, <1>4

\* The rules given by an option are such rules.
LEMMA GivenTyped == ASSUME case \in Cases, NEW via PROVE GivenBy(case.rules, via) \in Seq(GivenRules(via))
<1>0. PICK rules : rules = case.rules
  OBVIOUS
<1>1. PICK n \in Nat : /\ rules = case.rules /\ n = Len(rules) /\ DOMAIN rules = 1..n
                      /\ \A i \in 1..n : rules[i] \in Written
  <2>1. case.rules \in Seq(RuleType) /\ \A i \in DOMAIN case.rules : Readable(case.rules[i])
    BY RulesAssumption
  <2>2. rules \in Seq(RuleType)
    BY <1>0, <2>1
  <2>3. PICK n \in Nat : n = Len(rules) /\ DOMAIN rules = 1..n /\ \A i \in 1..n : rules[i] \in RuleType
    BY <2>2
  <2> QED BY <1>0, <2>1, <2>3 DEF Written
<1>2. ASSUME NEW i \in 1..n, rules[i].via = via PROVE rules[i] \in GivenRules(via)
  <2>1. /\ rules[i].via = "include" => rules[i].include
        /\ rules[i].via \in {"exclude", "cvs"} => ~rules[i].include
        /\ rules[i].via \in {"filter", "include_from", "exclude_from"} =>
             Trim(Pattern(rules[i])) = Pattern(rules[i])
    BY <1>1, RulesAssumption, Zenon
  <2> QED BY <1>1, <1>2, <2>1 DEF GivenRules
<1> DEFINE P == GivenRules(via)
<1>3. PICK h : h = [i \in DOMAIN rules |-> IF rules[i].via = via THEN <<rules[i]>> ELSE <<>>]
  OBVIOUS
<1>4. h \in Seq(Seq(P)) /\ Len(h) = n
  <2> HIDE DEF P
  <2>1. ASSUME NEW i \in 1..n PROVE (IF rules[i].via = via THEN <<rules[i]>> ELSE <<>>) \in Seq(P)
    <3>1. CASE rules[i].via = via
      <4>1. rules[i] \in P
        BY <1>2, <3>1 DEF P
      <4> QED BY <3>1, <4>1
    <3>2. CASE rules[i].via # via
      BY <3>2
    <3> QED BY <3>1, <3>2
  <2> QED BY <1>1, <1>3, <2>1
<1>5. FlattenSeq(h) \in Seq(P)
  BY <1>4, FlatAt
<1> QED BY <1>1, <1>3, <1>5 DEF GivenBy

\* How the rules of an option are written.
LEMMA TextsAre ==
    ASSUME case \in Cases, NEW via
    PROVE  LET mine == GivenBy(case.rules, via)
           IN  /\ Texts(via) \in Seq(Text) /\ Len(Texts(via)) = Len(mine)
               /\ \A i \in 1..Len(mine) :
                    Texts(via)[i] = (IF via \in {"include", "exclude", "cvs"} THEN <<>>
                                     ELSE <<IF mine[i].include THEN Plus ELSE Dash, Space>>) \o Pattern(mine[i])
<1>1. PICK mine : mine = GivenBy(case.rules, via)
  OBVIOUS
<1>2. PICK m \in Nat : m = Len(mine) /\ DOMAIN mine = 1..m
  BY <1>1, GivenTyped
<1> DEFINE sign(r) == IF via \in {"include", "exclude", "cvs"} THEN <<>>
                      ELSE <<IF r.include THEN Plus ELSE Dash, Space>>
<1>3. Texts(via) = [i \in DOMAIN mine |-> sign(mine[i]) \o Pattern(mine[i])]
  BY <1>1, Zenon DEF Texts
<1>4. Texts(via) \in Seq(Text)
  BY TextsTyped
<1>5. DOMAIN Texts(via) = 1..m /\ \A i \in 1..m : Texts(via)[i] = sign(mine[i]) \o Pattern(mine[i])
  BY <1>2, <1>3
<1>6. Len(Texts(via)) = m
  BY <1>4, <1>5
<1> QED BY <1>1, <1>2, <1>4, <1>5, <1>6

\* What is parsed of the texts of an option are its rules.
LEMMA ParsedGiven ==
    ASSUME case \in Cases, NEW via \in {"filter", "include_from", "exclude_from"}
    PROVE  AsWritten(ParseAll(Texts(via)), GivenBy(case.rules, via))
<1>1. PICK mine, texts : mine = GivenBy(case.rules, via) /\ texts = Texts(via)
  OBVIOUS
<1>2. mine \in Seq(GivenRules(via))
  BY <1>1, GivenTyped
<1>3. PICK m \in Nat : m = Len(mine) /\ \A i \in 1..m : mine[i] \in GivenRules(via)
  BY <1>2
<1>4. /\ texts \in Seq(Text) /\ Len(texts) = m
      /\ \A i \in 1..m : texts[i] = <<IF mine[i].include THEN Plus ELSE Dash, Space>> \o Pattern(mine[i])
  BY <1>1, <1>3, TextsAre
<1>5. ASSUME NEW i \in 1..m PROVE parse_rule(texts[i]) = <<Built(mine[i])>> /\ Built(mine[i]) \in Stored
  <2>1. mine[i] \in Written /\ Trim(Pattern(mine[i])) = Pattern(mine[i])
    BY <1>3 DEF GivenRules
  <2>2. PICK p, inc : p = Pattern(mine[i]) /\ inc = mine[i].include
    OBVIOUS
  <2>3. p \in Text /\ inc \in BOOLEAN /\ Trim(p) = p
    BY <2>1, <2>2, PatternTyped, BuiltTyped
  <2>4. parse_rule(<<IF inc THEN Plus ELSE Dash, Space>> \o p) = <<build_rule(p, inc)>>
    BY <2>3, ParseSigned
  <2> QED BY <1>4, <2>1, <2>2, <2>4, BuiltTyped DEF Built
<1>6. PICK h : h = [i \in DOMAIN texts |-> parse_rule(texts[i])]
  OBVIOUS
<1>7. DOMAIN texts = 1..m
  BY <1>4
<1>8. \A i \in 1..m : h[i] = <<Built(mine[i])>> /\ <<Built(mine[i])>> \in Seq(Stored) /\ Len(h[i]) = 1
  BY <1>5, <1>6, <1>7
<1>9. h \in Seq(Seq(Stored)) /\ Len(h) = m
  <2>1. h = [i \in 1..m |-> h[i]]
    BY <1>6, <1>7
  <2>2. \A i \in 1..m : h[i] \in Seq(Stored)
    BY <1>8
  <2> QED BY <2>1, <2>2
<1>10. /\ FlattenSeq(h) \in Seq(Stored) /\ Len(FlattenSeq(h)) = m
       /\ \A i \in 1..m : FlattenSeq(h)[i] = h[i][1]
  BY <1>8, <1>9, FlatSingles
<1>11. ParseAll(texts) = FlattenSeq(h)
  BY <1>6, Zenon DEF ParseAll
<1>12. mine \in Seq(Written)
  <2>1. \A i \in 1..m : mine[i] \in Written
    BY <1>3 DEF GivenRules
  <2> QED BY <1>2, <1>3, <2>1
<1>13. \A i \in 1..m : FlattenSeq(h)[i] = Built(mine[i])
  BY <1>8, <1>10
<1> QED BY <1>1, <1>3, <1>10, <1>11, <1>12, <1>13 DEF AsWritten

\* Nor do --include, --exclude and --cvs-exclude store anything else.
LEMMA BuiltGiven ==
    ASSUME case \in Cases, NEW via \in {"include", "exclude", "cvs"}
    PROVE  AsWritten([i \in DOMAIN Texts(via) |-> build_rule(Texts(via)[i], via = "include")],
                     GivenBy(case.rules, via))
<1>1. PICK mine, texts, inc : mine = GivenBy(case.rules, via) /\ texts = Texts(via) /\ inc = (via = "include")
  OBVIOUS
<1>2. mine \in Seq(GivenRules(via))
  BY <1>1, GivenTyped
<1>3. PICK m \in Nat : m = Len(mine) /\ \A i \in 1..m : mine[i] \in GivenRules(via)
  BY <1>2
<1>4. texts \in Seq(Text) /\ Len(texts) = m /\ \A i \in 1..m : texts[i] = <<>> \o Pattern(mine[i])
  BY <1>1, <1>3, TextsAre
<1>5. ASSUME NEW i \in 1..m
      PROVE  build_rule(texts[i], inc) = Built(mine[i]) /\ Built(mine[i]) \in Stored /\ mine[i] \in Written
  <2>1. mine[i] \in Written /\ (via = "include" => mine[i].include)
        /\ (via \in {"exclude", "cvs"} => ~mine[i].include)
    BY <1>3 DEF GivenRules
  <2>2. Pattern(mine[i]) \in Text /\ mine[i].include \in BOOLEAN
    BY <2>1, PatternTyped, BuiltTyped
  <2>3. mine[i].include = inc
    BY <1>1, <2>1, <2>2
  <2>4. texts[i] = Pattern(mine[i])
    BY <1>4, <2>2 DEF Text
  <2> QED BY <2>1, <2>3, <2>4, BuiltTyped DEF Built
<1>6. PICK s : s = [i \in DOMAIN texts |-> build_rule(texts[i], inc)]
  OBVIOUS
<1>7. s \in Seq(Stored) /\ Len(s) = m /\ \A i \in 1..m : s[i] = Built(mine[i])
  <2>1. DOMAIN texts = 1..m
    BY <1>4
  <2> QED BY <1>5, <1>6, <2>1
<1>8. mine \in Seq(Written)
  BY <1>2, <1>3, <1>5
<1> QED BY <1>1, <1>3, <1>6, <1>7, <1>8 DEF AsWritten

\* Lists one behind the other are stored as they are written.
LEMMA AsWrittenJoin ==
    ASSUME NEW a, NEW x, AsWritten(a, x), NEW b, NEW y, AsWritten(b, y)
    PROVE  AsWritten(a \o b, x \o y)
<1>1. PICK m \in Nat, n \in Nat : m = Len(x) /\ n = Len(y)
  BY DEF AsWritten
<1>2. /\ a \in Seq(Stored) /\ x \in Seq(Written) /\ Len(a) = m /\ \A i \in 1..m : a[i] = Built(x[i])
      /\ b \in Seq(Stored) /\ y \in Seq(Written) /\ Len(b) = n /\ \A i \in 1..n : b[i] = Built(y[i])
  BY <1>1 DEF AsWritten
<1>3. PICK s, z : s = a \o b /\ z = x \o y
  OBVIOUS
<1>4. /\ s \in Seq(Stored) /\ Len(s) = m + n
      /\ \A i \in 1..m : s[i] = a[i]
      /\ \A i \in 1..n : s[m + i] = b[i]
  <2>1. Joined(Stored, a, b)
    BY <1>2, JoinIs
  <2> QED BY <1>2, <1>3, <2>1, Zenon DEF Joined
<1>5. /\ z \in Seq(Written) /\ Len(z) = m + n
      /\ \A i \in 1..m : z[i] = x[i]
      /\ \A i \in 1..n : z[m + i] = y[i]
  <2>1. Joined(Written, x, y)
    BY <1>2, JoinIs
  <2> QED BY <1>1, <1>2, <1>3, <2>1, Zenon DEF Joined
<1>6. ASSUME NEW i \in 1..(m + n) PROVE s[i] = Built(z[i])
  <2>1. CASE i <= m
    <3>1. i \in 1..m
      BY <2>1
    <3> QED BY <1>2, <1>4, <1>5, <3>1
  <2>2. CASE i > m
    <3>1. PICK j \in 1..n : i = m + j
      <4>1. i - m \in 1..n /\ i = m + (i - m)
        BY <2>2
      <4> QED BY <4>1
    <3> QED BY <1>2, <1>4, <1>5, <3>1
  <2> QED BY <2>1, <2>2
<1>7. Len(z) = m + n
  BY <1>5
<1> QED BY <1>3, <1>4, <1>5, <1>6, <1>7 DEF AsWritten

\* The client's rules are the rules it was given, in the order of their options.
LEMMA ClientRulesAre == ASSUME case \in Cases, case.readable PROVE AsWritten(ClientRules, InOrder(case.rules))
<1> DEFINE o == [filter |-> Texts("filter"), include_from |-> Texts("include_from"),
                 exclude_from |-> Texts("exclude_from"), include |-> Texts("include"),
                 exclude |-> Texts("exclude"), cvs |-> Texts("cvs")]
           stored(via, inc) == [i \in DOMAIN Texts(via) |-> build_rule(Texts(via)[i], inc)]
           by(via) == GivenBy(case.rules, via)
<1>1. ClientRules = from_options(o)
  BY Zenon DEF ClientRules
<1>2. /\ o.filter = Texts("filter") /\ o.include_from = Texts("include_from")
      /\ o.exclude_from = Texts("exclude_from") /\ o.include = Texts("include")
      /\ o.exclude = Texts("exclude") /\ o.cvs = Texts("cvs")
  OBVIOUS
<1> HIDE DEF o
<1>3. from_options(o) =
        ParseAll(Texts("filter")) \o ParseAll(Texts("include_from")) \o ParseAll(Texts("exclude_from"))
        \o stored("include", TRUE) \o stored("exclude", FALSE) \o stored("cvs", FALSE)
  BY <1>2, Zenon DEF from_options
<1>4. /\ AsWritten(ParseAll(Texts("filter")), by("filter"))
      /\ AsWritten(ParseAll(Texts("include_from")), by("include_from"))
      /\ AsWritten(ParseAll(Texts("exclude_from")), by("exclude_from"))
  <2>1. \A via \in {"filter", "include_from", "exclude_from"} : AsWritten(ParseAll(Texts(via)), by(via))
    BY ParsedGiven
  <2> HIDE DEF by
  <2> QED BY <2>1
<1>5. /\ AsWritten(stored("include", TRUE), by("include"))
      /\ AsWritten(stored("exclude", FALSE), by("exclude"))
      /\ AsWritten(stored("cvs", FALSE), by("cvs"))
  <2>1. \A via \in {"include", "exclude", "cvs"} : AsWritten(stored(via, via = "include"), by(via))
    BY BuiltGiven
  <2> HIDE DEF by, stored
  <2>2. ("include" = "include") = TRUE /\ ("exclude" = "include") = FALSE /\ ("cvs" = "include") = FALSE
    OBVIOUS
  <2>3. /\ AsWritten(stored("include", "include" = "include"), by("include"))
        /\ AsWritten(stored("exclude", "exclude" = "include"), by("exclude"))
        /\ AsWritten(stored("cvs", "cvs" = "include"), by("cvs"))
    BY <2>1
  <2> QED BY <2>2, <2>3, Zenon
<1> HIDE DEF stored
<1>6. InOrder(case.rules) =
        by("filter") \o by("include_from") \o by("exclude_from") \o by("include") \o by("exclude") \o by("cvs")
  BY Zenon DEF InOrder
<1> HIDE DEF by
<1>7. AsWritten(ParseAll(Texts("filter")) \o ParseAll(Texts("include_from")), by("filter") \o by("include_from"))
  BY <1>4, AsWrittenJoin
<1>8. AsWritten(ParseAll(Texts("filter")) \o ParseAll(Texts("include_from")) \o ParseAll(Texts("exclude_from")),
                by("filter") \o by("include_from") \o by("exclude_from"))
  BY <1>4, <1>7, AsWrittenJoin
<1>9. AsWritten(ParseAll(Texts("filter")) \o ParseAll(Texts("include_from")) \o ParseAll(Texts("exclude_from"))
                \o stored("include", TRUE),
                by("filter") \o by("include_from") \o by("exclude_from") \o by("include"))
  BY <1>5, <1>8, AsWrittenJoin
<1>10. AsWritten(ParseAll(Texts("filter")) \o ParseAll(Texts("include_from")) \o ParseAll(Texts("exclude_from"))
                 \o stored("include", TRUE) \o stored("exclude", FALSE),
                 by("filter") \o by("include_from") \o by("exclude_from") \o by("include") \o by("exclude"))
  BY <1>5, <1>9, AsWrittenJoin
<1>11. AsWritten(ParseAll(Texts("filter")) \o ParseAll(Texts("include_from")) \o ParseAll(Texts("exclude_from"))
                 \o stored("include", TRUE) \o stored("exclude", FALSE) \o stored("cvs", FALSE),
                 by("filter") \o by("include_from") \o by("exclude_from") \o by("include") \o by("exclude")
                 \o by("cvs"))
  BY <1>5, <1>10, AsWrittenJoin
<1> QED BY <1>1, <1>3, <1>6, <1>11, Zenon

\* Rules that are stored as they are written decide as they are meant.
LEMMA DecideAsMeant ==
    ASSUME NEW stored, NEW rules, AsWritten(stored, rules), NEW name \in Probes, NEW is_dir \in BOOLEAN
    PROVE  is_excluded(stored, name, is_dir) <=> Decided(rules, name, is_dir)
<1>1. PICK n \in Nat : n = Len(rules)
  BY DEF AsWritten
<1>2. /\ stored \in Seq(Stored) /\ rules \in Seq(Written) /\ Len(stored) = n
      /\ \A i \in 1..n : stored[i] = Built(rules[i])
  BY <1>1 DEF AsWritten
<1>3. DOMAIN stored = 1..n /\ DOMAIN rules = 1..n /\ \A i \in 1..n : rules[i] \in Written
  BY <1>1, <1>2
<1>4. ASSUME NEW i \in 1..n
      PROVE  /\ matches(stored[i], name, is_dir) <=> About(rules[i], name, is_dir)
             /\ ~stored[i].clear /\ stored[i].include = rules[i].include
  <2>1. PICK r : r = rules[i] /\ r \in Written /\ stored[i] = Built(r)
    BY <1>2, <1>3
  <2>2. r.include \in BOOLEAN
    BY <2>1, BuiltTyped
  <2>3. matches(Built(r), name, is_dir) <=> About(r, name, is_dir)
    BY <2>1, <2>2, MatchesAbout DEF Built
  <2>4. ~Built(r).clear /\ Built(r).include = r.include
    BY <2>1, <2>2, BuildsGlob DEF Built
  <2> QED BY <2>1, <2>3, <2>4, Zenon
<1>5. PICK hits : hits = {i \in DOMAIN stored : ~stored[i].clear /\ matches(stored[i], name, is_dir)}
  OBVIOUS
<1>6. hits = {i \in 1..n : About(rules[i], name, is_dir)}
  <2>1. hits = {i \in 1..n : ~stored[i].clear /\ matches(stored[i], name, is_dir)}
    BY <1>3, <1>5, Zenon
  <2> QED BY <1>4, <2>1
<1>7. is_excluded(stored, name, is_dir) <=> hits # {} /\ ~stored[Min(hits)].include
  BY <1>5, Zenon DEF is_excluded
<1>8. Decided(rules, name, is_dir) <=>
        \E i \in 1..n : /\ ~rules[i].include /\ About(rules[i], name, is_dir)
                        /\ \A j \in 1..(i - 1) : ~About(rules[j], name, is_dir)
  BY <1>3, Zenon DEF Decided
<1>9. ASSUME hits # {}, ~stored[Min(hits)].include PROVE Decided(rules, name, is_dir)
  <2>1. PICK k : k = Min(hits) /\ k \in hits /\ \A y \in hits : k <= y
    <3>1. hits \in SUBSET Nat
      BY <1>6
    <3> QED BY <1>9, <3>1, MinIs
  <2>2. k \in 1..n /\ About(rules[k], name, is_dir)
    BY <1>6, <2>1
  <2>3. ~rules[k].include
    BY <1>4, <1>9, <2>1, <2>2
  <2>4. ASSUME NEW j \in 1..(k - 1) PROVE ~About(rules[j], name, is_dir)
    <3>1. j \in 1..n /\ j < k
      BY <2>2
    <3>2. j \notin hits
      BY <2>1, <2>2, <3>1
    <3> QED BY <1>6, <3>1, <3>2
  <2> QED BY <1>8, <2>2, <2>3, <2>4
<1>10. ASSUME Decided(rules, name, is_dir) PROVE hits # {} /\ ~stored[Min(hits)].include
  <2>1. PICK i \in 1..n : /\ ~rules[i].include /\ About(rules[i], name, is_dir)
                          /\ \A j \in 1..(i - 1) : ~About(rules[j], name, is_dir)
    BY <1>8, <1>10
  <2>2. i \in hits
    BY <1>6, <2>1
  <2>3. PICK k : k = Min(hits) /\ k \in hits /\ \A y \in hits : k <= y
    <3>1. hits \in SUBSET Nat
      BY <1>6
    <3> QED BY <2>2, <3>1, MinIs
  <2>4. k \in 1..n /\ About(rules[k], name, is_dir) /\ k <= i
    BY <1>6, <2>2, <2>3
  <2>5. k = i
    <3> SUFFICES ASSUME k # i PROVE FALSE
      OBVIOUS
    <3>1. k \in 1..(i - 1)
      BY <2>4
    <3> QED BY <2>1, <2>4, <3>1
  <2> QED BY <1>4, <2>1, <2>2, <2>3, <2>5
<1> QED BY <1>7, <1>9, <1>10, Zenon

\* Whatever rules the client is given, by whichever options, the list that from_options
\* builds and wildmatch decide about every name as the rules mean it: by the first that
\* is about the name, with stars within and across directories, classes, anchors, names
\* of directories, last components and whole names.
THEOREM RulesMeantHolds == Spec => []RulesMeant
<1>1. HandshakeInv /\ RulesInv /\ [Next]_vars => RulesInv'
  BY RulesStep
<1>2. Init => RulesInv
  BY RulesInit
<1>3. HandshakeInv /\ RulesInv => RulesMeant
  <2> SUFFICES ASSUME HandshakeInv, RulesInv, cpc = "rules", case.readable,
                      NEW name \in Probes, NEW is_dir \in BOOLEAN
               PROVE  is_excluded(crules, name, is_dir) <=> Decided(InOrder(case.rules), name, is_dir)
    BY Zenon DEF RulesMeant
  <2>1. case \in Cases
    BY DEF HandshakeInv
  <2>2. AsWritten(crules, InOrder(case.rules))
    BY <2>1, ClientRulesAre DEF RulesInv
  <2> QED BY <2>2, DecideAsMeant, Zenon
<1> QED BY <1>1, <1>2, <1>3, HandshakeInvHolds, PTL DEF Spec

=============================================================================
