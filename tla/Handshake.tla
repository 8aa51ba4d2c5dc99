----------------------------- MODULE Handshake -----------------------------
(***************************************************************************)
(* What a client and a server say to one another before the first file is  *)
(* asked for: the version exchange over a remote shell, or the greeting,   *)
(* module and arguments of an rsync:// daemon; the compatibility flags,    *)
(* algorithm lists and seed; the switch to multiplexed streams; filter     *)
(* rules and file list (main.rs, daemon.rs, transport/daemon.rs), and how  *)
(* the client's options and filter rules reach the server (options.rs,     *)
(* options_server.rs, Filter).                                             *)
(*                                                                         *)
(* The streams carry items in order.  Everything a program writes before   *)
(* it reads again is flushed by then, so it is one step.  An item is plain *)
(* or framed; a program that finds another item than the one it reads for, *)
(* or other framing, has gone astray and nothing more of it is modelled.   *)
(***************************************************************************)
EXTENDS Integers, SequencesExt, Filter, Glob

CONSTANTS
    Cases,    \* the situations looked at
    Probes,   \* names the filter rules are tried on
    CanDrop   \* the connection may break

MIN_PROTOCOL_VERSION == 20
MAX_PROTOCOL_VERSION == 40

\* Options that a bundle of letters, or a long argument, takes to the server.
Archived == {"recursive", "times", "group", "owner"}
Lettered == Archived \cup {"archive", "checksum", "update", "hard_links", "compress",
                           "relative", "prune_empty_dirs", "backup"}
Worded   == {"delete", "ignore_existing"}

\* A situation: a daemon or a remote shell; a push or a pull; the client's
\* options and filter rules, and whether the files with rules can be read; what
\* the daemon has under the name of the module; the protocol versions the two
\* programs know.
ASSUME HandshakeAssumption ==
    /\ CanDrop \in BOOLEAN
    /\ \A x \in Cases :
         /\ x.daemon \in BOOLEAN /\ x.push \in BOOLEAN
         /\ x.opts \subseteq Lettered \cup Worded
         /\ x.module \in {"ok", "read_only", "unknown", "list"}
         /\ x.cver \in Nat /\ x.sver \in Nat
         /\ x.readable \in BOOLEAN

\* A rule can be read in one way only; in a file, or behind --filter, it neither begins
\* nor ends with a space.
ASSUME RulesAssumption ==
    \A x \in Cases :
        /\ x.rules \in Seq(RuleType)
        /\ \A i \in DOMAIN x.rules :
             /\ Readable(x.rules[i])
             /\ x.rules[i].via = "include" => x.rules[i].include
             /\ x.rules[i].via \in {"exclude", "cvs"} => ~x.rules[i].include
             /\ x.rules[i].via \in {"filter", "include_from", "exclude_from"} =>
                  Trim(Pattern(x.rules[i])) = Pattern(x.rules[i])

\* The names of a transfer do not end with a slash.
ASSUME ProbesAssumption ==
    \A name \in Probes : name \in Seq(Byte) \ {<<>>} /\ name[Len(name)] # Slash

VARIABLES
    case,    \* the situation
    cpc,     \* what the client does next
    spc,     \* what the server does next
    c2s,     \* client-to-server stream
    s2c,     \* server-to-client stream
    cterms,  \* what the client takes to be agreed
    sterms,  \* what the server takes to be agreed
    sflags,  \* ServerFlags: the options the server has understood
    crules,  \* the client's filter rules
    srules,  \* the filter rules the server has been sent, as texts
    down     \* the connection is broken

vars == <<case, cpc, spc, c2s, s2c, cterms, sterms, sflags, crules, srules, down>>

-----------------------------------------------------------------------------
(* Options.                                                                *)

Expanded(o) == IF "archive" \in o THEN o \cup Archived ELSE o

\* server_args: one bundle of letters, then long arguments.
server_args(o) ==
    [letters |-> IF "archive" \in o THEN (o \cap Lettered) \ Archived ELSE o \cap Lettered,
     words   |-> o \cap Worded]

\* parse_server_flags and parse_server_argv; the letter b is not known.
parse_server_argv(argv) == Expanded((argv.letters \ {"backup"}) \cup argv.words)

\* The command-line parser of a server started by a remote shell takes the
\* arguments it knows and leaves the rest, from the first it does not know, to
\* parse_server_argv.  It knows no letters R and m.
Consumed(argv) == argv.letters \cap {"relative", "prune_empty_dirs"} = {}

\* Mutant: the owner is not taken over from the command line.
CarriedOverNoOwner == {"archive", "recursive", "group", "times", "compress"}

\* The options run_server_io takes over from its own command line.
CarriedOver == {"archive", "recursive", "owner", "group", "times", "compress"}

ServerFlags(argv) ==
    IF case.daemon \/ ~Consumed(argv) THEN parse_server_argv(argv)
    ELSE Expanded(Expanded(argv.letters) \cap CarriedOver)

\* --checksum is looked for in both.
UseChecksum(argv) == "checksum" \in argv.letters

-----------------------------------------------------------------------------
(* Items and terms.                                                        *)

Item(kind, framed, value) == [k |-> kind, mux |-> framed, v |-> value]
Plain(kind, value) == Item(kind, FALSE, value)

NoTerms == [proto |-> 0, seed |-> 0, zlib |-> FALSE, sums |-> FALSE,
            uid |-> FALSE, gid |-> FALSE, muxin |-> FALSE, muxout |-> FALSE]

Seed == 7     \* time and process id of the server

Given(opt) == opt \in case.opts

Min2(a, b) == IF a < b THEN a ELSE b

\* The rules given by one option.
GivenBy(rules, via) ==
    FlattenSeq([i \in DOMAIN rules |-> IF rules[i].via = via THEN <<rules[i]>> ELSE <<>>])

\* The rules of one option as they are written: with their sign, unless the option
\* tells.
Texts(via) ==
    LET mine == GivenBy(case.rules, via)
        sign(r) == IF via \in {"include", "exclude", "cvs"} THEN <<>>
                   ELSE <<IF r.include THEN Plus ELSE Dash, Space>>
    IN  [i \in DOMAIN mine |-> sign(mine[i]) \o Pattern(mine[i])]

\* The client's FilterList; it is empty when a file of rules cannot be read.
ClientRules ==
    IF ~case.readable THEN <<>>
    ELSE from_options([filter |-> Texts("filter"), include_from |-> Texts("include_from"),
                       exclude_from |-> Texts("exclude_from"), include |-> Texts("include"),
                       exclude |-> Texts("exclude"), cvs |-> Texts("cvs")])

Init ==
    /\ case \in Cases
    /\ cpc = IF case.daemon THEN "greet" ELSE "version"
    /\ spc = IF case.daemon THEN "greet" ELSE "version"
    /\ c2s = <<>> /\ s2c = <<>>
    /\ cterms = NoTerms /\ sterms = NoTerms
    /\ sflags = {} /\ crules = ClientRules /\ srules = <<>> /\ down = FALSE

Ended == {"session", "failed"}

\* A step of one program; the other's variables stay.
Client == UNCHANGED <<case, spc, sterms, sflags, crules, srules, down>>
Server == UNCHANGED <<case, cpc, cterms, crules, srules, down>>

\* Writing to a connection that is gone is an error.
CSend(items) == c2s' = IF down THEN c2s ELSE c2s \o items
SSend(items) == s2c' = IF down THEN s2c ELSE s2c \o items

\* The lists of algorithms: checksums, and compression when it is asked for.
Lists(compress) == <<"sums">> \o (IF compress THEN <<"comp">> ELSE <<>>)

\* What the client reads next, and what the server does; <<>> when it reads
\* nothing.  Any line from a daemon is read in answer to the module.
CNeeds ==
    CASE cpc = "await_version"  -> <<"version">>
      [] cpc = "await_greeting" -> <<"greeting">>
      [] cpc = "await_ok"       -> <<"line">>
      [] cpc = "compat"         -> <<"compat">> \o Lists(Given("compress"))
      [] cpc = "await_seed"     -> <<"seed">>
      [] cpc = "await_flist"    -> <<"flist">>
      [] OTHER                  -> <<>>

SNeeds ==
    CASE spc = "version"        -> <<"version">>
      [] spc = "await_greeting" -> <<"greeting">>
      [] spc = "await_module"   -> <<"module">>
      [] spc = "await_argv"     -> <<"argv">>
      [] spc = "await_lists"    -> Lists("compress" \in sflags)
      [] spc = "rules"          -> IF ~case.push THEN <<"filters">>
                                   ELSE IF "delete" \in sflags THEN <<"filters", "flist">>
                                   ELSE <<"flist">>
      [] OTHER                  -> <<>>

Line == {"ok", "text", "error", "exit"}

\* The item is what the reader takes it for, framing included.
Fits(item, need, framed) ==
    /\ item.mux = framed
    /\ item.k = need \/ (need = "line" /\ item.k \in Line)

\* Everything needed is in the stream; or something else is; or it is still on
\* its way.
Arrived(stream, needs, framed) ==
    /\ needs # <<>> /\ Len(stream) >= Len(needs)
    /\ \A i \in DOMAIN needs : Fits(stream[i], needs[i], framed)
Other(stream, needs, framed) ==
    \E i \in DOMAIN needs \cap DOMAIN stream : ~Fits(stream[i], needs[i], framed)
Short(stream, needs) == needs # <<>> /\ Len(stream) < Len(needs)

After(stream, needs) == SubSeq(stream, Len(needs) + 1, Len(stream))

CGets == Arrived(s2c, CNeeds, cterms.muxin)
SGets == Arrived(c2s, SNeeds, sterms.muxin)

CAstray == Other(s2c, CNeeds, cterms.muxin)
SAstray == Other(c2s, SNeeds, sterms.muxin)

CTakes == s2c' = After(s2c, CNeeds)
STakes == c2s' = After(c2s, SNeeds)

-----------------------------------------------------------------------------
(* The version exchange of a remote shell: the client speaks first.        *)

\* Before protocol 30 there are no compatibility flags.
CompatOrRules(proto) == IF proto >= 30 THEN "compat" ELSE "rules"

Acceptable(v) == v \in MIN_PROTOCOL_VERSION..MAX_PROTOCOL_VERSION

CSendVersion ==
    /\ cpc = "version"
    /\ CSend(<<Plain("version", case.cver)>>)
    /\ cpc' = "await_version"
    /\ Client /\ UNCHANGED <<s2c, cterms>>

CReadVersion ==
    /\ cpc = "await_version" /\ CGets /\ CTakes
    /\ IF Acceptable(Head(s2c).v)
       THEN /\ cterms' = [cterms EXCEPT !.proto = Min2(case.cver, Head(s2c).v)]
            /\ cpc' = CompatOrRules(cterms'.proto)
       ELSE cpc' = "failed" /\ UNCHANGED cterms
    /\ Client /\ UNCHANGED c2s

\* The arguments came with the command that started the server.
SReadVersion ==
    /\ spc = "version" /\ SGets /\ STakes
    /\ SSend(<<Plain("version", case.sver)>>)
    /\ LET argv == server_args(case.opts)
       IN  IF Acceptable(Head(c2s).v)
           THEN /\ sterms' = [sterms EXCEPT !.proto = Min2(case.sver, Head(c2s).v),
                                            !.sums = UseChecksum(argv)]
                /\ sflags' = ServerFlags(argv)
                /\ spc' = "compat"
           ELSE spc' = "failed" /\ UNCHANGED <<sterms, sflags>>
    /\ Server

-----------------------------------------------------------------------------
(* The daemon: greetings, module, arguments.                               *)

CGreet ==
    /\ cpc = "greet"
    /\ CSend(<<Plain("greeting", case.cver)>>)
    /\ cpc' = "await_greeting"
    /\ Client /\ UNCHANGED <<s2c, cterms>>

\* Mutant: the arguments are sent along with the module.
CReadGreetingEager ==
    /\ cpc = "await_greeting" /\ CGets /\ CTakes
    /\ cterms' = [cterms EXCEPT !.proto = Min2(case.cver, Head(s2c).v)]
    /\ CSend(<<Plain("module", case.module), Plain("argv", server_args(case.opts))>>)
    /\ cpc' = "compat"
    /\ Client

CReadGreeting ==
    /\ cpc = "await_greeting" /\ CGets /\ CTakes
    /\ LET proto == Min2(case.cver, Head(s2c).v)
       IN  IF proto >= MIN_PROTOCOL_VERSION
           THEN /\ cterms' = [cterms EXCEPT !.proto = proto]
                /\ CSend(<<Plain("module", case.module)>>)
                /\ cpc' = "await_ok"
           ELSE cpc' = "failed" /\ UNCHANGED <<cterms, c2s>>
    /\ Client

\* After OK nothing may be left in the line reader's buffer, since it is thrown
\* away.
CReadOk ==
    /\ cpc = "await_ok" /\ CGets /\ CTakes /\ Head(s2c).k = "ok"
    /\ IF Len(s2c) = 1
       THEN /\ CSend(<<Plain("argv", server_args(case.opts))>>)
            /\ cpc' = CompatOrRules(cterms.proto)
       ELSE cpc' = "failed" /\ UNCHANGED c2s
    /\ Client /\ UNCHANGED cterms

\* A line of a module listing is shown, an error or the end of it is fatal.
CReadLine ==
    /\ cpc = "await_ok" /\ CGets /\ CTakes
    /\ \/ Head(s2c).k = "text" /\ UNCHANGED cpc
       \/ Head(s2c).k \in {"error", "exit"} /\ cpc' = "failed"
    /\ Client /\ UNCHANGED <<c2s, cterms>>

SGreet ==
    /\ spc = "greet"
    /\ SSend(<<Plain("greeting", case.sver)>>)
    /\ spc' = "await_greeting"
    /\ Server /\ UNCHANGED <<c2s, sterms, sflags>>

\* The version in the client's greeting is not looked at.
SReadGreeting ==
    /\ spc = "await_greeting" /\ SGets /\ STakes
    /\ spc' = "await_module"
    /\ Server /\ UNCHANGED <<s2c, sterms, sflags>>

\* What the line reader has read ahead, if anything, is lost with it.
SReadModule ==
    /\ spc = "await_module" /\ SGets
    /\ \/ /\ Head(c2s).v \in {"ok", "read_only"}
          /\ \E n \in 1..Len(c2s) : c2s' = SubSeq(c2s, n + 1, Len(c2s))
          /\ SSend(<<Plain("ok", 0)>>)
          /\ spc' = "await_argv"
       \/ /\ Head(c2s).v = "list" /\ STakes
          /\ SSend(<<Plain("text", 0), Plain("exit", 0)>>)
          /\ spc' = "failed"
       \/ /\ Head(c2s).v = "unknown" /\ STakes
          /\ SSend(<<Plain("error", 0)>>)
          /\ spc' = "failed"
    /\ Server /\ UNCHANGED <<sterms, sflags>>

\* handle_connection hands over to run_server_io with the arguments, unless
\* the client means to write to a module that is read-only.
SReadArgv ==
    /\ spc = "await_argv" /\ SGets /\ STakes
    /\ IF case.push /\ case.module = "read_only"
       THEN /\ SSend(<<Plain("error", 0)>>)
            /\ spc' = "failed"
            /\ UNCHANGED <<sterms, sflags>>
       ELSE /\ sterms' = [sterms EXCEPT !.proto = case.sver, !.sums = UseChecksum(Head(c2s).v)]
            /\ sflags' = ServerFlags(Head(c2s).v)
            /\ spc' = "compat"
            /\ UNCHANGED s2c
    /\ Server

-----------------------------------------------------------------------------
(* Compatibility flags, algorithms, seed.                                  *)

ItemsOf(kinds) == [i \in DOMAIN kinds |-> Plain(kinds[i], 0)]

\* From protocol 30 the client's two streams are multiplexed; the server's
\* output always is.
CMux(terms) ==
    [terms EXCEPT !.muxin = terms.proto >= 30, !.muxout = terms.proto >= 30,
                  !.sums = Given("checksum"),
                  !.uid = "owner" \in Expanded(case.opts),
                  !.gid = "group" \in Expanded(case.opts)]
SMux(terms) ==
    [terms EXCEPT !.muxin = terms.proto >= 30, !.muxout = TRUE,
                  !.uid = "owner" \in sflags, !.gid = "group" \in sflags]

\* setup_compat of the server, up to the first read.
SSendCompat ==
    /\ spc = "compat"
    /\ IF sterms.proto >= 30
       THEN /\ SSend(ItemsOf(<<"compat">> \o Lists("compress" \in sflags)))
            /\ spc' = "await_lists" /\ UNCHANGED sterms
       ELSE /\ spc' = "rules" /\ sterms' = SMux(sterms)
            /\ UNCHANGED s2c
    /\ Server /\ UNCHANGED <<c2s, sflags>>

SReadLists ==
    /\ spc = "await_lists" /\ SGets /\ STakes
    /\ SSend(<<Plain("seed", Seed)>>)
    /\ sterms' = SMux([sterms EXCEPT !.seed = Seed, !.zlib = "compress" \in sflags])
    /\ spc' = "rules"
    /\ Server /\ UNCHANGED sflags

\* Mutant: the client keeps its lists back until the seed has come.
CReadCompatKeep ==
    /\ cpc = "compat" /\ CGets /\ CTakes
    /\ cpc' = "await_seed"
    /\ Client /\ UNCHANGED <<c2s, cterms>>

\* setup_compat_client.
CReadCompat ==
    /\ cpc = "compat" /\ CGets /\ CTakes
    /\ CSend(ItemsOf(Lists(Given("compress"))))
    /\ cpc' = "await_seed"
    /\ Client /\ UNCHANGED cterms

CReadSeed ==
    /\ cpc = "await_seed" /\ CGets /\ CTakes
    /\ cterms' = [cterms EXCEPT !.seed = Head(s2c).v, !.zlib = Given("compress")]
    /\ cpc' = "rules"
    /\ Client /\ UNCHANGED c2s

-----------------------------------------------------------------------------
(* Filter rules and file list.                                             *)

SItem(kind) == Item(kind, sterms.muxout, 0)

\* A puller sends its filter rules; a pusher only the end of them, when
\* deleting, and the file list.
CSendRules ==
    /\ cpc = "rules"
    /\ cterms' = CMux(cterms)
    /\ LET filters == Item("filters", cterms'.muxout, IF case.push THEN <<>> ELSE WireTexts(crules))
           flist   == Item("flist", cterms'.muxout, 0)
       IN  IF case.push
           THEN /\ CSend((IF Given("delete") THEN <<filters>> ELSE <<>>) \o <<flist>>)
                /\ cpc' = "session"
           ELSE CSend(<<filters>>) /\ cpc' = "await_flist"
    /\ Client /\ UNCHANGED s2c

CReadList ==
    /\ cpc = "await_flist" /\ CGets /\ CTakes
    /\ cpc' = "session"
    /\ Client /\ UNCHANGED <<c2s, cterms>>

\* recv_and_parse_filter_list.
ServerRules == ParseAll(srules)

\* A server that sends applies the rules; one that receives reads past them.
SReadRules ==
    /\ spc = "rules" /\ SGets /\ STakes
    /\ IF case.push THEN UNCHANGED <<s2c, srules>>
       ELSE SSend(<<SItem("flist")>>) /\ srules' = Head(c2s).v
    /\ spc' = "session"
    /\ UNCHANGED <<case, cpc, cterms, sterms, sflags, crules, down>>

-----------------------------------------------------------------------------
(* What goes wrong.                                                        *)

\* The other program has ended, or the connection has: the read fails.
CEof ==
    /\ Short(s2c, CNeeds) /\ ~CAstray
    /\ down \/ spc = "failed"
    /\ cpc' = "failed"
    /\ Client /\ UNCHANGED <<c2s, s2c, cterms>>

SEof ==
    /\ Short(c2s, SNeeds) /\ ~SAstray
    /\ down \/ cpc = "failed"
    /\ spc' = "failed"
    /\ Server /\ UNCHANGED <<c2s, s2c, sterms, sflags>>

Break ==
    /\ CanDrop /\ ~down
    /\ cpc # "failed" /\ spc # "failed"
    /\ down' = TRUE
    /\ UNCHANGED <<case, cpc, spc, c2s, s2c, cterms, sterms, sflags, crules, srules>>

ClientStep ==
    \/ CSendVersion \/ CReadVersion \/ CGreet \/ CReadGreeting \/ CReadOk \/ CReadLine
    \/ CReadCompat \/ CReadSeed \/ CSendRules \/ CReadList \/ CEof

ServerStep ==
    \/ SReadVersion \/ SGreet \/ SReadGreeting \/ SReadModule \/ SReadArgv
    \/ SSendCompat \/ SReadLists \/ SReadRules \/ SEof

Next == ClientStep \/ ServerStep \/ Break

\* Either program goes on when it can; nothing makes the connection break.
Spec == Init /\ [][Next]_vars /\ WF_vars(ClientStep) /\ WF_vars(ServerStep)

-----------------------------------------------------------------------------
(* Properties.                                                             *)

\* The daemon answers OK before it sees the arguments, so that it can refuse
\* to write to a read-only module only when the client waits for compat flags.
RefusedLate == case.daemon /\ case.push /\ case.module = "read_only"

\* A remote shell's server takes --delete from its command line and forgets it.
Forgotten(o) == "delete" \in o /\ Consumed(server_args(o))

\* Outside of these the two programs do not understand one another: a daemon does not
\* look at the version of a client, which must know its own; before protocol 30 the
\* server frames what it writes and the client does not expect it; and a pusher that
\* deletes sends filter rules to a server that has forgotten to read them.
Supported(x) ==
    /\ x.daemon => x.sver <= x.cver
    /\ Min2(x.cver, x.sver) \notin MIN_PROTOCOL_VERSION..29
    /\ (~x.daemon /\ x.push) => ~Forgotten(x.opts)

\* Neither program ever takes one thing on the wire for another, or framed
\* bytes for plain ones: both know from the options, the protocol version and
\* what was said before which of the optional parts are sent.
InStep ==
    /\ ~SAstray
    /\ CAstray => RefusedLate

\* Once both are about to transfer files they have the same protocol, seed
\* and compression, the same view of what an entry of the file list holds, and
\* each expects the framing that the other one uses.
Agreed ==
    (cpc = "session" /\ spc = "session") =>
        /\ \A t \in {"proto", "seed", "zlib", "sums", "uid", "gid"} : cterms[t] = sterms[t]
        /\ cterms.muxin = sterms.muxout
        /\ cterms.muxout = sterms.muxin

\* The rules in the order of their options: --filter, the files, --include,
\* --exclude, --cvs-exclude.
InOrder(rules) ==
    LET by(via) == GivenBy(rules, via)
    IN  by("filter") \o by("include_from") \o by("exclude_from") \o by("include") \o by("exclude")
        \o by("cvs")

\* Unless its files of rules are out of reach, the rules a program has built and
\* its matcher decide about every name as the rules mean it: by the first that
\* applies, stars within and across directories, classes, anchors, names of
\* directories, last components and whole names.
RulesMeant ==
    (cpc = "rules" /\ case.readable) =>
        LET meant == InOrder(case.rules)
        IN  \A name \in Probes, is_dir \in BOOLEAN :
                is_excluded(crules, name, is_dir) <=> Decided(meant, name, is_dir)

\* A rule as it is stored says all that was written: it is not anchored, nor for
\* directories only, which the wire does not tell, nor does it begin or end with a
\* space, which a parser drops.
Portable(rule) == ~rule.abs /\ ~rule.dir /\ Trim(rule.pattern) = rule.pattern

\* A server that sends its files leaves out those that the client has asked it to:
\* about every name the rules it was sent decide as the client's own do.
RulesCarried ==
    (spc = "session" /\ ~case.push /\ \A i \in DOMAIN crules : Portable(crules[i])) =>
        LET parsed == ServerRules
        IN  \A name \in Probes, is_dir \in BOOLEAN :
                is_excluded(parsed, name, is_dir) <=> is_excluded(crules, name, is_dir)

Workable ==
    IF case.daemon THEN case.module = "ok" \/ (case.module = "read_only" /\ ~case.push)
    ELSE Acceptable(case.cver) /\ Acceptable(case.sver)

\* The two never wait for one another for ever: each ends the handshake or
\* gives up, and unless the connection breaks or the request cannot be served
\* both get through to the transfer.
HandshakeDone ==
    /\ <>((cpc \in Ended \/ CAstray) /\ spc \in Ended)
    /\ (Workable /\ []~down) => <>(cpc = "session" /\ spc = "session")

=============================================================================
