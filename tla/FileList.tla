------------------------------ MODULE FileList ------------------------------
(***************************************************************************)
(* The file list: how the sender collects it (main.rs, walk_source_dir and *)
(* build_flist_from_files_from), sorts it and marks hard-link groups, how  *)
(* it crosses the wire entry by entry, each encoded as the difference from *)
(* the one before (flist/send.rs, flist/recv.rs), how the receiver sorts   *)
(* what it has decoded and renumbers the groups, and what it does to the   *)
(* names of the destination tree with it.                                  *)
(*                                                                         *)
(* A name is the sequence of its bytes, relative to the one source         *)
(* directory.  The fields of an entry are written and read in one fixed    *)
(* order, so an entry on the wire is its flags, its name and a function    *)
(* from the fields written to their values; reading other fields than were *)
(* written is what loses the place in the stream.  A group id is treated   *)
(* exactly as a user id and is not modelled beside it.                     *)
(***************************************************************************)
EXTENDS Integers, Sequences, FiniteSets

CONSTANTS
    Tree,        \* Tree[n]: inode of the source name n
    Node,        \* Node[i]: type, permissions, owner and size of inode i
    Excluded,    \* names the filter excludes
    Unreadable,  \* directories that cannot be read
    Changing,    \* inodes that are written to while the list is made
    OptionSets,  \* the options of a session, one record for each combination
    DestTrees,   \* what the destination directory may hold before
    ByteMax,     \* the largest number one byte holds
    MaxTime      \* bound: modification times

Slash == 47
Dot   == <<46>>

Bytes  == 1..255    \* of a name
Names  == DOMAIN Tree
Inodes == DOMAIN Node
Types  == {"file", "dir", "symlink", "device", "special"}

Options == [protocol : Nat, varint : BOOLEAN, inc_recurse : BOOLEAN, recursive : BOOLEAN,
            hard_links : BOOLEAN, times : BOOLEAN, owner : BOOLEAN, devices : BOOLEAN,
            checksum : BOOLEAN, prune : BOOLEAN, delete : BOOLEAN, foreign : BOOLEAN,
            limits : SUBSET Nat,              \* sizes the sender's limits admit
            rlimits : SUBSET Nat,             \* sizes the receiver's limits admit
            faulty : SUBSET Seq(Bytes),       \* where the receiver may be refused a call
            files_from : Seq(Seq(Bytes))]

ASSUME ListAssumption ==
    /\ Names \subseteq Seq(Bytes) /\ IsFiniteSet(Names)
    /\ Tree \in [Names -> Inodes]
    /\ Node \in [Inodes -> [type : Types, perm : Nat, uid : Nat, size : Nat]]
    /\ Dot \in Names /\ Node[Tree[Dot]].type = "dir"
    /\ Excluded \subseteq Names /\ Unreadable \subseteq Names /\ Changing \subseteq Inodes
    /\ OptionSets \subseteq Options
    /\ \A o \in OptionSets : o.protocol >= 28
                             /\ \A i \in DOMAIN o.files_from : o.files_from[i] # Dot
    /\ ByteMax \in Nat /\ MaxTime \in Nat \ {0}

VARIABLES
    opt,     \* the options of this session
    attr,    \* attr[i]: modification time of source inode i
    frames,  \* the directories walk_source_dir is in, innermost first
    lines,   \* arguments or --files-from lines still to be listed
    slist,   \* the sender's list
    next,    \* index of the entry sent next
    spc,     \* the sender: "walk", "send", "sent" or "panic"
    wire,    \* entries on their way
    rlist,   \* the receiver's list
    rpc,     \* the receiver: "recv", "delete", "dirs", "files", "links", "follow", "done", "failed"
    rpos,    \* index of the follower linked next
    dtree    \* names in the destination tree

source   == <<attr, frames, lines, slist, next, spc>>
receiver == <<rlist, rpc, rpos, dtree>>
vars     == <<opt, source, wire, receiver>>

-----------------------------------------------------------------------------
(* Names and their order.                                                  *)

Slashes(n)   == {i \in DOMAIN n : n[i] = Slash}
LastSlash(n) == IF Slashes(n) = {} THEN 0
                ELSE CHOOSE i \in Slashes(n) : \A j \in Slashes(n) : j <= i

Dirname(n)   == SubSeq(n, 1, LastSlash(n) - 1)
Basename(n)  == SubSeq(n, LastSlash(n) + 1, Len(n))
Ancestors(n) == {SubSeq(n, 1, i - 1) : i \in Slashes(n)}

\* The names are those of a tree: what a name passes through is a directory, and
\* none is empty.
ASSUME TreeAssumption ==
    /\ <<>> \notin Names
    /\ \A n \in Names : Ancestors(n) \subseteq {d \in Names \ {Dot} : Node[Tree[d]].type = "dir"}

Typed(t, s) == [i \in DOMAIN s |-> <<t, s[i]>>]

Item == 0
Path == 1

\* What the walker of an entry yields: a type and a byte at a time, no byte
\* (0) at the end.  A directory counts as a path up to its closing slash.
Key(e) ==
    LET base == Basename(e.name)
        dir  == SubSeq(e.name, 1, LastSlash(e.name))
        t    == IF e.type = "dir" THEN Path ELSE Item
    IN  Typed(Path, dir)
        \o (IF t = Path /\ base = Dot THEN <<>>
            ELSE Typed(t, IF t = Path THEN Append(base, Slash) ELSE base))
        \o << <<Item, 0>> >>

Smaller(x, y) == x[1] < y[1] \/ (x[1] = y[1] /\ x[2] < y[2])

\* The first difference decides, the type before the byte.
file_compare(a, b) ==
    LET k == Key(a)
        l == Key(b)
    IN  \E i \in DOMAIN k \cap DOMAIN l :
            /\ Smaller(k[i], l[i])
            /\ \A j \in 1..(i - 1) : k[j] = l[j]

\* The sort is stable.
SortsBefore(list, j, i) ==
    \/ file_compare(list[j], list[i])
    \/ j < i /\ ~file_compare(list[i], list[j])

\* The place of entry i after the sort.
Rank(list, i) == 1 + Cardinality({j \in DOMAIN list : SortsBefore(list, j, i)})

\* Entry r of the sorted list was entry Origin(list, r).
Origin(list, r) == CHOOSE i \in DOMAIN list : Rank(list, i) = r

flist_sort(list) == [r \in DOMAIN list |-> list[Origin(list, r)]]

-----------------------------------------------------------------------------
(* The sender lists its files.                                             *)

Type(n) == Node[Tree[n]].type

\* What stat says of a name now.
file_info_from_meta(n) ==
    [name |-> n, ino |-> Tree[n], type |-> Type(n), perm |-> Node[Tree[n]].perm,
     mtime |-> attr[Tree[n]], uid |-> Node[Tree[n]].uid, first |-> 0, leader |-> FALSE]

Children(d) == {n \in Names \ {Dot} : Dirname(n) = d}

\* read_dir of a directory; the source directory itself has no name.
Listing(n) == IF n \in Unreadable THEN {} ELSE Children(IF n = Dot THEN <<>> ELSE n)

WithinLimits(n) == Type(n) \in {"dir", "symlink"} \/ Node[Tree[n]].size \in opt.limits

Frame(n, at) == [todo |-> Listing(n), at |-> at]

\* The next argument or line.  Lines are not matched against the filter; a
\* line that names nothing is passed over.
ListLine ==
    /\ spc = "walk" /\ frames = <<>> /\ lines # <<>>
    /\ lines' = Tail(lines)
    /\ LET n == Head(lines)
       IN  IF n \notin Names \/ ~WithinLimits(n) THEN UNCHANGED <<slist, frames>>
           ELSE /\ slist' = Append(slist, file_info_from_meta(n))
                /\ frames' = IF n = Dot THEN <<Frame(n, 0)>>
                             ELSE IF Type(n) = "dir" /\ opt.recursive
                             THEN <<Frame(n, Len(slist) + 1)>>
                             ELSE <<>>
    /\ UNCHANGED <<opt, attr, next, spc, wire, receiver>>

Done(n) == [Head(frames) EXCEPT !.todo = @ \ {n}]

\* walk_source_dir comes to the entry n of the directory it is in.
Visit(n) ==
    /\ spc = "walk" /\ frames # <<>> /\ n \in Head(frames).todo
    /\ IF n \in Excluded \/ ~WithinLimits(n)
       THEN slist' = slist /\ frames' = <<Done(n)>> \o Tail(frames)
       ELSE /\ slist' = Append(slist, file_info_from_meta(n))
            /\ frames' = IF Type(n) = "dir" /\ opt.recursive
                         THEN <<Frame(n, Len(slist) + 1), Done(n)>> \o Tail(frames)
                         ELSE <<Done(n)>> \o Tail(frames)
    /\ UNCHANGED <<opt, attr, lines, next, spc, wire, receiver>>

\* Mutant: a directory under which nothing was listed loses the entry before.
LeaveEarly ==
    /\ spc = "walk" /\ frames # <<>> /\ Head(frames).todo = {}
    /\ slist' = IF opt.prune /\ Len(slist) <= Head(frames).at + 1
                THEN SubSeq(slist, 1, Len(slist) - 1) ELSE slist
    /\ frames' = Tail(frames)
    /\ UNCHANGED <<opt, attr, lines, next, spc, wire, receiver>>

\* A directory has been walked; --prune-empty-dirs takes its entry back.
Leave ==
    /\ spc = "walk" /\ frames # <<>> /\ Head(frames).todo = {}
    /\ slist' = IF opt.prune /\ Len(slist) = Head(frames).at
                THEN SubSeq(slist, 1, Len(slist) - 1) ELSE slist
    /\ frames' = Tail(frames)
    /\ UNCHANGED <<opt, attr, lines, next, spc, wire, receiver>>

Group(list, i) == {j \in DOMAIN list : list[j].type = "file" /\ list[j].ino = list[i].ino}

\* Entries of one inode: the first is the leader, the others refer to it.
mark_hardlinks(list) ==
    IF ~opt.hard_links THEN list
    ELSE [i \in DOMAIN list |->
            LET G == Group(list, i)
                f == CHOOSE j \in G : \A k \in G : j <= k
            IN  IF list[i].type # "file" \/ Cardinality(G) < 2 THEN list[i]
                ELSE IF i = f THEN [list[i] EXCEPT !.leader = TRUE]
                ELSE [list[i] EXCEPT !.first = f]]

\* Mutant: the list is not sorted.
MarkOnly ==
    /\ spc = "walk" /\ frames = <<>> /\ lines = <<>>
    /\ slist' = mark_hardlinks(slist)
    /\ spc' = "send"
    /\ UNCHANGED <<opt, attr, frames, lines, next, wire, receiver>>

\* A foreign peer may send its list in an order of its own.
SortAndMark ==
    /\ spc = "walk" /\ frames = <<>> /\ lines = <<>>
    /\ slist' = mark_hardlinks(IF opt.foreign THEN slist ELSE flist_sort(slist))
    /\ spc' = "send"
    /\ UNCHANGED <<opt, attr, frames, lines, next, wire, receiver>>

-----------------------------------------------------------------------------
(* Entries on the wire.  A flag is its bit number.                         *)

TOP_DIR    == 0
SAME_MODE  == 1
EXTENDED   == 2
SAME_UID   == 3
SAME_NAME  == 5
LONG_NAME  == 6
SAME_TIME  == 7
HLINKED    == 9
HLINK_FIRST == 12
IO_ERROR_ENDLIST == 12

When(c, S) == IF c THEN S ELSE {}

\* Bytes that begin a character in UTF-8.
StartsChar(b) == b < 128 \/ b >= 192

SharedLen(a, b, k) ==
    LET same(m) == m <= Len(a) /\ m <= Len(b) /\ m <= ByteMax
                   /\ \A i \in 1..m : a[i] = b[i]
    IN  same(k) /\ ~same(k + 1)

\* The entry before entry i of a list; the first one has none.
Before(list, i) == IF i = 1 THEN <<>> ELSE <<list[i - 1]>>

PrevName(prev) == IF prev = <<>> THEN <<>> ELSE prev[1].name

Member(e)   == e.leader \/ e.first > 0
Follower(e) == e.first > 0 /\ opt.protocol >= 30

XFlags(e, prev, k) ==
    LET p == prev[1]
        some == prev # <<>>
    IN  When(k > 0, {SAME_NAME})
        \cup When(Len(e.name) - k > ByteMax, {LONG_NAME})
        \cup When(some /\ e.type = p.type /\ e.perm = p.perm, {SAME_MODE})
        \cup When(~opt.times \/ (some /\ e.mtime = p.mtime), {SAME_TIME})
        \cup When(~opt.owner \/ (some /\ e.uid = p.uid), {SAME_UID})
        \cup When(Member(e), {HLINKED})
        \cup When(e.leader /\ opt.protocol >= 30, {HLINK_FIRST})
        \cup When(e.name = Dot, {TOP_DIR})

\* No entry may look like the end of the list.
Disambiguated(flags, isDir) ==
    IF opt.varint THEN IF flags = {} THEN {EXTENDED} ELSE flags
    ELSE LET f == IF flags = {} /\ ~isDir THEN {TOP_DIR} ELSE flags
         IN  IF f = {} \/ \E b \in f : b >= 8 THEN f \cup {EXTENDED} ELSE f

WithRdev(t) == t = "device" \/ (t = "special" /\ opt.protocol < 31)

FieldsWritten(e, flags) ==
    IF Follower(e) THEN {"first"}
    ELSE {"size"}
         \cup When(SAME_TIME \notin flags, {"time"})
         \cup When(SAME_MODE \notin flags, {"mode"})
         \cup When(opt.owner /\ SAME_UID \notin flags, {"uid"})
         \cup When(opt.devices /\ WithRdev(e.type), {"rdev"})
         \cup When(e.type = "symlink", {"target"})
         \cup When(opt.checksum /\ e.type = "file", {"sum"})

Value(e) == [first |-> e.first, size |-> Node[e.ino].size, time |-> e.mtime,
             mode |-> <<e.type, e.perm>>, uid |-> e.uid, rdev |-> 0, target |-> e.ino,
             sum |-> 0]

send_file_entry(e, prev, k) ==
    LET flags == Disambiguated(XFlags(e, prev, k), e.type = "dir")
    IN  [flags |-> flags, same |-> k,
         rest |-> SubSeq(e.name, k + 1, Len(e.name)),
         f |-> [x \in FieldsWritten(e, flags) |-> Value(e)[x]]]

EndFlags == IF ~opt.varint /\ opt.protocol >= 31 THEN {EXTENDED, IO_ERROR_ENDLIST} ELSE {}

\* The trailer: the error code and the lists of user and group names.
Trailer ==
    When(opt.varint \/ opt.protocol >= 31 \/ opt.protocol < 30, {"io_error"})
    \cup When(opt.protocol >= 30 /\ ~opt.inc_recurse /\ opt.owner, {"ids"})

\* The rest of a name is cut out of a string: a cut inside a character panics.
SendEntry ==
    /\ spc = "send" /\ next <= Len(slist)
    /\ LET e == slist[next]
           prev == Before(slist, next)
       IN  \E k \in 0..ByteMax :
            /\ SharedLen(e.name, PrevName(prev), k)
            /\ IF k < Len(e.name) /\ ~StartsChar(e.name[k + 1])
               THEN spc' = "panic" /\ UNCHANGED <<wire, next>>
               ELSE /\ wire' = Append(wire, send_file_entry(e, prev, k))
                    /\ next' = next + 1 /\ spc' = spc
    /\ UNCHANGED <<opt, attr, frames, lines, slist, receiver>>

SendEnd ==
    /\ spc = "send" /\ next = Len(slist) + 1
    /\ wire' = Append(wire, [flags |-> EndFlags, same |-> 0, rest |-> <<>>,
                             f |-> [x \in Trailer |-> 0]])
    /\ spc' = "sent"
    /\ UNCHANGED <<opt, attr, frames, lines, slist, next, receiver>>

-----------------------------------------------------------------------------
(* The receiver decodes them.                                              *)

IsEnd(flags) == flags = {} \/ (~opt.varint /\ flags = {EXTENDED, IO_ERROR_ENDLIST})

TrailerRead(flags) ==
    When(opt.varint \/ flags # {} \/ opt.protocol < 30, {"io_error"})
    \cup When(opt.protocol >= 30 /\ ~opt.inc_recurse /\ opt.owner, {"ids"})

IsFollower(m) ==
    opt.protocol >= 30 /\ HLINKED \in m.flags /\ HLINK_FIRST \notin m.flags

\* What an entry without a predecessor inherits.
Default == [name |-> <<>>, type |-> "file", perm |-> 0, mtime |-> 0, uid |-> 0, first |-> 0]

Mode(m, p) == IF SAME_MODE \in m.flags THEN <<p.type, p.perm>> ELSE m.f["mode"]

\* Mutant: an old peer's device numbers are expected of every pipe.
FieldsReadOld(m, p) ==
    LET t == Mode(m, p)[1]
    IN  IF IsFollower(m) THEN {"first"}
        ELSE {"size"}
             \cup When(SAME_TIME \notin m.flags, {"time"})
             \cup When(SAME_MODE \notin m.flags, {"mode"})
             \cup When(SAME_UID \notin m.flags, {"uid"})
             \cup When(t \in {"device", "special"}, {"rdev"})
             \cup When(t = "symlink", {"target"})
             \cup When(opt.checksum /\ t = "file", {"sum"})

FieldsRead(m, p) ==
    LET t == Mode(m, p)[1]
    IN  IF IsFollower(m) THEN {"first"}
        ELSE {"size"}
             \cup When(SAME_TIME \notin m.flags, {"time"})
             \cup When(SAME_MODE \notin m.flags, {"mode"})
             \cup When(SAME_UID \notin m.flags, {"uid"})
             \cup When(WithRdev(t), {"rdev"})
             \cup When(t = "symlink", {"target"})
             \cup When(opt.checksum /\ t = "file", {"sum"})

\* Mutant: fields that were not sent are not inherited.
DecodedAfresh(m, p, list) ==
    LET name == SubSeq(p.name, 1, m.same) \o m.rest
    IN  IF IsFollower(m)
        THEN [list[m.f["first"]] EXCEPT !.name = name, !.first = m.f["first"]]
        ELSE [name |-> name, type |-> Mode(m, p)[1], perm |-> Mode(m, p)[2],
              mtime |-> IF SAME_TIME \in m.flags THEN 0 ELSE m.f["time"],
              uid |-> IF SAME_UID \in m.flags THEN p.uid ELSE m.f["uid"],
              first |-> 0]

\* A follower takes everything but its name from its leader.
recv_file_entry(m, p, list) ==
    LET name == SubSeq(p.name, 1, m.same) \o m.rest
    IN  IF IsFollower(m)
        THEN [list[m.f["first"]] EXCEPT !.name = name, !.first = m.f["first"]]
        ELSE [name |-> name, type |-> Mode(m, p)[1], perm |-> Mode(m, p)[2],
              mtime |-> IF SAME_TIME \in m.flags THEN p.mtime ELSE m.f["time"],
              uid |-> IF SAME_UID \in m.flags THEN p.uid ELSE m.f["uid"],
              first |-> 0]

Latest(list) == IF list = <<>> THEN Default ELSE list[Len(list)]

\* Where the fields written are not those read the stream is lost, and so is
\* the session; a reference to a leader out of range is an error.
RecvEntry ==
    /\ rpc = "recv" /\ wire # <<>> /\ ~IsEnd(Head(wire).flags)
    /\ DOMAIN Head(wire).f = FieldsRead(Head(wire), Latest(rlist))
    /\ IsFollower(Head(wire)) => Head(wire).f["first"] \in DOMAIN rlist
    /\ rlist' = Append(rlist, recv_file_entry(Head(wire), Latest(rlist), rlist))
    /\ wire' = Tail(wire)
    /\ UNCHANGED <<opt, source, rpc, rpos, dtree>>

\* Mutant: the references to leaders are left as they were sent.
SortedOnly(list) == flist_sort(list)

\* Sorted, with the references to leaders renumbered.
SortedAndRemapped(list) ==
    LET old_to_new(f) == IF f \in DOMAIN list THEN Rank(list, f) ELSE f
    IN  [r \in DOMAIN list |->
            [flist_sort(list)[r] EXCEPT !.first = IF @ > 0 THEN old_to_new(@) ELSE @]]

RecvEnd ==
    /\ rpc = "recv" /\ wire # <<>> /\ IsEnd(Head(wire).flags)
    /\ DOMAIN Head(wire).f = TrailerRead(Head(wire).flags)
    /\ rlist' = SortedAndRemapped(rlist)
    /\ wire' = Tail(wire)
    /\ rpc' = IF opt.delete THEN "delete" ELSE "dirs"
    /\ UNCHANGED <<opt, source, rpos, dtree>>

-----------------------------------------------------------------------------
(* The receiver puts the names in place.                                   *)

Listed(list) == {list[i].name : i \in DOMAIN list}

WithAncestors(S) == S \cup UNION {Ancestors(n) : n \in S}

Size(n) == Node[Tree[n]].size

\* The file system may refuse a call at the name, or at what it passes through:
\* a directory without permission, a file where a directory should be.
Troubled(n) == ({Dot, n} \cup Ancestors(n)) \cap opt.faulty # {}

Kept == WithAncestors(Listed(rlist) \ {Dot})

\* What may leave the name n, which is not kept, among the names S: trouble on
\* the way to it, or trouble in a tree that is removed as one, which ends there.
Excused(n, S) ==
    \/ Troubled(n)
    \/ \E f \in opt.faulty \cap S :
          (({n} \cup Ancestors(n)) \cap ({f} \cup Ancestors(f))) \ Kept # {}

\* Everything not kept is removed, a directory with all it holds; errors are
\* passed over.
delete_extraneous_from_flist ==
    /\ rpc = "delete"
    /\ \E left \in SUBSET (dtree \ Kept) :
          /\ \A n \in left : Excused(n, left) /\ Ancestors(n) \cap dtree \subseteq Kept \cup left
          /\ dtree' = (dtree \cap Kept) \cup left
    /\ rpc' = "dirs"
    /\ UNCHANGED <<opt, source, wire, rlist, rpos>>

Of(t) == {rlist[i].name : i \in {j \in DOMAIN rlist : rlist[j].type = t /\ rlist[j].first = 0}}

\* What create_dir_all of each directory in D may make, missing ancestors too.
\* It stops where it is refused, and nobody asks.
Makeable(D) ==
    LET missing == WithAncestors(D) \ dtree
    IN  {made \in SUBSET missing :
            /\ \A n \in made : Ancestors(n) \subseteq dtree \cup made
            /\ \A n \in missing \ made : Troubled(n)}

MakeDirs ==
    /\ rpc = "dirs"
    /\ \E made \in Makeable(Of("dir") \ {Dot}) : dtree' = dtree \cup made
    /\ rpc' = "files"
    /\ UNCHANGED <<opt, source, wire, rlist, rpos>>

\* The receiver has size limits of its own, whatever the sender listed.
Wanted == {n \in Of("file") : Size(n) \in opt.rlimits}

\* Every regular file within the limits that is no follower is there after the
\* transfer.
TransferFiles ==
    /\ rpc = "files"
    /\ dtree' = dtree \cup WithAncestors(Wanted)
    /\ rpc' = "links"
    /\ UNCHANGED <<opt, source, wire, rlist, rpos>>

\* A file that cannot be written ends the session; those before it are there.
FailTransfer ==
    /\ rpc = "files"
    /\ \E i \in DOMAIN rlist :
          /\ rlist[i].name \in Wanted
          /\ \E made \in Makeable(Ancestors(rlist[i].name)) :
                dtree' = dtree \cup WithAncestors(Wanted \cap {rlist[j].name : j \in 1..(i - 1)})
                               \cup made
    /\ rpc' = "failed"
    /\ UNCHANGED <<opt, source, wire, rlist, rpos>>

\* A symbolic link replaces what has its name; a missing directory is not made.
\* Neither removing the old name nor making the new one need succeed.
MakeSymlinks ==
    /\ rpc = "links"
    /\ \E unmade \in SUBSET {n \in Of("symlink") : Troubled(n)} :
          \E gone \in SUBSET unmade :
             dtree' = (dtree \ gone)
                      \cup {n \in Of("symlink") \ unmade : Ancestors(n) \subseteq dtree}
    /\ rpc' = "follow"
    /\ UNCHANGED <<opt, source, wire, rlist, rpos>>

\* The follower e is removed, then linked to its leader, or made a copy of it,
\* if that is there.  Both may be refused, in silence or with a message only.
Linked(e, there) ==
    LET without == there \ {e.name}
    IN  { IF rlist[e.first].name \in without /\ Ancestors(e.name) \subseteq there
          THEN without \cup {e.name} ELSE without }
        \cup {tree \in {there, without} : Troubled(e.name)}

\* Mutant: the follower's directory is not made.
LinkInPlace ==
    /\ rpc = "follow" /\ rpos <= Len(rlist)
    /\ rpos' = rpos + 1
    /\ IF rlist[rpos].first \in DOMAIN rlist
       THEN dtree' \in Linked(rlist[rpos], dtree)
       ELSE UNCHANGED dtree
    /\ UNCHANGED <<opt, source, wire, rlist, rpc>>

LinkFollower ==
    /\ rpc = "follow" /\ rpos <= Len(rlist)
    /\ rpos' = rpos + 1
    /\ IF rlist[rpos].first \in DOMAIN rlist
       THEN \E made \in Makeable(Ancestors(rlist[rpos].name)) :
               dtree' \in Linked(rlist[rpos], dtree \cup made)
       ELSE UNCHANGED dtree
    /\ UNCHANGED <<opt, source, wire, rlist, rpc>>

Finish ==
    /\ rpc = "follow" /\ rpos = Len(rlist) + 1
    /\ rpc' = "done"
    /\ UNCHANGED <<opt, source, wire, rlist, rpos, dtree>>

-----------------------------------------------------------------------------

Init ==
    /\ opt \in OptionSets
    /\ attr = [i \in Inodes |-> 1]
    /\ frames = <<>>
    /\ lines = IF opt.files_from = <<>> THEN <<Dot>> ELSE opt.files_from
    /\ slist = <<>> /\ next = 1 /\ spc = "walk"
    /\ wire = <<>>
    /\ rlist = <<>> /\ rpc = "recv" /\ rpos = 1
    /\ dtree \in DestTrees

\* A source file is written to while the list is made.
Change(i) ==
    /\ spc = "walk" /\ i \in Changing /\ attr[i] < MaxTime
    /\ attr' = [attr EXCEPT ![i] = @ + 1]
    /\ UNCHANGED <<opt, frames, lines, slist, next, spc, wire, receiver>>

\* The list has been used up, or the transfer has failed.
Over == rpc \in {"done", "failed"} /\ UNCHANGED vars

Next ==
    \/ ListLine \/ (\E n \in Names : Visit(n)) \/ Leave \/ SortAndMark
    \/ SendEntry \/ SendEnd
    \/ RecvEntry \/ RecvEnd
    \/ delete_extraneous_from_flist \/ MakeDirs \/ TransferFiles \/ FailTransfer
    \/ MakeSymlinks \/ LinkFollower \/ Finish
    \/ (\E i \in Inodes : Change(i))
    \/ Over

Spec == Init /\ [][Next]_vars

-----------------------------------------------------------------------------
(* Properties.                                                             *)

Entries == [name : Seq(Bytes), ino : Inodes, type : Types, perm : Nat, mtime : Nat,
            uid : Nat, first : Nat, leader : BOOLEAN]

Decoded == [name : Seq(Bytes), type : Types, perm : Nat, mtime : Nat, uid : Nat, first : Nat]

\* The type of every variable but the messages.
TypeOK ==
    /\ opt \in OptionSets
    /\ attr \in [Inodes -> 1..MaxTime]
    /\ slist \in Seq(Entries) /\ rlist \in Seq(Decoded)
    /\ next \in 1..(Len(slist) + 1) /\ rpos \in 1..(Len(rlist) + 1)
    /\ spc \in {"walk", "send", "sent", "panic"}
    /\ rpc \in {"recv", "delete", "dirs", "files", "links", "follow", "done", "failed"}
    /\ lines \in Seq(Seq(Bytes))

\* What the receiver should have for an entry: fields that are not preserved
\* are 0, and a follower's are its leader's.
Received(e) ==
    [name |-> e.name, type |-> e.type, perm |-> e.perm,
     mtime |-> IF opt.times THEN e.mtime ELSE 0, uid |-> IF opt.owner THEN e.uid ELSE 0,
     first |-> IF Follower(e) THEN e.first ELSE 0]

\* The receiver takes an entry for an entry and the end for the end, although
\* two flags share a bit and flags may be absent, and reads exactly the fields
\* that were written: which they are, each side finds out for itself.
AlignedList ==
    rpc = "recv" /\ wire # <<>> =>
        /\ IsEnd(Head(wire).flags) <=> Len(rlist) = Len(slist)
        /\ DOMAIN Head(wire).f = IF IsEnd(Head(wire).flags) THEN TrailerRead(Head(wire).flags)
                                ELSE FieldsRead(Head(wire), Latest(rlist))

\* What has been decoded is what was sent, although each entry is only the
\* difference from the one before and followers carry no fields at all: the
\* two sides' notions of the entry before never drift apart (send.rs, recv.rs).
SameList == rpc = "recv" => \A i \in DOMAIN rlist : rlist[i] = Received(slist[i])

\* An index means the same file to both sides: sorting what was received does
\* not move anything, whatever names and types the list holds.
SameIndex ==
    rpc # "recv" /\ ~opt.foreign =>
        /\ Len(rlist) = Len(slist)
        /\ \A i \in DOMAIN rlist : rlist[i] = Received(slist[i])

\* After the receiver's sort a follower's reference leads to a name of the same
\* inode that is no follower itself, in whatever order the peer sent the list.
GroupsKept ==
    rpc # "recv" =>
        \A i \in DOMAIN rlist : rlist[i].first > 0 =>
            /\ rlist[i].first \in DOMAIN rlist
            /\ Tree[rlist[rlist[i].first].name] = Tree[rlist[i].name]
            /\ rlist[rlist[i].first].first = 0

\* Names the walk from r passes on its way to n, r and n not included.
Between(r, n) == {a \in Ancestors(n) : r = Dot \/ r \in Ancestors(a)}

Reached(r) ==
    {n \in Names \ {Dot, r} :
        /\ r = Dot \/ r \in Ancestors(n)
        /\ {r} \cap Unreadable = {} /\ Between(r, n) \cap (Excluded \cup Unreadable) = {}
        /\ opt.recursive \/ (r = Dot /\ Ancestors(n) = {})
        /\ n \notin Excluded /\ WithinLimits(n)}

Pruned(r, n) ==
    /\ opt.prune /\ opt.recursive /\ n # Dot /\ Type(n) = "dir"
    /\ \A m \in Reached(r) : n \in Ancestors(m) => Type(m) = "dir"

Selected(r) ==
    {n \in Reached(r) : ~Pruned(r, n)}
    \cup {n \in {r} \cap Names : WithinLimits(n) /\ ~Pruned(r, n)}

\* The walk lists exactly the names that are to be listed, defined here
\* without a walk: reachable, not excluded, within the size limits, and under
\* --prune-empty-dirs no directory without anything but directories below it.
WalkComplete ==
    spc = "send" =>
        Listed(slist) = IF opt.files_from = <<>> THEN Selected(Dot)
                        ELSE UNION {Selected(opt.files_from[i]) : i \in DOMAIN opt.files_from}

Distinct(list) == \A i, j \in DOMAIN list : list[i].name = list[j].name => i = j

\* What may keep the name of a listed entry away.  A regular file that is no
\* follower is away only where its size is beyond the receiver's limits.
Missable(e) ==
    \/ e.type \in {"device", "special"}
    \/ e.type = "file" /\ Size(e.name) \notin opt.rlimits
    \/ (e.type \in {"dir", "symlink"} \/ e.first > 0) /\ Troubled(e.name)
    \/ e.type = "symlink" /\ ~(Ancestors(e.name) \subseteq Listed(rlist))

\* After a session the receiver calls a success every listed directory and
\* regular file is there, followers and files whose directory is not listed
\* included, and every symbolic link whose directory is: only the receiver's
\* size limits, and calls refused that it does not look at, make an exception,
\* the latter never for a file that is no follower.  After --delete nothing
\* else is there but where it was refused.
AllThere ==
    rpc = "done" /\ Distinct(rlist) =>
        /\ \A i \in DOMAIN rlist :
             rlist[i].name = Dot \/ rlist[i].name \in dtree \/ Missable(rlist[i])
        /\ opt.delete => \A n \in dtree \ WithAncestors(Listed(rlist)) : Excused(n, dtree)
=============================================================================
