----------------------------- MODULE LocalCopy -----------------------------
(***************************************************************************)
(* A copy between two directories of one host (pipeline/local.rs): the     *)
(* walk over the source, the decision for each entry, backups, hard links, *)
(* --link-dest, temporary file and rename, --prune-empty-dirs and the      *)
(* --delete pass, over several runs that may be killed or end with an      *)
(* error between any two system calls.                                     *)
(*                                                                         *)
(* A file tree is a function from paths (sequences of names) to nodes.     *)
(* Names that are links to one file have nodes with the same inode.  The   *)
(* source does not change; the initial states offer destinations of all    *)
(* kinds instead.                                                          *)
(* Symbolic links never stand for directories.  Permissions, owners,       *)
(* extended attributes and the times of directories are left out.          *)
(***************************************************************************)
EXTENDS Integers, SequencesExt

CONSTANTS
    Src,         \* the source tree; inode 0: a file with a single name
    Trees,       \* the trees the destination may hold at first
    LinkDest,    \* the files of the --link-dest directory, by relative path
    Excluded,    \* relative paths the filter rules exclude
    Size,        \* Size[c]: length of a file with content c
    Limits,      \* the sizes --max-size and --min-size admit
    LiveTargets, \* symbolic link contents that lead to an existing file
    Suffixed,    \* Suffixed[n]: name n with the backup suffix
    TmpName,     \* TmpName[n]: name of the temporary file for n
    LdName,      \* LdName[n]: name n with the extension "__ldtmp__"
    Commands,    \* the command lines
    Now,         \* modification time of what is written
    MaxRuns      \* bound: runs

Partial == "torn"   \* a content cut off, or not written yet

Root == <<"dst">>

Path == Seq(STRING)

\* A "fifo" is any special file; a directory holds "none".
Kinds == {"dir", "file", "symlink", "fifo"}

Nodes == [k : Kinds, c : DOMAIN Size \cup {"none", Partial}, mt : Nat, i : Nat]

IsDir(t, p) == p \in DOMAIN t /\ t[p].k = "dir"

\* A tree: what is above a path of it is a directory of it.
IsTree(t) ==
    /\ DOMAIN t \subseteq Path /\ IsFiniteSet(DOMAIN t)
    /\ t \in [DOMAIN t -> Nodes]
    /\ \A p \in DOMAIN t : \A q \in Prefixes(p) \ {p} : IsDir(t, q)

ASSUME LocalAssumption ==
    /\ MaxRuns \in Nat /\ Now \in Nat
    /\ IsTree(Src)
    /\ \A p \in DOMAIN Src : Src[p].mt < Now
    /\ \A t \in Trees : IsTree(t) /\ <<>> \in DOMAIN t
    /\ DOMAIN LinkDest \subseteq Path /\ IsFiniteSet(DOMAIN LinkDest)
    /\ LinkDest \in [DOMAIN LinkDest -> Nodes]
    /\ \A cmd \in Commands :
         /\ cmd.kind \in {"sources", "files_from"}
         /\ cmd.args \in Seq(IF cmd.kind = "sources" THEN [path : Path \ {<<>>}, slash : BOOLEAN]
                                                     ELSE [path : Path \ {<<>>}, base : Path])
         /\ cmd.opts \subseteq {"recursive", "times", "delete", "backup", "backup_dir",
                "hard_links", "checksum", "ignore_existing", "update", "link_dest",
                "dry_run", "prune_empty_dirs", "max_size"}

\* What the source has no name for: a backup, temporary or --link-dest name.
HelperNames == Range(Suffixed) \cup Range(TmpName) \cup Range(LdName)

ASSUME NamesAssumption ==
    /\ DOMAIN TmpName \subseteq STRING
    /\ Suffixed \in [DOMAIN TmpName -> STRING]
    /\ TmpName \in [DOMAIN TmpName -> STRING]
    /\ LdName \in [DOMAIN TmpName -> STRING]
    /\ DOMAIN TmpName \cap HelperNames = {}
    /\ Range(Suffixed) \cap Range(TmpName) = {} /\ Range(LdName) \cap Range(TmpName) = {}
    /\ Range(Suffixed) \cap Range(LdName) = {}
    /\ \A m, n \in DOMAIN TmpName : Suffixed[m] = Suffixed[n] => m = n
    /\ Root \in Seq(DOMAIN TmpName)
    /\ \A p \in DOMAIN Src : p \in Seq(DOMAIN TmpName)

\* Names of one file show one file.  A temporary name that was left behind is
\* not one of several names of a file.
SameFile(m, n) == m.k # "dir" /\ n.k # "dir" /\ m.i = n.i

Single(t, p) ==
    /\ \A q \in DOMAIN t \ {p} : ~SameFile(t[p], t[q])
    /\ \A r \in DOMAIN LinkDest : ~SameFile(t[p], LinkDest[r])

OneFile(t) ==
    /\ \A p, q \in DOMAIN t : SameFile(t[p], t[q]) => t[p] = t[q]
    /\ \A p \in DOMAIN t, r \in DOMAIN LinkDest : SameFile(t[p], LinkDest[r]) => t[p] = LinkDest[r]
    /\ \A p \in DOMAIN t \ {<<>>} : Last(p) \in Range(TmpName) => Single(t, p)

ASSUME InodesAssumption ==
    /\ \A p, q \in DOMAIN Src : SameFile(Src[p], Src[q]) /\ Src[p].i # 0 => Src[p] = Src[q]
    /\ \A q, r \in DOMAIN LinkDest : SameFile(LinkDest[q], LinkDest[r]) => LinkDest[q] = LinkDest[r]
    /\ \A t \in Trees : OneFile(t)

\* What the quick check, by size and time, goes by: a file that it takes for
\* a source file has that file's content.
Telling(node) ==
    \A s \in DOMAIN Src :
        /\ node.k # "dir" /\ Src[s].k # "dir" /\ node.mt = Src[s].mt
        /\ node.k = "file" /\ Src[s].k = "file" => Size[node.c] = Size[Src[s].c]
        => node.k = Src[s].k /\ node.c = Src[s].c

ASSUME QuickCheckAssumption ==
    /\ \A p \in DOMAIN Src : Telling(Src[p])
    /\ \A r \in DOMAIN LinkDest : Telling(LinkDest[r])
    /\ \A t \in Trees : \A p \in DOMAIN t : Telling(t[p])

VARIABLES
    dst,     \* the destination tree
    before,  \* the destination tree when the run started
    bak,     \* the --backup-dir: name -> content
    cmd,     \* the command line of this run
    isdir,   \* dest_is_dir
    pc,      \* what the run does next
    arg,     \* the source argument, or line of the list, it has got to
    stack,   \* the directories being walked, innermost last
    cur,     \* the entry being copied
    kept,    \* paths --delete must spare
    links,   \* LinkMap: source inode -> first destination path
    runs     \* number of runs so far

localVars == <<dst, before, bak, cmd, isdir, pc, arg, stack, cur, kept, links, runs>>

-----------------------------------------------------------------------------
(* File trees.                                                             *)

DirNode == [k |-> "dir", c |-> "none", mt |-> 0, i |-> 0]

Put(t, p, node) == [q \in DOMAIN t \cup {p} |-> IF q = p THEN node ELSE t[q]]

Drop(t, P) == [q \in DOMAIN t \ P |-> t[q]]

Children(t, p) == {q \in DOMAIN t : q # <<>> /\ Front(q) = p}

\* remove_file: an error is ignored.
Unlinked(t, p) == IF IsDir(t, p) THEN t ELSE Drop(t, {p})

\* create_dir_all.
CanMkDirs(t, p) == \A q \in Prefixes(p) : q \in DOMAIN t => IsDir(t, q)

MkDirs(t, p) ==
    [q \in DOMAIN t \cup Prefixes(p) |-> IF q \in DOMAIN t THEN t[q] ELSE DirNode]

\* rename, of a file or of a directory with all it holds.  Nothing happens
\* when both names are links to one file.
CanRename(t, p, q) ==
    /\ p \in DOMAIN t
    /\ q \in DOMAIN t => /\ IsDir(t, p) = IsDir(t, q)
                         /\ IsDir(t, q) => Children(t, q) = {}

Renamed(t, p, q) ==
    IF q \in DOMAIN t /\ t[q].i = t[p].i /\ ~IsDir(t, p) THEN t
    ELSE LET moved == {r \in DOMAIN t : IsPrefix(p, r)}
             to(r) == q \o SubSeq(r, Len(p) + 1, Len(r))
             rest  == DOMAIN t \ moved
         IN  [r \in rest \cup {to(m) : m \in moved} |->
                IF \E m \in moved : to(m) = r
                THEN t[CHOOSE m \in moved : to(m) = r] ELSE t[r]]

Sibling(p, names) == Append(Front(p), names[Last(p)])

\* An inode no name uses.
Unused ==
    {i \in 1..(Cardinality(DOMAIN dst) + Cardinality(DOMAIN LinkDest) + 1) :
        /\ \A p \in DOMAIN dst : dst[p].i # i
        /\ \A r \in DOMAIN LinkDest : LinkDest[r].i # i}

FreshInode == CHOOSE i \in Unused : TRUE

\* Path::exists follows a symbolic link.
Exists(p) == p \in DOMAIN dst /\ (dst[p].k = "symlink" => dst[p].c \in LiveTargets)

Given(opt) == opt \in cmd.opts
Wet == ~Given("dry_run")

-----------------------------------------------------------------------------
(* The command line.                                                       *)

NoCommand == [kind |-> "sources", args |-> <<>>, slash |-> FALSE, opts |-> {}]

NoEntry == [s |-> <<>>, d |-> <<>>, rel |-> <<>>]

LocalInit ==
    /\ dst \in Trees /\ before = dst /\ bak = <<>>
    /\ cmd = NoCommand /\ isdir = FALSE /\ pc = "idle"
    /\ arg = 1 /\ stack = <<>> /\ cur = NoEntry
    /\ kept = {} /\ links = <<>> /\ runs = 0

\* The destination is a directory if the command line says so with a slash, if
\* there are several sources, or if it is one already.
Start ==
    /\ pc \in {"idle", "done"} /\ runs < MaxRuns
    /\ cmd' \in Commands
    /\ isdir' = (cmd'.slash \/ IsDir(dst, Root)
                 \/ (cmd'.kind = "sources" /\ Len(cmd'.args) > 1))
    /\ LET make == isdir' /\ "dry_run" \notin cmd'.opts
       IN  /\ make => CanMkDirs(dst, Root)
           /\ dst' = IF make THEN MkDirs(dst, Root) ELSE dst
    /\ before' = dst /\ pc' = "walk" /\ arg' = 1 /\ runs' = runs + 1
    /\ stack' = <<>> /\ cur' = NoEntry /\ kept' = {} /\ links' = <<>>
    /\ UNCHANGED bak

Run == UNCHANGED <<before, cmd, isdir, runs>>

\* Where a source argument goes: the contents of a directory with a trailing
\* slash go into the destination itself.  A line of the list goes to its own
\* place below the destination.
Task(a) ==
    IF cmd.kind = "files_from"
    THEN [s |-> a.base \o a.path, d |-> Root \o a.path, rel |-> a.path]
    ELSE [s |-> a.path,
          d |-> IF isdir /\ ~(a.slash /\ IsDir(Src, a.path)) THEN Append(Root, Last(a.path)) ELSE Root,
          rel |-> IF IsDir(Src, a.path) THEN <<>> ELSE <<Last(a.path)>>]

Rel(p) == SubSeq(p, Len(Root) + 1, Len(p))

Frame(task) ==
    [s |-> task.s, d |-> task.d, rel |-> task.rel, n |-> 0,
     todo |-> {Last(p) : p \in Children(Src, task.s)}]

\* The size limits are for regular files.
Admitted(s) == Given("max_size") /\ Src[s].k = "file" => Size[Src[s].c] \in Limits

-----------------------------------------------------------------------------
(* The walk.                                                               *)

AtArg == pc = "walk" /\ stack = <<>> /\ arg <= Len(cmd.args)

\* A line of the list that is not there, a directory without -r and a file
\* outside the limits are passed over.  The directory itself is made when it
\* was listed.
SkipArg ==
    /\ AtArg
    /\ LET task == Task(cmd.args[arg])
           listed == cmd.kind = "files_from"
       IN  \/ /\ listed /\ task.s \notin DOMAIN Src
              /\ UNCHANGED <<dst, kept>>
           \/ /\ IsDir(Src, task.s) /\ ~Given("recursive")
              /\ listed /\ Wet => CanMkDirs(dst, task.d)
              /\ dst' = IF listed /\ Wet THEN MkDirs(dst, task.d) ELSE dst
              /\ kept' = IF listed THEN kept \cup {Rel(task.d)} ELSE kept
           \/ /\ task.s \in DOMAIN Src /\ ~IsDir(Src, task.s) /\ ~Admitted(task.s)
              /\ UNCHANGED <<dst, kept>>
    /\ arg' = arg + 1
    /\ Run /\ UNCHANGED <<bak, pc, stack, cur, links>>

\* The directory is made and copy_dir_recursive called.
Enter(task, above) ==
    /\ IsDir(Src, task.s)
    /\ Wet => CanMkDirs(dst, task.d)
    /\ dst' = IF Wet THEN MkDirs(dst, task.d) ELSE dst
    /\ stack' = Append(above, Frame(task))
    /\ UNCHANGED <<kept, cur, pc>>

DirArg ==
    /\ AtArg
    /\ Given("recursive") /\ Enter(Task(cmd.args[arg]), stack)
    /\ Run /\ UNCHANGED <<bak, arg, links>>

FileArg ==
    /\ AtArg
    /\ LET task == Task(cmd.args[arg])
           makes == cmd.kind = "files_from" /\ Wet
       IN  /\ task.s \in DOMAIN Src /\ ~IsDir(Src, task.s) /\ Admitted(task.s)
           /\ makes => CanMkDirs(dst, Front(task.d))
           /\ dst' = IF makes THEN MkDirs(dst, Front(task.d)) ELSE dst
           /\ cur' = task /\ pc' = "entry"
    /\ Run /\ UNCHANGED <<bak, arg, stack, kept, links>>

Top == stack[Len(stack)]

\* read_dir returns the entries in any order.
Visit(n) ==
    /\ pc = "walk" /\ stack # <<>> /\ n \in Top.todo
    /\ LET child == [s |-> Append(Top.s, n), d |-> Append(Top.d, n), rel |-> Append(Top.rel, n)]
           rest  == [stack EXCEPT ![Len(stack)].todo = @ \ {n}]
       IN  \/ /\ \/ child.rel \in Excluded
                 \/ ~IsDir(Src, child.s) /\ ~Admitted(child.s)
              /\ stack' = rest
              /\ UNCHANGED <<dst, kept, cur, pc>>
           \/ child.rel \notin Excluded /\ Enter(child, rest)
           \/ /\ child.rel \notin Excluded /\ ~IsDir(Src, child.s) /\ Admitted(child.s)
              /\ kept' = kept \cup {child.rel}
              /\ cur' = child /\ pc' = "entry" /\ stack' = rest
              /\ UNCHANGED dst
    /\ Run /\ UNCHANGED <<bak, arg, links>>

\* The end of a directory: it counts in the directory above, unless it is
\* empty and pruned.  The path kept is relative to the source, or to the
\* destination for the directory the walk began with.
Leave ==
    /\ pc = "walk" /\ stack # <<>> /\ Top.todo = {}
    /\ LET outer  == Len(stack) = 1
           pruned == /\ Top.n = 0 /\ Given("prune_empty_dirs")
                     /\ outer /\ cmd.kind = "sources" => isdir
           up     == Front(stack)
       IN  /\ dst' = IF pruned /\ Wet /\ Children(dst, Top.d) = {} THEN Drop(dst, {Top.d}) ELSE dst
           /\ kept' = IF pruned THEN kept ELSE kept \cup {IF outer THEN Rel(Top.d) ELSE Top.rel}
           /\ stack' = IF outer \/ pruned THEN up ELSE [up EXCEPT ![Len(up)].n = @ + 1]
           /\ arg' = IF outer THEN arg + 1 ELSE arg
    /\ Run /\ UNCHANGED <<bak, pc, cur, links>>

EndWalk ==
    /\ pc = "walk" /\ stack = <<>> /\ arg > Len(cmd.args)
    /\ pc' = IF Given("delete") /\ isdir THEN "delete" ELSE "done"
    /\ Run /\ UNCHANGED <<dst, bak, arg, stack, cur, kept, links>>

-----------------------------------------------------------------------------
(* One entry: copy_entry.                                                  *)

At(state) == pc = state

\* The entry is dealt with.  It counts in its directory; a source argument is
\* kept from now on.
EntryDone ==
    LET outer == stack = <<>>
    IN  /\ pc' = "walk"
        /\ stack' = IF outer THEN stack ELSE [stack EXCEPT ![Len(stack)].n = @ + 1]
        /\ kept' = IF outer THEN kept \cup {Rel(cur.d)} ELSE kept
        /\ arg' = IF outer THEN arg + 1 ELSE arg
        /\ UNCHANGED cur

Onward(state) == pc' = state /\ UNCHANGED <<stack, kept, arg, cur>>

From == Src[cur.s]

Linked == Given("hard_links") /\ From.k = "file" /\ From.i # 0

Follower == Linked /\ From.i \in DOMAIN links

\* Mutant: the times are not compared.
InSyncSize(s, d) ==
    /\ d \in DOMAIN dst /\ ~IsDir(dst, d)
    /\ dst[d].k = "file" /\ Src[s].k = "file" => Size[dst[d].c] = Size[Src[s].c]

\* dest_meta_in_sync
InSync(s, d) ==
    /\ d \in DOMAIN dst /\ ~IsDir(dst, d)
    /\ dst[d].k = "file" /\ Src[s].k = "file" => Size[dst[d].c] = Size[Src[s].c]
    /\ dst[d].mt = Src[s].mt

Skipped ==
    \/ ~Given("checksum") /\ InSync(cur.s, cur.d)
    \/ Given("ignore_existing") /\ Exists(cur.d)
    \/ Given("update") /\ cur.d \in DOMAIN dst /\ dst[cur.d].mt > From.mt

\* Mutant: a name that is passed over is not noted.
NoteLeaderCopied ==
    links' = IF Linked /\ ~Follower /\ Wet /\ ~Skipped THEN Put(links, From.i, cur.d) ELSE links

\* The first name of a group is noted, whatever becomes of it afterwards.
NoteLeader ==
    links' = IF Linked /\ ~Follower /\ Wet THEN Put(links, From.i, cur.d) ELSE links

Linkable ==
    /\ Given("link_dest") /\ From.k = "file"
    /\ cur.rel \in DOMAIN LinkDest
    /\ LinkDest[cur.rel].k = "file"
    /\ Size[LinkDest[cur.rel].c] = Size[From.c] /\ LinkDest[cur.rel].mt = From.mt

Write ==
    CASE From.k = "file"    -> "create"
      [] From.k = "symlink" -> "unlink"
      [] OTHER              -> "special"

\* Mutant: the backup belongs to the quick check.
ReplaceQuick ==
    IF Given("backup") /\ ~Given("checksum") /\ Exists(cur.d) THEN "backup" ELSE Write

\* What is next for an entry that is neither a follower nor passed over and
\* cannot be linked.
Replace == IF Given("backup") /\ Exists(cur.d) THEN "backup" ELSE Write

DryEntry ==
    /\ At("entry") /\ ~Wet /\ EntryDone
    /\ Run /\ UNCHANGED <<dst, bak, links>>

SkipEntry ==
    /\ At("entry") /\ Wet /\ ~Follower /\ Skipped
    /\ NoteLeader /\ EntryDone
    /\ Run /\ UNCHANGED <<dst, bak>>

UnlinkFollower ==
    /\ At("entry") /\ Wet /\ Follower
    /\ CanMkDirs(dst, Front(cur.d))
    /\ dst' = Unlinked(MkDirs(dst, Front(cur.d)), cur.d)
    /\ Onward("follow")
    /\ Run /\ UNCHANGED <<bak, links>>

LinkFollower ==
    /\ At("follow")
    /\ IsDir(dst, Front(cur.d)) /\ cur.d \notin DOMAIN dst
    /\ links[From.i] \in DOMAIN dst /\ ~IsDir(dst, links[From.i])
    /\ dst' = Put(dst, cur.d, dst[links[From.i]])
    /\ EntryDone
    /\ Run /\ UNCHANGED <<bak, links>>

\* --link-dest: the candidate is linked under a temporary name, an old one of
\* that name having been removed.  If that fails the file is copied.
LinkTmp ==
    /\ At("entry") /\ Wet /\ ~Follower /\ ~Skipped /\ Linkable
    /\ NoteLeader
    /\ LET tmp == Sibling(cur.d, LdName)
           clean == Unlinked(dst, tmp)
       IN  \/ /\ IsDir(dst, Front(cur.d)) /\ tmp \notin DOMAIN clean
              /\ dst' = Put(clean, tmp, LinkDest[cur.rel])
              /\ Onward("linked")
           \/ dst' = clean /\ Onward(Replace)
    /\ Run /\ UNCHANGED bak

LinkName ==
    /\ At("linked")
    /\ LET tmp == Sibling(cur.d, LdName)
       IN  \/ /\ CanRename(dst, tmp, cur.d)
              /\ dst' = Renamed(dst, tmp, cur.d)
              /\ EntryDone
           \/ dst' = Unlinked(dst, tmp) /\ Onward(Replace)
    /\ Run /\ UNCHANGED <<bak, links>>

Decide ==
    /\ At("entry") /\ Wet /\ ~Follower /\ ~Skipped /\ ~Linkable
    /\ NoteLeader /\ Onward(Replace)
    /\ Run /\ UNCHANGED <<dst, bak>>

\* backup_file: the old file moves to its suffixed name, or a copy of it goes
\* to the backup directory, under its last name.
Backup ==
    /\ At("backup")
    /\ \/ /\ ~Given("backup_dir")
          /\ CanRename(dst, cur.d, Sibling(cur.d, Suffixed))
          /\ dst' = Renamed(dst, cur.d, Sibling(cur.d, Suffixed))
          /\ UNCHANGED bak
       \/ /\ Given("backup_dir") /\ dst[cur.d].k # "dir"
          /\ bak' = Put(bak, Last(cur.d), dst[cur.d].c)
          /\ UNCHANGED dst
    /\ Onward(Write)
    /\ Run /\ UNCHANGED links

\* Devices, pipes and sockets are not made.
Special ==
    /\ At("special") /\ EntryDone
    /\ Run /\ UNCHANGED <<dst, bak, links>>

\* copy_symlink
UnlinkOld ==
    /\ At("unlink")
    /\ dst' = Unlinked(dst, cur.d)
    /\ Onward("symlink")
    /\ Run /\ UNCHANGED <<bak, links>>

Symlink ==
    /\ At("symlink") /\ IsDir(dst, Front(cur.d)) /\ cur.d \notin DOMAIN dst
    /\ dst' = Put(dst, cur.d, [k |-> "symlink", c |-> From.c, mt |-> Now, i |-> FreshInode])
    /\ EntryDone
    /\ Run /\ UNCHANGED <<bak, links>>

\* Mutant: the destination is written in place.
TmpInPlace == cur.d

\* copy_regular: the temporary file.
Tmp == Sibling(cur.d, TmpName)

CreateTmp ==
    /\ At("create")
    /\ CanMkDirs(dst, Front(cur.d)) /\ ~IsDir(dst, Tmp)
    /\ LET made == MkDirs(dst, Front(cur.d))
           i == IF Tmp \in DOMAIN dst THEN dst[Tmp].i ELSE FreshInode
       IN  dst' = Put(made, Tmp, [k |-> "file", c |-> Partial, mt |-> Now, i |-> i])
    /\ Onward("fill")
    /\ Run /\ UNCHANGED <<bak, links>>

FillTmp ==
    /\ At("fill")
    /\ dst' = [dst EXCEPT ![Tmp].c = From.c]
    /\ Onward("rename")
    /\ Run /\ UNCHANGED <<bak, links>>

RenameTmp ==
    /\ At("rename") /\ CanRename(dst, Tmp, cur.d)
    /\ dst' = Renamed(dst, Tmp, cur.d)
    /\ Onward("meta")
    /\ Run /\ UNCHANGED <<bak, links>>

\* apply_file_meta
SetTime ==
    /\ At("meta")
    /\ dst' = IF Given("times") THEN [dst EXCEPT ![cur.d].mt = From.mt] ELSE dst
    /\ EntryDone
    /\ Run /\ UNCHANGED <<bak, links>>

-----------------------------------------------------------------------------
(* The --delete pass, the end of a run.                                    *)

\* The walk spares what is kept and enters the directories among it.
Doomed(p) == \E q \in Prefixes(p) : IsStrictPrefix(Root, q) /\ Rel(q) \notin kept

Delete(p) ==
    /\ At("delete") /\ Wet /\ IsDir(dst, Root)
    /\ Doomed(p) /\ Children(dst, p) = {}
    /\ dst' = Drop(dst, {p})
    /\ Run /\ UNCHANGED <<bak, pc, arg, stack, cur, kept, links>>

EndDelete ==
    /\ At("delete") /\ IsDir(dst, Root)
    /\ Wet => \A p \in DOMAIN dst : ~Doomed(p)
    /\ pc' = "done"
    /\ Run /\ UNCHANGED <<dst, bak, arg, stack, cur, kept, links>>

\* The run is killed, or a system call fails and ends it.  When the rename of
\* the temporary file fails, that file is removed first.
Kill ==
    /\ pc \notin {"idle", "done"}
    /\ \/ UNCHANGED dst
       \/ pc \in {"fill", "rename"} /\ dst' = Drop(dst, {Tmp})
    /\ pc' = "idle" /\ arg' = 1 /\ stack' = <<>> /\ cur' = NoEntry
    /\ kept' = {} /\ links' = <<>>
    /\ Run /\ UNCHANGED bak

LocalNext ==
    \/ Start \/ SkipArg \/ DirArg \/ FileArg \/ Leave \/ EndWalk
    \/ stack # <<>> /\ \E n \in Top.todo : Visit(n)
    \/ DryEntry \/ SkipEntry \/ UnlinkFollower \/ LinkFollower \/ LinkTmp \/ LinkName
    \/ Decide \/ Backup \/ Special \/ UnlinkOld \/ Symlink
    \/ CreateTmp \/ FillTmp \/ RenameTmp \/ SetTime
    \/ (\E p \in DOMAIN dst : Delete(p)) \/ EndDelete \/ Kill

LocalSpec == LocalInit /\ [][LocalNext]_localVars

-----------------------------------------------------------------------------
(* Properties.                                                             *)

\* What the command line asks for, from the trees alone: the source paths each
\* argument selects and where each of them goes.
Reached(task) ==
    {p \in DOMAIN Src :
        /\ IsPrefix(task.s, p)
        /\ p # task.s => Given("recursive")
        /\ \A q \in Prefixes(p) : IsStrictPrefix(task.s, q) =>
              task.rel \o SubSeq(q, Len(task.s) + 1, Len(q)) \notin Excluded}

Selected(task) ==
    {p \in Reached(task) :
        IF IsDir(Src, p)
        THEN /\ Given("recursive") \/ cmd.kind = "files_from"
             /\ Given("recursive") /\ Given("prune_empty_dirs") =>
                  \E f \in Reached(task) : IsPrefix(p, f) /\ ~IsDir(Src, f) /\ Admitted(f)
        ELSE Admitted(p)}

Place(task, p) == task.d \o SubSeq(p, Len(task.s) + 1, Len(p))

AllCopies ==
    UNION {{[k |-> k, s |-> p, d |-> Place(Task(cmd.args[k]), p)] :
               p \in Selected(Task(cmd.args[k]))} : k \in DOMAIN cmd.args}

\* A later argument replaces what an earlier one put in the same place.
Copies == LET all == AllCopies IN {x \in all : \A y \in all : y.d = x.d => y.k <= x.k}

Places == {x.d : x \in AllCopies}

\* All that is copied or walked.
AllReached ==
    UNION {{[k |-> k, s |-> p, d |-> Place(Task(cmd.args[k]), p)] :
               p \in {q \in Reached(Task(cmd.args[k])) : IsDir(Src, q) \/ Admitted(q)}} : k \in DOMAIN cmd.args}

\* No file goes where another source has a directory.
Clear ==
    LET all == AllReached
    IN  \A x, y \in all : ~IsDir(Src, x.s) /\ IsPrefix(x.d, y.d) => x.d = y.d /\ ~IsDir(Src, y.s)

\* Nor do two files go to one place.
Apart ==
    LET all == AllReached
    IN  \A x, y \in all : ~IsDir(Src, x.s) /\ IsPrefix(x.d, y.d) => x = y

\* The names kept are relative to the directory the --delete pass begins with,
\* and so are the directories above them kept.
Straight ==
    /\ cmd.kind = "sources"
    /\ \A k \in DOMAIN cmd.args : IsDir(Src, cmd.args[k].path) => Task(cmd.args[k]).d = Root

\* Under --prune-empty-dirs a directory with nothing but pipes may be removed
\* by a second argument that goes there.
Filled(task, p) ==
    Given("prune_empty_dirs") =>
        \E f \in Reached(task) : IsPrefix(p, f) /\ Src[f].k \in {"file", "symlink"} /\ Admitted(f)

\* A path with a helper name in it, or of what was in a directory backed up.
Helper(p) == ToSet(p) \cap HelperNames # {}

\* A run that returns has put every file and symbolic link it was free to
\* replace in its place, with its content and, under -t, its time; with
\* --delete nothing else is left, whatever an earlier run that was killed has
\* left behind and in whatever order the entries are read.
Mirror ==
    /\ pc = "done" /\ Wet /\ {"update", "ignore_existing"} \cap cmd.opts = {}
    /\ Clear /\ (Given("hard_links") => Apart)
    /\ Given("delete") /\ isdir => Straight
    => /\ \A x \in Copies :
             /\ Src[x.s].k \in {"dir", "file", "symlink"}
             /\ Src[x.s].k = "dir" => Filled(Task(cmd.args[x.k]), x.s)
             => /\ x.d \in DOMAIN dst
                /\ dst[x.d].k = Src[x.s].k
                /\ dst[x.d].k # "dir" => dst[x.d].c = Src[x.s].c
                /\ dst[x.d].k = "file" /\ Given("times") => dst[x.d].mt = Src[x.s].mt
       /\ Given("delete") /\ isdir =>
             \A p \in DOMAIN dst : IsStrictPrefix(Root, p) => p \in Places

\* At every moment, and so wherever the run is killed, a name of the
\* destination holds what it held before or the whole of its source; names
\* that are not the run's business stay; a dry run changes nothing.  A link
\* takes its content from the first name of its group, wherever that name has
\* got its content from.
OnlyCopies ==
    LET new == {p \in DOMAIN dst : /\ ~IsDir(dst, p)
                                   /\ p \in DOMAIN before => dst[p].c # before[p].c
                                   /\ ~Helper(p)}
        gone == {p \in DOMAIN before \ DOMAIN dst : ~Helper(p)}
        all == AllCopies
    IN  /\ pc \notin {"idle", "done"} /\ ~Wet => dst = before
        /\ (Given("hard_links") => Apart /\ {"update", "ignore_existing"} \cap cmd.opts = {}) =>
             \A p \in new : \E x \in all : x.d = p /\ dst[p].c = Src[x.s].c
        /\ {"delete", "prune_empty_dirs"} \cap cmd.opts = {} =>
             \A p \in gone : \E x \in all : IsPrefix(x.d, p) /\ ~IsDir(Src, x.s)

\* With --backup no content of the destination is lost by a copy, also when
\* the run is killed between the backup and the copy.  Links replace files
\* without a backup, a second file for one place replaces the backup too, and
\* the backup directory has one place for all files of the same last name.
BackedUp ==
    Given("backup") /\ {"delete", "hard_links", "link_dest"} \cap cmd.opts = {} /\ Apart =>
        \A p \in DOMAIN before :
            \/ before[p].k # "file" \/ Helper(p)
            \/ \E q \in DOMAIN dst : dst[q].c = before[p].c
            \/ \E n \in DOMAIN bak : bak[n] = before[p].c
            \/ /\ Given("backup_dir")
               /\ \E q \in DOMAIN before : q # p /\ q # <<>> /\ Last(q) = Last(p)

\* With -H all names of a source file are names of one file when the run
\* returns, whether the first of them was copied, linked from --link-dest or
\* passed over.
LinksKept ==
    /\ pc = "done" /\ Wet /\ Given("hard_links") /\ Apart
    /\ Given("delete") /\ isdir => Straight
    => \A x, y \in Copies :
          /\ Src[x.s].k = "file" /\ Src[x.s].i # 0
          /\ Src[y.s].k = "file" /\ Src[y.s].i = Src[x.s].i
          => /\ x.d \in DOMAIN dst /\ y.d \in DOMAIN dst
             /\ dst[x.d].i = dst[y.d].i

-----------------------------------------------------------------------------
(* What the documentation of the module says and the code does not do.     *)

\* local.rs:19: "--delete removes files in dest that are absent from source":
\* what the run has copied is not marked for deletion.
DeletesOnlyAbsent == pc = "delete" => \A d \in Places : ~Doomed(d)
=============================================================================
