---------------------------- MODULE MCLocalCopy ----------------------------
(* LocalCopy for TLC: a source directory with two names of one file, a       *)
(* directory with an excluded file, one with a file outside the size limits, *)
(* a symbolic link and a pipe, beside a single file and a directory with a   *)
(* name that the first has too.                                              *)
EXTENDS LocalCopy

Node(k, c, mt, i) == [k |-> k, c |-> c, mt |-> mt, i |-> i]
File(c, mt, i) == Node("file", c, mt, i)

Source ==
    [p \in {<<>>, <<"a">>, <<"a", "d">>, <<"a", "e">>, <<"c">>} |-> DirNode]
    @@ (<<"a", "x">> :> File("X", 4, 9)) @@ (<<"a", "y">> :> File("X", 4, 9))
    @@ (<<"a", "d", "z">> :> File("Z", 2, 0)) @@ (<<"a", "d", "o">> :> File("O", 5, 0))
    @@ (<<"a", "e", "big">> :> File("B", 2, 0))
    @@ (<<"a", "l">> :> Node("symlink", "L", 6, 0))
    @@ (<<"a", "p">> :> Node("fifo", "none", 7, 0))
    @@ (<<"b">> :> File("Y", 8, 0)) @@ (<<"c", "y">> :> File("C", 0, 0))

\* A destination with older and newer files, a file in sync, and names the
\* source does not have.
Stale ==
    [p \in {<<>>, Root, Root \o <<"d">>, Root \o <<"e">>} |-> DirNode]
    @@ (Root \o <<"x">> :> File("x", 1, 1)) @@ (Root \o <<"y">> :> File("X", 4, 2))
    @@ (Root \o <<"d", "z">> :> File("z", 3, 3)) @@ (Root \o <<"d", "k">> :> File("k", 1, 4))
    @@ (Root \o <<"e", "f">> :> File("f", 1, 5)) @@ (Root \o <<"l">> :> Node("symlink", "M", 1, 6))
    @@ (Root \o <<"p">> :> File("p", 1, 7))

\* A directory in the place of a file.
Conflict ==
    [p \in {<<>>, Root, Root \o <<"x">>} |-> DirNode]
    @@ (Root \o <<"x", "f">> :> File("f", 1, 1)) @@ (Root \o <<"y">> :> File("y", 1, 2))

\* What a run with --backup leaves that is killed while it copies x.
Interrupted ==
    [p \in {<<>>, Root, Root \o <<"e">>} |-> DirNode]
    @@ (Root \o <<"x~">> :> File("x", 1, 1)) @@ (Root \o <<"x.tmp">> :> File(Partial, 9, 2))
    @@ (Root \o <<"y">> :> File("X", 9, 3)) @@ (Root \o <<"x.__ldtmp__">> :> File("X", 4, 91))

NoDest == <<>> :> DirNode

OldCopy == NoDest @@ (Root :> File("y", 1, 1))

AllTrees == {Stale, Conflict, Interrupted, NoDest, OldCopy}

Snapshot == (<<"x">> :> File("X", 4, 91)) @@ (<<"d", "z">> :> File("w", 1, 92))

Omitted == {<<"d", "o">>}

Sizes == [c \in {"X", "Z", "O", "Y", "C", "x", "y", "z", "k", "f", "p", "w", "L", "M", "torn"} |-> 1] @@ ("B" :> 5)

SmallOnly == {1}

Live == {}

Names == {"a", "b", "c", "d", "e", "o", "big", "l", "p", "x", "y", "z", "dst"}
Tilde == [n \in Names |-> n \o "~"]
Temporary == [n \in Names |-> n \o ".tmp"]
LdTemporary == [n \in Names |-> n \o ".__ldtmp__"]

Line(path) == [base |-> <<"a">>, path |-> path]
Arg(path, slash) == [path |-> path, slash |-> slash]

Command(args, slash, opts) == [kind |-> "sources", args |-> args, slash |-> slash, opts |-> opts]
Listed(lines, opts) == [kind |-> "files_from", args |-> lines, slash |-> TRUE, opts |-> opts]

Contents(opts) == Command(<<Arg(<<"a">>, TRUE)>>, TRUE, {"recursive", "times"} \cup opts)

GoodCommands ==
    {Contents({"delete"}), Contents({"hard_links", "delete"}), Contents({"backup"}),
     Contents({"backup", "backup_dir", "checksum"}),
     Contents({"prune_empty_dirs", "max_size", "delete"}),
     Contents({"dry_run", "delete", "prune_empty_dirs", "max_size", "backup", "hard_links"}),
     Contents({"link_dest", "hard_links", "checksum"}),
     Command(<<Arg(<<"a">>, FALSE)>>, FALSE, {"recursive"}),
     Command(<<Arg(<<"b">>, FALSE), Arg(<<"a">>, TRUE)>>, FALSE, {"recursive", "update", "hard_links"}),
     Command(<<Arg(<<"b">>, FALSE), Arg(<<"a">>, TRUE)>>, FALSE, {"max_size"}),
     Command(<<Arg(<<"a">>, TRUE), Arg(<<"c">>, TRUE)>>, TRUE, {"recursive", "times"}),
     Command(<<Arg(<<"b">>, FALSE)>>, FALSE, {"backup"}),
     Listed(<<Line(<<"d">>), Line(<<"e">>), Line(<<"gone">>)>>, {}),
     Listed(<<Line(<<"e">>), Line(<<"d">>), Line(<<"e", "big">>), Line(<<"d", "z">>)>>,
            {"recursive", "ignore_existing", "prune_empty_dirs", "max_size"})}

\* Without the trailing slash.
DirectoryItself ==
    {Command(<<Arg(<<"a">>, FALSE)>>, FALSE, {"recursive", "times", "delete"})}
=============================================================================
