------------------------------ MODULE DestTree ------------------------------
(***************************************************************************)
(* The receiver's destination tree over several runs, any of which may be  *)
(* killed or end with an error between two system calls                    *)
(* (pipeline/receiver.rs, run_server_receiver: which files are asked for,  *)
(* how a file is installed, --link-dest, hard-link followers).             *)
(*                                                                         *)
(* Names refer to inodes, since links make names share them.  An inode has *)
(* a content and a modification time.  A version of a source file is       *)
(* identified with its modification time: an even number, a new one for    *)
(* each change.  A file the receiver has just written carries the time of  *)
(* the write, an odd number: source and destination never change in the    *)
(* same instant.  Without -t all times in the list are 0, which is before  *)
(* all of them, and so are those the files are given.                      *)
(***************************************************************************)
EXTENDS Integers

CONSTANTS
    NFiles,     \* regular files in the list
    Leader,     \* Leader[f]: first file of f's hard-link group, f if it has none
    NInodes,    \* inodes of the destination file system
    OptionSets, \* the sets of options a run may be given
    Size,       \* Size[v]: length of a file in version v
    Limits,     \* the sizes --max-size and --min-size admit
    CopyFails,  \* the copy that replaces a failed link may fail or break off, too
    MaxClock,   \* bound: changes of source files
    MaxRuns     \* bound: runs

Files  == 1..NFiles
Inodes == 1..NInodes

None  == 0       \* no such name
Torn  == -1      \* a content cut off, or not written yet
Other == -2      \* a content no source file had
Cut   == -3      \* what fs::copy leaves of a file until it has written it
Epoch == -1      \* the time 0

Versions == {2 * k : k \in 0..MaxClock}
Stamps   == {Epoch} \cup 0..(2 * MaxClock + 1)
Contents == Versions \cup {Torn, Other, Cut}

ASSUME TreeAssumption ==
    /\ NFiles \in Nat /\ MaxClock \in Nat /\ MaxRuns \in Nat
    /\ Leader \in [Files -> Files]
    /\ \A f \in Files : Leader[Leader[f]] = Leader[f]
    /\ NInodes \in Nat /\ NInodes >= 2 * NFiles
    /\ OptionSets \subseteq
         SUBSET {"times", "update", "ignore_existing", "checksum", "link_dest", "max_size"}
    /\ Size \in [Versions -> Nat]
    /\ Limits \subseteq Nat
    /\ CopyFails \in BOOLEAN

VARIABLES
    clock,    \* number of changes of source files so far
    src,      \* src[f]: version of the source file
    list,     \* list[f]: version in the file list of this run
    ino,      \* the inodes
    dst,      \* dst[f]: inode of the destination file, or None
    snap,     \* snap[f]: inode of the file in the --link-dest directory
    ldtmp,    \* ldtmp[f]: inode of f's "__ldtmp__" name
    tmp,      \* inode of this run's temporary file
    pc,       \* what the run does next
    pos,      \* the file it has got to
    got,      \* the content received for it
    opts,     \* options of this run
    inplace,  \* the runs use --inplace
    runs      \* number of runs so far

tree == <<ino, dst, snap, ldtmp, tmp>>
vars == <<clock, src, list, ino, dst, snap, ldtmp, tmp, pc, pos, got, opts, inplace, runs>>

-----------------------------------------------------------------------------
(* Inodes and names.                                                       *)

Now == 2 * clock + 1

Inode(content, mtime) == [c |-> content, mt |-> mtime]

Length(content) == IF content \in Versions THEN Size[content] ELSE 0

Free == Inodes \ ({dst[f] : f \in Files} \cup {snap[f] : f \in Files}
                  \cup {ldtmp[f] : f \in Files} \cup {tmp})

\* The file system hands out inodes in order.
Fresh(i) == i \in Free /\ \A j \in Free : i <= j

\* A tree left by earlier runs or by other programs; inode f is made for file
\* f, inode NFiles + f for its counterpart in the --link-dest directory.
Init ==
    /\ clock = 0
    /\ src = [f \in Files |-> 0]
    /\ list = src
    /\ ino \in [Inodes -> {Inode(0, 0), Inode(0, Epoch), Inode(Other, 1)}]
    /\ dst \in [Files -> Inodes \cup {None}]
    /\ \A f \in Files : dst[f] \in {None, f, Leader[f]}
    /\ snap \in [Files -> Inodes \cup {None}]
    /\ \A f \in Files : snap[f] \in {None, NFiles + f}
    /\ ldtmp = [f \in Files |-> None] /\ tmp = None
    /\ \A i \in Free : ino[i] = Inode(Other, 1)
    /\ pc = "idle" /\ pos = 1 /\ got = Torn
    /\ opts = {} /\ inplace \in BOOLEAN /\ runs = 0

-----------------------------------------------------------------------------
(* The scan: which files are asked for.                                    *)

\* A run starts with the file list the sender has built.
Start ==
    /\ pc \in {"idle", "done"} /\ runs < MaxRuns
    /\ runs' = runs + 1
    /\ opts' \in OptionSets
    /\ list' = src
    /\ pos' = 1 /\ pc' = "scan"
    /\ UNCHANGED <<clock, src, tree, got, inplace>>

Exists(f) == dst[f] # None

\* The modification time the list has for a file.
ListTime(f) == IF "times" \in opts THEN list[f] ELSE Epoch

\* The checks that pass a file over before its content matters.
Skipped(f) ==
    \/ Leader[f] # f
    \/ "max_size" \in opts /\ Size[list[f]] \notin Limits
    \/ "ignore_existing" \in opts /\ Exists(f)
    \/ "update" \in opts /\ Exists(f) /\ ino[dst[f]].mt > ListTime(f)

\* Mutant: the modification time is not compared.
SameSize(i, f) == Length(ino[i].c) = Size[list[f]]

\* Same size and same modification time.
SameStat(i, f) == SameSize(i, f) /\ ino[i].mt = ListTime(f)

\* Mutant: any candidate of the right size will do.
LinkableAnyTime(f) == "link_dest" \in opts /\ snap[f] # None /\ SameSize(snap[f], f)

Linkable(f) == "link_dest" \in opts /\ snap[f] # None /\ SameStat(snap[f], f)

Unchanged(f) == "checksum" \notin opts /\ Exists(f) /\ SameStat(dst[f], f)

At(state) == pc = state /\ pos \in Files

NextFile(state) == pc' = state /\ pos' = pos + 1

Run == UNCHANGED <<clock, src, list, opts, inplace, runs>>

SkipFile ==
    /\ At("scan") /\ Skipped(pos)
    /\ NextFile("scan")
    /\ Run /\ UNCHANGED <<tree, got>>

\* No --link-dest candidate: on to the quick check.
NoCandidate ==
    /\ At("scan") /\ ~Skipped(pos) /\ ~Linkable(pos)
    /\ pc' = "check"
    /\ Run /\ UNCHANGED <<tree, got, pos>>

\* An old "__ldtmp__" name is removed and a new one linked to the candidate;
\* if that fails the file is treated as if there were no candidate.
LinkTmp ==
    /\ At("scan") /\ ~Skipped(pos) /\ Linkable(pos)
    /\ \/ ldtmp' = [ldtmp EXCEPT ![pos] = snap[pos]] /\ pc' = "linked"
       \/ ldtmp' = [ldtmp EXCEPT ![pos] = None] /\ pc' = "check"
    /\ Run /\ UNCHANGED <<ino, dst, snap, tmp, got, pos>>

\* rename(2): when both names are links to one inode it does nothing.
Rename(f) ==
    IF dst[f] = ldtmp[f] THEN UNCHANGED <<dst, ldtmp>>
    ELSE /\ dst' = [dst EXCEPT ![f] = ldtmp[f]]
         /\ ldtmp' = [ldtmp EXCEPT ![f] = None]

LinkName ==
    /\ At("linked")
    /\ \/ Rename(pos) /\ NextFile("scan")
       \/ /\ ldtmp' = [ldtmp EXCEPT ![pos] = None]
          /\ pc' = "check" /\ UNCHANGED <<dst, pos>>
    /\ Run /\ UNCHANGED <<ino, snap, tmp, got>>

QuickCheck ==
    /\ At("check") /\ Unchanged(pos)
    /\ NextFile("scan")
    /\ Run /\ UNCHANGED <<tree, got>>

\* Mutant: always in place.
FetchInplace ==
    /\ At("check") /\ ~Unchanged(pos)
    /\ got' = src[pos]
    /\ pc' = "truncate"
    /\ Run /\ UNCHANGED <<tree, pos>>

\* The file is asked for; the sender reads it now.
Fetch ==
    /\ At("check") /\ ~Unchanged(pos)
    /\ got' = src[pos]
    /\ pc' = IF inplace THEN "truncate" ELSE "create"
    /\ Run /\ UNCHANGED <<tree, pos>>

-----------------------------------------------------------------------------
(* Installing what was received.                                           *)

\* Mutant: the file is renamed before it is written.
CreateTmpUnwritten ==
    /\ At("create")
    /\ \E i \in Inodes : /\ Fresh(i)
                         /\ tmp' = i
                         /\ ino' = [ino EXCEPT ![i] = Inode(Torn, Now)]
    /\ pc' = "rename"
    /\ Run /\ UNCHANGED <<dst, snap, ldtmp, got, pos>>

CreateTmp ==
    /\ At("create")
    /\ \E i \in Inodes : /\ Fresh(i)
                         /\ tmp' = i
                         /\ ino' = [ino EXCEPT ![i] = Inode(Torn, Now)]
    /\ pc' = "fill"
    /\ Run /\ UNCHANGED <<dst, snap, ldtmp, got, pos>>

FillTmp ==
    /\ At("fill")
    /\ ino' = [ino EXCEPT ![tmp] = Inode(got, Now)]
    /\ pc' = "rename"
    /\ Run /\ UNCHANGED <<dst, snap, ldtmp, tmp, got, pos>>

RenameTmp ==
    /\ At("rename")
    /\ dst' = [dst EXCEPT ![pos] = tmp]
    /\ tmp' = None
    /\ pc' = "meta"
    /\ Run /\ UNCHANGED <<ino, snap, ldtmp, got, pos>>

\* --inplace: the destination file itself is truncated, or created.
Truncate ==
    /\ At("truncate")
    /\ \E i \in Inodes : /\ IF Exists(pos) THEN i = dst[pos] ELSE Fresh(i)
                         /\ dst' = [dst EXCEPT ![pos] = i]
                         /\ ino' = [ino EXCEPT ![i] = Inode(Torn, Now)]
    /\ pc' = "overwrite"
    /\ Run /\ UNCHANGED <<snap, ldtmp, tmp, got, pos>>

Overwrite ==
    /\ At("overwrite")
    /\ ino' = [ino EXCEPT ![dst[pos]] = Inode(got, Now)]
    /\ pc' = "meta"
    /\ Run /\ UNCHANGED <<dst, snap, ldtmp, tmp, got, pos>>

\* apply_metadata gives the file the modification time of the list.
SetTime ==
    /\ At("meta")
    /\ ino' = [ino EXCEPT ![dst[pos]].mt = ListTime(pos)]
    /\ NextFile("scan") /\ got' = Torn
    /\ Run /\ UNCHANGED <<dst, snap, ldtmp, tmp>>

-----------------------------------------------------------------------------
(* Hard-link followers, after all transfers.                               *)

EndScan ==
    /\ pc = "scan" /\ pos = NFiles + 1
    /\ pos' = 1 /\ pc' = "follow"
    /\ Run /\ UNCHANGED <<tree, got>>

\* Mutant: a follower that exists is passed over.
NoFollowerOrThere ==
    /\ At("follow") /\ (Leader[pos] = pos \/ Exists(pos))
    /\ NextFile("follow")
    /\ Run /\ UNCHANGED <<tree, got>>

NoFollower ==
    /\ At("follow") /\ Leader[pos] = pos
    /\ NextFile("follow")
    /\ Run /\ UNCHANGED <<tree, got>>

\* The old name is removed; an error is ignored and the name stays.
Unlink ==
    /\ At("follow") /\ Leader[pos] # pos
    /\ dst' \in {dst, [dst EXCEPT ![pos] = None]}
    /\ pc' = "relink"
    /\ Run /\ UNCHANGED <<ino, snap, ldtmp, tmp, got, pos>>

\* The link to the leader, which a name that is still there prevents.
Relink ==
    /\ At("relink") /\ Exists(Leader[pos]) /\ ~Exists(pos)
    /\ dst' = [dst EXCEPT ![pos] = dst[Leader[pos]]]
    /\ NextFile("follow")
    /\ Run /\ UNCHANGED <<ino, snap, ldtmp, tmp, got>>

\* The link fails.  fs::copy creates the follower, or truncates what the name that is
\* still there refers to: that may be the leader itself, or a file they are both links
\* to ...
OpenCopy ==
    /\ At("relink") /\ Exists(Leader[pos])
    /\ \E i \in Inodes : /\ IF Exists(pos) THEN i = dst[pos] ELSE Fresh(i)
                         /\ dst' = [dst EXCEPT ![pos] = i]
                         /\ ino' = [ino EXCEPT ![i] = Inode(Cut, Now)]
    /\ pc' = "copy"
    /\ Run /\ UNCHANGED <<snap, ldtmp, tmp, got, pos>>

\* ... and writes what it then reads from the leader: nothing, if it is the same file.
CopyLeader ==
    /\ At("copy")
    /\ ino' = [ino EXCEPT ![dst[pos]] = Inode(ino[dst[Leader[pos]]].c, Now)]
    /\ NextFile("follow")
    /\ Run /\ UNCHANGED <<dst, snap, ldtmp, tmp, got>>

\* There is nothing to copy, or the copy fails before or after the file is opened.
CannotCopy == (pc = "relink" /\ ~Exists(Leader[pos])) \/ CopyFails

\* Neither link nor copy succeeds.  A message is printed and the run goes on.
NoLink ==
    /\ pc \in {"relink", "copy"} /\ CannotCopy
    /\ NextFile("follow")
    /\ Run /\ UNCHANGED <<tree, got>>

Finish ==
    /\ pc = "follow" /\ pos = NFiles + 1
    /\ pc' = "done"
    /\ Run /\ UNCHANGED <<tree, got, pos>>

\* The run is killed, or a system call returns an error that ends it.  Its
\* temporary file stays, under a name that holds its process id and that no
\* other run uses; the model forgets it.
Kill ==
    /\ pc \notin {"idle", "done"}
    /\ pc' = "idle" /\ tmp' = None
    /\ pos' = 1 /\ got' = Torn /\ opts' = {}
    /\ UNCHANGED <<clock, src, list, ino, dst, snap, ldtmp, inplace, runs>>

\* A source file changes, at any time.
Change(f) ==
    /\ clock < MaxClock
    /\ clock' = clock + 1
    /\ src' = [src EXCEPT ![f] = 2 * (clock + 1)]
    /\ UNCHANGED <<list, tree, pc, pos, got, opts, inplace, runs>>

Next ==
    \/ Start \/ SkipFile \/ NoCandidate \/ LinkTmp \/ LinkName \/ QuickCheck \/ Fetch
    \/ CreateTmp \/ FillTmp \/ RenameTmp \/ Truncate \/ Overwrite \/ SetTime
    \/ EndScan \/ NoFollower \/ Unlink \/ Relink \/ OpenCopy \/ CopyLeader \/ NoLink \/ Finish
    \/ Kill \/ \E f \in Files : Change(f)

Spec == Init /\ [][Next]_vars

-----------------------------------------------------------------------------
(* Properties.                                                             *)

\* Every variable has its type; a position stays within the list.
TypeOK ==
    /\ clock \in 0..MaxClock
    /\ src \in [Files -> Versions] /\ list \in [Files -> Versions]
    /\ ino \in [Inodes -> [c : Contents, mt : Stamps]]
    /\ dst \in [Files -> Inodes \cup {None}]
    /\ snap \in [Files -> Inodes \cup {None}]
    /\ ldtmp \in [Files -> Inodes \cup {None}]
    /\ tmp \in Inodes \cup {None}
    /\ pc \in {"idle", "scan", "linked", "check", "create", "fill", "rename", "truncate",
               "overwrite", "meta", "follow", "relink", "copy", "done"}
    /\ pos \in 1..(NFiles + 1)
    /\ got \in Versions \cup {Torn}
    /\ opts \in OptionSets \cup {{}}
    /\ inplace \in BOOLEAN
    /\ runs \in 0..MaxRuns

\* The file is of a hard-link group.
Grouped(f) == \E g \in Files : Leader[g] # g /\ Leader[g] = Leader[f]

\* Without --inplace a destination name never refers to a file that is cut off, whenever
\* the run is killed (temporary file and rename), but for the copy that replaces a failed
\* link: that one writes under the final name (receiver.rs:562), and what it leaves is
\* found in hard-link groups only.
NoTornFile ==
    ~inplace => \A f \in Files : Exists(f) =>
        /\ ino[dst[f]].c # Torn
        /\ ino[dst[f]].c = Cut => Grouped(f)

\* The fallback copy has emptied a leader: one of its followers could not be removed and
\* was a link to it.
Emptied(f) ==
    /\ Exists(f) /\ ino[dst[f]].c = Cut
    /\ \E g \in Files : g # f /\ Leader[g] = f /\ dst[g] = dst[f]

\* A run that returns leaves each file it was free to replace with the listed
\* modification time and, with -t, with a version the source had since the list was made,
\* whatever earlier runs left behind when they were killed or had no -t: the quick check
\* and the --link-dest check are never deceived.  Without -t, when all times are 0, they
\* go by the size alone, and so does this.  A leader that is Emptied is the only exception.
UpToDate ==
    pc = "done" =>
        \A f \in Files :
            \/ Leader[f] # f
            \/ "max_size" \in opts /\ Size[list[f]] \notin Limits
            \/ {"ignore_existing", "update"} \cap opts # {}
            \/ Emptied(f)
            \/ /\ Exists(f) /\ ino[dst[f]].mt = ListTime(f)
               /\ \/ ino[dst[f]].c \in list[f]..src[f]
                  \/ "times" \notin opts /\ SameSize(dst[f], f)

\* Without --inplace the --link-dest directory is not touched, although files of the
\* destination are links to its files, but in one way: by the fallback copy, onto a follower
\* that could not be removed and is such a link (receiver.rs:557-562).
SnapshotIntact ==
    [][~inplace => \A f \in Files : snap[f] # None =>
         \/ ino'[snap[f]] = ino[snap[f]]
         \/ pc \in {"relink", "copy"} /\ Leader[pos] # pos /\ dst[pos] = snap[f]]_vars

\* A file never goes back to an earlier version of its source: not by a run after one that
\* was killed or had no -t, and not by a link into the --link-dest directory, unless that
\* run has no -t itself and the link is chosen by the size alone.
NeverBack ==
    [][\A f \in Files : Leader[f] = f /\ Exists(f) /\ dst'[f] # None
         /\ ino[dst[f]].c \in Versions /\ ino'[dst'[f]].c \in Versions
            => \/ ino[dst[f]].c <= ino'[dst'[f]].c
               \/ pc = "linked" /\ pos = f /\ "times" \notin opts]_vars

\* When a run returns, every follower has its leader's content, whether the leader was
\* transferred, linked or passed over and whether the follower was linked or copied, if
\* the copy succeeds and the leader has not been emptied by it (receiver.rs:542-569).
GroupsAgree ==
    pc = "done" =>
        \A f \in Files : Exists(Leader[f]) /\ ino[dst[Leader[f]]].c # Cut =>
            Exists(f) /\ ino[dst[f]].c = ino[dst[Leader[f]]].c
=============================================================================
