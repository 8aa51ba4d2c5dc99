------------------------------- MODULE Batch -------------------------------
(***************************************************************************)
(* Batch files (batch.rs): --write-batch lists the source directories once *)
(* more after the local copy, writes the list and then the content of each *)
(* regular file, found again by its name, and last a script; --read-batch  *)
(* replays the file to a destination.                                      *)
(*                                                                         *)
(* The batch file is a sequence of parts: header, list, one record per     *)
(* file, end marker.  What a capture has written is in its BufWriter until *)
(* it is flushed; a capture may be killed, and the sources change and go   *)
(* at any time; some cannot be read.  A part cut short is to the reader    *)
(* what a missing one is.                                                  *)
(* The entries of the list cross the file as in FileList.                  *)
(***************************************************************************)
EXTENDS Integers, Sequences, FiniteSets

CONSTANTS
    Sources,     \* number of source directories among the arguments
    Kind,        \* Kind[n]: "file", "dir" or "symlink", for each relative name
    Rank,        \* Rank[n]: its place in the order of file lists
    Parents,     \* Parents[n]: the directories above it
    MaxChanges,  \* bound: changes of the sources
    MaxCaptures, \* bound: captures
    MaxReplays   \* bound: replays

Names == DOMAIN Kind
Files == {n \in Names : Kind[n] = "file"}
Dirs  == {n \in Names : Kind[n] = "dir"}

ASSUME BatchAssumption ==
    /\ Sources \in Nat \ {0}
    /\ IsFiniteSet(Names)
    /\ Rank \in [Names -> Nat] /\ \A m, n \in Names : Rank[m] = Rank[n] => m = n
    /\ Parents \in [Names -> SUBSET Dirs]
    /\ MaxChanges \in Nat /\ MaxCaptures \in Nat /\ MaxReplays \in Nat

\* A content tells the name, the source and the change it was written by; a source file
\* may also be absent, a destination file what it was before (or not there), cut short or
\* garbled.  Unread stands, in the history, for a source file that could not be read.
Content(n, s, c) == [name |-> n, src |-> s, change |-> c]
Absent == [name |-> "absent"]
Before == [name |-> "before"]
Torn   == [name |-> "torn"]
Unread == [name |-> "unread"]
Garbled == [name |-> "garbled"]

VARIABLES
    src,       \* src[s][n]: content of file n in source s
    changes,   \* so far
    cpc,       \* what the capture does next
    list,      \* its list of names
    pos,       \* its place in the list
    buf,       \* what is in its BufWriter
    disk,      \* the batch file
    script,    \* number of the capture that has written the script
    captures,  \* so far
    rpc,       \* what the replay does next
    dry,       \* it is a dry run
    rpos,      \* its place in the batch file
    rlist,     \* the list it has read
    dest,      \* dest[n]: content of a destination file
    made,      \* directories of the destination
    replays,   \* so far
    seen       \* for the properties: what a file was since the list was made

source  == <<src, changes>>
capture == <<cpc, list, pos, buf, disk, script, captures>>
replay  == <<rpc, dry, rpos, rlist, dest, made, replays>>
vars    == <<source, capture, replay, seen>>

\* Every source has the directories and symbolic links, and some of the files.
Init ==
    /\ src \in [1..Sources ->
                  {[n \in Files |-> IF n \in S THEN Content(n, 0, 0) ELSE Absent] :
                     S \in SUBSET Files}]
    /\ changes = 0
    /\ cpc = "idle" /\ list = <<>> /\ pos = 0 /\ buf = <<>> /\ disk = <<>>
    /\ script = 0 /\ captures = 0
    /\ rpc = "idle" /\ dry = FALSE /\ rpos = 0 /\ rlist = <<>>
    /\ dest = [n \in Files |-> Before]
    /\ made = {} /\ replays = 0
    /\ seen = [n \in Files |-> {}]

\* What a file is in the sources; absent when none has it.
Current(f, n) ==
    LET S == {f[s][n] : s \in 1..Sources} IN IF S = {Absent} THEN S ELSE S \ {Absent}

\* Somebody writes or removes a source file.
Change ==
    /\ changes < MaxChanges
    /\ changes' = changes + 1
    /\ \E s \in 1..Sources, n \in Files :
         \E c \in {Content(n, s, changes'), Absent} :
           /\ c # src[s][n]
           /\ src' = [src EXCEPT ![s][n] = c]
           /\ seen' = [seen EXCEPT ![n] = @ \cup Current(src', n)]
    /\ UNCHANGED <<capture, replay>>

-----------------------------------------------------------------------------
(* --write-batch.                                                          *)

\* The sources one after the other, sorted; a name in two of them is there twice.
Entries == {e \in (1..Sources) \X Names : e[2] \in Files => src[e[1]][e[2]] # Absent}

Precedes(d, e) == Rank[d[2]] < Rank[e[2]] \/ (d[2] = e[2] /\ d[1] < e[1])

PlaceOf(e) == 1 + Cardinality({d \in Entries : Precedes(d, e)})

Listed ==
    [i \in 1..Cardinality(Entries) |-> (CHOOSE e \in Entries : PlaceOf(e) = i)[2]]

\* BatchWriter::create truncates what was there; write_flist follows.  A replay that has
\* begun to read loses its place in the file; one that has returned is of the past.
StartCapture ==
    /\ cpc = "idle" /\ captures < MaxCaptures
    /\ captures' = captures + 1
    /\ list' = Listed /\ pos' = 1
    /\ disk' = <<>>
    /\ buf' = <<[k |-> "header"], [k |-> "list", v |-> Listed]>>
    /\ seen' = [n \in Files |-> Current(src, n)]
    /\ cpc' = "files"
    /\ rpc' = CASE rpc = "header" -> "header"
                [] rpc \in {"list", "records", "fill", "astray"} -> "astray"
                [] OTHER -> "idle"
    /\ IF rpc = "header" THEN UNCHANGED <<dry, rpos, rlist>>
       ELSE dry' = (dry /\ rpc' = "astray") /\ rpos' = 0 /\ rlist' = <<>>
    /\ UNCHANGED <<source, script, dest, made, replays>>

\* The first source that has the file now.
Found(n) == {s \in 1..Sources : src[s][n] # Absent}
First(S) == CHOOSE s \in S : \A t \in S : s <= t

Record(i, c) == [k |-> "file", ndx |-> i, v |-> c]

\* The record of the listed file is that of the first source whose file can be read; a
\* file that no source lets it read is passed over without a word.
WriteRecord(i) ==
    LET n == list[pos]
    IN  \E R \in SUBSET Found(n) :
          /\ buf' = IF R = {} THEN buf ELSE Append(buf, Record(i, src[First(R)][n]))
          /\ seen' = IF R = {} /\ Found(n) # {} THEN [seen EXCEPT ![n] = @ \cup {Unread}]
                     ELSE seen

\* Mutant: records are numbered by the files among the entries.
WriteFileCounted ==
    /\ cpc = "files" /\ pos <= Len(list)
    /\ IF list[pos] \in Files THEN WriteRecord(Cardinality({j \in 1..pos : list[j] \in Files}))
       ELSE UNCHANGED <<buf, seen>>
    /\ pos' = pos + 1
    /\ UNCHANGED <<source, cpc, list, disk, script, captures, replay>>

\* One turn of the loop of run_write_batch.
WriteFile ==
    /\ cpc = "files" /\ pos <= Len(list)
    /\ IF list[pos] \in Files THEN WriteRecord(pos) ELSE UNCHANGED <<buf, seen>>
    /\ pos' = pos + 1
    /\ UNCHANGED <<source, cpc, list, disk, script, captures, replay>>

\* The BufWriter is full.
FlushSome ==
    /\ buf # <<>>
    /\ disk' = Append(disk, Head(buf)) /\ buf' = Tail(buf)
    /\ UNCHANGED <<source, cpc, list, pos, script, captures, replay, seen>>

\* Mutant: the end marker is left to be flushed when the writer is dropped.
FinishUnflushed ==
    /\ cpc = "files" /\ pos > Len(list)
    /\ buf' = Append(buf, [k |-> "end"])
    /\ cpc' = "script"
    /\ UNCHANGED <<source, list, pos, disk, script, captures, replay, seen>>

Finish ==
    /\ cpc = "files" /\ pos > Len(list)
    /\ disk' = disk \o Append(buf, [k |-> "end"]) /\ buf' = <<>>
    /\ cpc' = "script"
    /\ UNCHANGED <<source, list, pos, script, captures, replay, seen>>

\* write_shell_script.
WriteScript ==
    /\ cpc = "script"
    /\ script' = captures
    /\ cpc' = "idle"
    /\ UNCHANGED <<source, list, pos, buf, disk, captures, replay, seen>>

\* It is killed, or a write fails.
KillCapture ==
    /\ cpc # "idle"
    /\ cpc' = "idle" /\ buf' = <<>> /\ pos' = 0
    /\ UNCHANGED <<source, list, disk, script, captures, replay, seen>>

-----------------------------------------------------------------------------
(* --read-batch, at any time: also of what a capture has not finished.     *)

StartReplay ==
    /\ rpc \in {"idle", "done", "failed"} /\ replays < MaxReplays
    /\ replays' = replays + 1
    /\ dry' \in BOOLEAN
    /\ rpc' = "header" /\ rpos' = 1 /\ rlist' = <<>>
    /\ UNCHANGED <<source, capture, dest, made, seen>>

Here(kind) == rpos <= Len(disk) /\ disk[rpos].k = kind

ReadHeader ==
    /\ rpc = "header" /\ Here("header")
    /\ rpc' = "list" /\ rpos' = rpos + 1
    /\ UNCHANGED <<source, capture, dry, rlist, dest, made, replays, seen>>

\* All directories of the list are made at once; the list is sorted once more, which
\* leaves a sorted list as it is.
ReadList ==
    /\ rpc = "list" /\ Here("list")
    /\ rlist' = disk[rpos].v
    /\ made' = IF dry THEN made
               ELSE made \cup UNION {{n} \cup Parents[n] : n \in {rlist'[i] : i \in DOMAIN rlist'} \cap Dirs}
    /\ rpc' = "records" /\ rpos' = rpos + 1
    /\ UNCHANGED <<source, capture, dry, dest, replays, seen>>

\* fs::write creates or truncates the file, with its parents ...
OpenFile ==
    /\ rpc = "records" /\ Here("file") /\ ~dry
    /\ LET n == rlist[disk[rpos].ndx]
       IN  made' = made \cup Parents[n] /\ dest' = [dest EXCEPT ![n] = Torn]
    /\ rpc' = "fill"
    /\ UNCHANGED <<source, capture, dry, rpos, rlist, replays, seen>>

\* ... and fills it.
FillFile ==
    /\ rpc = "fill"
    /\ dest' = [dest EXCEPT ![rlist[disk[rpos].ndx]] = disk[rpos].v]
    /\ rpc' = "records" /\ rpos' = rpos + 1
    /\ UNCHANGED <<source, capture, dry, rlist, made, replays, seen>>

SkipRecord ==
    /\ rpc = "records" /\ Here("file") /\ dry
    /\ rpos' = rpos + 1
    /\ UNCHANGED <<source, capture, rpc, dry, rlist, dest, made, replays, seen>>

\* Mutant: the end of the file ends the replay like the end marker.
ReadEndLoose ==
    /\ rpc = "records" /\ (Here("end") \/ rpos > Len(disk))
    /\ rpc' = "done"
    /\ UNCHANGED <<source, capture, dry, rpos, rlist, dest, made, replays, seen>>

ReadEnd ==
    /\ rpc = "records" /\ Here("end")
    /\ rpc' = "done"
    /\ UNCHANGED <<source, capture, dry, rpos, rlist, dest, made, replays, seen>>

\* What a replay reads that has lost its place may make any directory and give any file
\* any content.
ReadAstray ==
    /\ rpc = "astray" /\ ~dry
    /\ \E D \in SUBSET Dirs : made' = made \cup D
    /\ \E n \in Files : dest' = [dest EXCEPT ![n] = Garbled]
    /\ UNCHANGED <<source, capture, rpc, dry, rpos, rlist, replays, seen>>

\* The file ends too early, a write fails, or the program is killed; one that has lost
\* its place ends in one way or another, and what it reports then is not looked at.
FailReplay ==
    /\ rpc \in {"header", "list", "records", "fill", "astray"}
    /\ rpc' = "failed" /\ dry' = FALSE /\ rpos' = 0 /\ rlist' = <<>>
    /\ UNCHANGED <<source, capture, dest, made, replays, seen>>

Next ==
    \/ Change
    \/ StartCapture \/ WriteFile \/ FlushSome \/ Finish \/ WriteScript \/ KillCapture
    \/ StartReplay \/ ReadHeader \/ ReadList \/ OpenFile \/ FillFile \/ SkipRecord
    \/ ReadEnd \/ ReadAstray \/ FailReplay

Spec == Init /\ [][Next]_vars

-----------------------------------------------------------------------------
(* Properties.                                                             *)

\* No file is ever given another file's content: a record's index, counted by the
\* capture, means the same name to the replay, whatever has changed, gone, failed or could
\* not be read; but a replay under which a new capture began may have garbled it.
OwnContent == \A n \in Files : dest[n].name \in {n, "before", "torn", "garbled"}

InList(n) == \E i \in DOMAIN rlist : rlist[i] = n

\* Since the list was made the file was gone from all sources, or none let it be read.
Missed(n) == {Absent, Unread} \cap seen[n] # {}

\* A replay reports success only when nothing of the batch is missing: every listed
\* file has a content it had in some source since the list was made, unless the capture
\* found none it could read (batch.rs:286-291), and every listed directory is there;
\* whatever earlier replays left half written.  Nothing is said of what a replay reports
\* under which a new capture began.
ReplayComplete ==
    (rpc = "done" /\ ~dry) =>
        /\ \A n \in Files : InList(n) => Missed(n) \/ dest[n] \in seen[n]
        /\ \A n \in Dirs : InList(n) => n \in made

\* When the script of the latest capture is there the batch file is complete: a kill
\* never leaves a script that cannot be replayed, unless a new capture has begun.
ScriptRuns ==
    (script # 0 /\ script = captures) =>
        disk # <<>> /\ disk[Len(disk)].k = "end"

=============================================================================
