------------------------------ MODULE Session ------------------------------
(***************************************************************************)
(* One rsync session after the file list has been exchanged: the sender    *)
(* loop (pipeline/sender.rs, Sender::run), the receiver loop               *)
(* (pipeline/receiver.rs, run_server_receiver) and the exit sequences of   *)
(* their callers (main.rs, run_server_io and run_client_protocol).         *)
(*                                                                         *)
(* The two processes are joined by two FIFO byte streams.  A message below *)
(* is one wire item (an index with its flags, a sum head, a whole token    *)
(* stream, a file checksum, the block of statistics).  Receiver and sender *)
(* are sequential programs that block in reads, so each has a program      *)
(* counter; an action runs from one blocking read to the next.             *)
(*                                                                         *)
(* The sender writes through a BufWriter.  "wire" holds everything it has  *)
(* written and the receiver has not read; the first "avail" messages have  *)
(* been flushed, the others still sit in the sender's buffer.  The         *)
(* receiver flushes before each of its reads, so its stream "r2s" needs no *)
(* buffer.                                                                 *)
(*                                                                         *)
(* What a program makes of bytes that are not the item it expects is not   *)
(* modelled: it reads no further.  Aligned says when that cannot happen.   *)
(***************************************************************************)
EXTENDS Integers, Sequences

CONSTANTS
    NFiles,     \* number of regular files in the file list
    MaxVer,     \* bound: how often a source file changes during the session
    Protocol,   \* negotiated protocol version
    Push,       \* TRUE: the client is the sender; FALSE: it is the receiver
    BufCap,     \* capacity of the sender's BufWriter, in messages; 0 = bare socket
    Compress,   \* -z negotiated: token streams are deflated
    CanVanish,  \* source files may become unreadable after they were listed
    CanDrop,    \* the connection may break
    DiskFails   \* the receiver's file system may refuse a file

ASSUME SessionAssumption ==
    /\ NFiles \in Nat
    /\ MaxVer \in Nat
    /\ Protocol \in {30, 31}
    /\ BufCap \in Nat
    /\ Push \in BOOLEAN
    /\ Push => BufCap > 0          \* a client always wraps its writer
    /\ Compress \in BOOLEAN
    /\ CanVanish \in BOOLEAN
    /\ CanDrop \in BOOLEAN
    /\ DiskFails \in BOOLEAN

Files == 1..NFiles

VARIABLES
    ver,     \* ver[f]: version of the source file f on the sender's disk
    gone,    \* source files that cannot be opened any more
    want,    \* files the receiver's checks select for transfer
    dst,     \* dst[f]: content of the destination file f
    rpc,     \* what the receiver does next
    rpos,    \* the receiver's position in the file list
    rphase,  \* phase boundaries whose echo the receiver has read
    rgot,    \* content received, not yet installed
    spc,     \* what the sender does next
    sphase,  \* the sender's phase counter
    sfile,   \* index the sender is serving
    spay,    \* content the sender read for it
    r2s,     \* receiver-to-sender stream
    wire,    \* sender-to-receiver stream, buffered part included
    avail,   \* length of the flushed part of wire
    down,    \* the connection is broken
    rfail,   \* the receiver has returned an error
    sfail    \* the sender has returned an error

env   == <<ver, gone, want>>
rvars == <<rpc, rpos, rphase, rgot, rfail>>
svars == <<spc, sphase, sfile, spay, sfail>>
chans == <<r2s, wire, avail>>
vars  == <<ver, gone, want, dst, rpc, rpos, rphase, rgot, spc, sphase, sfile,
           spay, r2s, wire, avail, down, rfail, sfail>>

-----------------------------------------------------------------------------
(* Contents and messages.  A content names the file and the version it was *)
(* read from, so that data delivered to the wrong file can be seen.        *)

Old   == <<0, -1>>     \* the destination file as the session found it
Empty == <<0, 0>>      \* no bytes at all

Contents == {Old, Empty} \cup (Files \X (0..MaxVer))

\* The number of phase boundaries the two sides echo to one another.
MaxPhase == IF Protocol >= 29 THEN 2 ELSE 1

Msg(kind, file, content) == [k |-> kind, f |-> file, c |-> content]

Done  == Msg("done", 0, Empty)
Sums  == Msg("sums", 0, Empty)

Messages == [k : {"req", "ndx"}, f : Files, c : Contents]
            \cup [k : {"sums", "done", "head", "data", "eof4", "sum", "stats"},
                  f : {0}, c : Contents]

\* What the receiver parses at each of its blocking reads, and the sender at its.
Expects == [ndx |-> "ndx", head |-> "head", data |-> "data", sum |-> "sum",
            echo |-> "done", bye |-> "done", stats |-> "stats"]

RWaits == {"ndx", "head", "data", "sum", "echo", "bye", "stats"}
SWaits == {"idle", "sums", "bye", "bye2"}

RHalted == rfail \/ rpc = "exit"
SHalted == sfail \/ spc = "exit"

Init ==
    /\ ver = [f \in Files |-> 0]
    /\ gone = {}
    /\ want \in SUBSET Files
    /\ dst = [f \in Files |-> Old]
    /\ rpc = "scan" /\ rpos = 1 /\ rphase = 0 /\ rgot = Empty
    /\ spc = "idle" /\ sphase = 0 /\ sfile = 0 /\ spay = Empty
    /\ r2s = <<>> /\ wire = <<>> /\ avail = 0
    /\ down = FALSE /\ rfail = FALSE /\ sfail = FALSE

-----------------------------------------------------------------------------
(* Stream operations.                                                      *)

\* write_all through a BufWriter: a message that does not fit first pushes
\* out what is buffered; one as large as the buffer is not buffered at all.
Write(m) ==
    /\ wire' = Append(wire, m)
    /\ avail' = IF Len(wire) - avail + 1 <= BufCap THEN avail
                ELSE IF BufCap >= 2 THEN Len(wire)
                ELSE Len(wire) + 1

WriteFlush(m) ==
    /\ wire' = Append(wire, m)
    /\ avail' = Len(wire) + 1

\* The receiver consumes the first flushed message, of kind k.
RRead(k) ==
    /\ ~rfail
    /\ avail > 0
    /\ wire[1].k = k
    /\ wire' = Tail(wire)
    /\ avail' = avail - 1

\* The sender consumes a message of kind k.
SRead(k) ==
    /\ ~sfail
    /\ r2s # <<>>
    /\ r2s[1].k = k
    /\ r2s' = Tail(r2s)

-----------------------------------------------------------------------------
(* The receiver.                                                           *)

\* A file that its checks do not select is passed over (receiver.rs:232-371).
RSkipFile ==
    /\ ~rfail /\ rpc = "scan" /\ rpos \in Files \ want
    /\ rpos' = rpos + 1
    /\ UNCHANGED <<env, dst, rpc, rphase, rgot, rfail, svars, chans, down>>

\* Request: NDX, iflags, sum head and block sums of the basis, then flush.
RRequest ==
    /\ ~rfail /\ rpc = "scan" /\ rpos \in want
    /\ r2s' = Append(Append(r2s, Msg("req", rpos, Empty)), Sums)
    /\ rpc' = "ndx"
    /\ UNCHANGED <<env, dst, rpos, rphase, rgot, rfail, svars, wire, avail, down>>

\* The echoed index and iflags are read and ignored.
RReadNdx ==
    /\ rpc = "ndx" /\ RRead("ndx")
    /\ rpc' = "head"
    /\ UNCHANGED <<env, dst, rpos, rphase, rgot, rfail, svars, r2s, down>>

RReadHead ==
    /\ rpc = "head" /\ RRead("head")
    /\ rpc' = "data"
    /\ UNCHANGED <<env, dst, rpos, rphase, rgot, rfail, svars, r2s, down>>

\* The token stream, applied to the basis kept in memory since the request.
RReadData ==
    /\ rpc = "data" /\ RRead("data")
    /\ rgot' = wire[1].c
    /\ rpc' = "sum"
    /\ UNCHANGED <<env, dst, rpos, rphase, rfail, svars, r2s, down>>

\* The file checksum is read and not compared.
RReadSum ==
    /\ rpc = "sum" /\ RRead("sum")
    /\ rpc' = "write"
    /\ UNCHANGED <<env, dst, rpos, rphase, rgot, rfail, svars, r2s, down>>

Install == dst' = [dst EXCEPT ![rpos] = rgot]

\* The data is written to a temporary file, renamed over the destination and
\* given its metadata.
RInstall ==
    /\ ~rfail /\ rpc = "write"
    /\ Install
    /\ rpos' = rpos + 1
    /\ rpc' = "scan"
    /\ UNCHANGED <<env, rphase, rgot, rfail, svars, chans, down>>

\* One of these steps fails, before or after the rename, and ends the session.
RInstallFail ==
    /\ ~rfail /\ rpc = "write" /\ DiskFails
    /\ Install \/ UNCHANGED dst
    /\ rfail' = TRUE
    /\ UNCHANGED <<env, rpc, rpos, rphase, rgot, svars, chans, down>>

\* Mutant: the scan stops one entry early.
RPhaseEndEarly ==
    /\ ~rfail /\ rpc = "scan" /\ rpos >= NFiles
    /\ r2s' = Append(r2s, Done)
    /\ rpc' = "echo"
    /\ UNCHANGED <<env, dst, rpos, rphase, rgot, rfail, svars, wire, avail, down>>

\* The list is exhausted: NDX_DONE ends phase 0.
RPhaseEnd ==
    /\ ~rfail /\ rpc = "scan" /\ rpos = NFiles + 1
    /\ r2s' = Append(r2s, Done)
    /\ rpc' = "echo"
    /\ UNCHANGED <<env, dst, rpos, rphase, rgot, rfail, svars, wire, avail, down>>

\* Mutant: only one phase boundary is exchanged.
RReadEchoOnce ==
    /\ rpc = "echo" /\ RRead("done")
    /\ rphase' = rphase + 1
    /\ r2s' = Append(Append(r2s, Done), Done)
    /\ rpc' = "bye"
    /\ UNCHANGED <<env, dst, rpos, rgot, rfail, svars, down>>

\* The echo of a phase boundary.  After the last one the receiver sends the
\* NDX_DONE that ends the sender's loop and, at once, the goodbye NDX_DONE.
RReadEcho ==
    /\ rpc = "echo" /\ RRead("done")
    /\ rphase' = rphase + 1
    /\ IF rphase + 1 < MaxPhase
       THEN /\ r2s' = Append(r2s, Done)
            /\ rpc' = "echo"
       ELSE /\ r2s' = Append(Append(r2s, Done), Done)
            /\ rpc' = "bye"
    /\ UNCHANGED <<env, dst, rpos, rgot, rfail, svars, down>>

AfterBye == IF Push THEN "exit" ELSE "stats"

\* The sender's final NDX_DONE; protocol 31 answers with one more NDX_DONE.
RReadBye ==
    /\ rpc = "bye" /\ RRead("done")
    /\ r2s' = IF Protocol >= 31 THEN Append(r2s, Done) ELSE r2s
    /\ rpc' = AfterBye
    /\ UNCHANGED <<env, dst, rpos, rphase, rgot, rfail, svars, down>>

\* A pulling client reads the sender's five statistics and returns.
RReadStats ==
    /\ rpc = "stats" /\ RRead("stats")
    /\ rpc' = "exit"
    /\ UNCHANGED <<env, dst, rpos, rphase, rgot, rfail, svars, r2s, down>>

\* Mutant: the end of the stream counts as the end of the session.
REofOk ==
    /\ ~rfail /\ rpc \in RWaits
    /\ (avail = 0 /\ SHalted) \/ down
    /\ rpc' = "exit"
    /\ UNCHANGED <<env, dst, rpos, rphase, rgot, rfail, svars, chans, down>>

\* Nothing more will come: the read fails.  The drain at protocol < 31 and
\* the statistics ignore the error (and every later read fails the same
\* way), every other read returns it.
REof ==
    /\ ~rfail /\ rpc \in RWaits
    /\ (avail = 0 /\ SHalted) \/ down
    /\ IF rpc = "stats" \/ (rpc = "bye" /\ Protocol < 31)
       THEN rpc' = "exit" /\ UNCHANGED rfail
       ELSE rfail' = TRUE /\ UNCHANGED rpc
    /\ UNCHANGED <<env, dst, rpos, rphase, rgot, svars, chans, down>>

\* A write after the other side has gone returns an error.
REpipe ==
    /\ ~rfail /\ (SHalted \/ down)
    /\ rpc \in IF Protocol >= 31 THEN {"scan", "echo", "bye"} ELSE {"scan", "echo"}
    /\ IF rpc = "scan" THEN rpos \in want \cup {NFiles + 1} ELSE avail > 0
    /\ rfail' = TRUE
    /\ UNCHANGED <<env, dst, rpc, rpos, rphase, rgot, svars, chans, down>>

Receiver ==
    \/ RSkipFile \/ RRequest \/ RReadNdx \/ RReadHead \/ RReadData
    \/ RReadSum \/ RInstall \/ RInstallFail
    \/ RPhaseEnd \/ RReadEcho \/ RReadBye \/ RReadStats
    \/ REof \/ REpipe

-----------------------------------------------------------------------------
(* The sender.                                                             *)

\* Mutant: the loop is left a phase early.
SReadDoneEarly ==
    /\ spc = "idle" /\ SRead("done")
    /\ sphase' = sphase + 1
    /\ IF sphase + 1 >= MaxPhase
       THEN spc' = "final" /\ UNCHANGED <<wire, avail>>
       ELSE WriteFlush(Done) /\ UNCHANGED spc
    /\ UNCHANGED <<env, dst, rvars, sfile, spay, sfail, down>>

\* NDX_DONE: advance the phase; echo it unless this was the last one.
SReadDone ==
    /\ spc = "idle" /\ SRead("done")
    /\ sphase' = sphase + 1
    /\ IF sphase + 1 > MaxPhase
       THEN spc' = "final" /\ UNCHANGED <<wire, avail>>
       ELSE WriteFlush(Done) /\ UNCHANGED spc
    /\ UNCHANGED <<env, dst, rvars, sfile, spay, sfail, down>>

\* A request: index and iflags are echoed before the sums are read.
SReadReq ==
    /\ spc = "idle" /\ SRead("req")
    /\ sfile' = r2s[1].f
    /\ Write(Msg("ndx", r2s[1].f, Empty))
    /\ spc' = "sums"
    /\ UNCHANGED <<env, dst, rvars, sphase, spay, sfail, down>>

\* Mutant: the index is looked up one entry too far.
SReadSumsNext ==
    /\ spc = "sums" /\ SRead("sums")
    /\ LET g == (sfile % NFiles) + 1
       IN  spay' = IF g \in gone THEN Empty ELSE <<g, ver[g]>>
    /\ spc' = "head"
    /\ UNCHANGED <<env, dst, rvars, sphase, sfile, sfail, wire, avail, down>>

\* The sums, then the lookup and the read of the source file.  A file that
\* cannot be read becomes a skipped transfer.
SReadSums ==
    /\ spc = "sums" /\ SRead("sums")
    /\ spay' = IF sfile \in gone THEN Empty ELSE <<sfile, ver[sfile]>>
    /\ spc' = "head"
    /\ UNCHANGED <<env, dst, rvars, sphase, sfile, sfail, wire, avail, down>>

SWriteHead ==
    /\ ~sfail /\ spc = "head"
    /\ Write(Msg("head", 0, Empty))
    /\ spc' = "data"
    /\ UNCHANGED <<env, dst, rvars, sphase, sfile, spay, sfail, r2s, down>>

\* The token stream of the file just read, or the end token of a skipped
\* one: always the 4-byte int 0, of which a deflated reader takes one byte.
SWriteData ==
    /\ ~sfail /\ spc = "data"
    /\ Write(Msg(IF spay = Empty /\ Compress THEN "eof4" ELSE "data", 0, spay))
    /\ spc' = "sum"
    /\ UNCHANGED <<env, dst, rvars, sphase, sfile, spay, sfail, r2s, down>>

\* Mutant: no transfer is flushed.
SWriteSumUnflushed ==
    /\ ~sfail /\ spc = "sum"
    /\ Write(Msg("sum", 0, Empty))
    /\ spc' = "idle"
    /\ UNCHANGED <<env, dst, rvars, sphase, sfile, spay, sfail, r2s, down>>

\* The file checksum; a transfer is flushed here, a skipped one is not.
SWriteSum ==
    /\ ~sfail /\ spc = "sum"
    /\ IF spay = Empty THEN Write(Msg("sum", 0, Empty))
                       ELSE WriteFlush(Msg("sum", 0, Empty))
    /\ spc' = "idle"
    /\ UNCHANGED <<env, dst, rvars, sphase, sfile, spay, sfail, r2s, down>>

\* After the loop: the final NDX_DONE.
SFinal ==
    /\ ~sfail /\ spc = "final"
    /\ WriteFlush(Done)
    /\ spc' = IF Push THEN "bye" ELSE "stats"
    /\ UNCHANGED <<env, dst, rvars, sphase, sfile, spay, sfail, r2s, down>>

\* A serving sender then writes its statistics.
SStats ==
    /\ ~sfail /\ spc = "stats"
    /\ WriteFlush(Msg("stats", 0, Empty))
    /\ spc' = "bye"
    /\ UNCHANGED <<env, dst, rvars, sphase, sfile, spay, sfail, r2s, down>>

\* The receiver's goodbye; at protocol 31 it is answered and a second read.
SReadBye ==
    /\ spc = "bye" /\ SRead("done")
    /\ IF Protocol >= 31
       THEN WriteFlush(Done) /\ spc' = "bye2"
       ELSE spc' = "exit" /\ UNCHANGED <<wire, avail>>
    /\ UNCHANGED <<env, dst, rvars, sphase, sfile, spay, sfail, down>>

SReadBye2 ==
    /\ spc = "bye2" /\ SRead("done")
    /\ spc' = "exit"
    /\ UNCHANGED <<env, dst, rvars, sphase, sfile, spay, sfail, wire, avail, down>>

\* Mutant: the end of the stream is waited out.
SEofWait ==
    /\ ~sfail /\ spc \in SWaits /\ down
    /\ sfail' = TRUE
    /\ UNCHANGED <<env, dst, rvars, spc, sphase, sfile, spay, chans, down>>

\* A read at the end of the stream.  A pushing client ignores the error of
\* its goodbye reads, every other read returns it.
SEof ==
    /\ ~sfail /\ spc \in SWaits
    /\ (r2s = <<>> /\ RHalted) \/ down
    /\ IF Push /\ spc = "bye" /\ Protocol >= 31
       THEN WriteFlush(Done) /\ spc' = "bye2" /\ UNCHANGED sfail
       ELSE IF Push /\ spc \in {"bye", "bye2"}
       THEN spc' = "exit" /\ UNCHANGED <<wire, avail, sfail>>
       ELSE sfail' = TRUE /\ UNCHANGED <<spc, wire, avail>>
    /\ UNCHANGED <<env, dst, rvars, sphase, sfile, spay, r2s, down>>

\* A write after the other side has gone returns an error, except where it
\* only fills the buffer: the errors of flush are dropped.
SEpipe ==
    /\ ~sfail /\ (RHalted \/ down)
    /\ spc \in {"idle", "head", "data", "sum", "final", "stats", "bye"}
    /\ spc \in {"idle", "bye"} => r2s # <<>>
    /\ spc = "bye" => Protocol >= 31 /\ BufCap = 0
    /\ sfail' = TRUE
    /\ UNCHANGED <<env, dst, rvars, spc, sphase, sfile, spay, chans, down>>

Sender ==
    \/ SReadDone \/ SReadReq \/ SReadSums \/ SWriteHead \/ SWriteData
    \/ SWriteSum \/ SFinal \/ SStats \/ SReadBye \/ SReadBye2
    \/ SEof \/ SEpipe

-----------------------------------------------------------------------------
(* The environment: other programs change or remove source files while the *)
(* session runs, and the connection may break.                             *)

Change(f) ==
    /\ f \notin gone /\ ver[f] < MaxVer
    /\ ver' = [ver EXCEPT ![f] = @ + 1]
    /\ UNCHANGED <<gone, want, dst, rvars, svars, chans, down>>

Vanish(f) ==
    /\ CanVanish /\ f \notin gone
    /\ gone' = gone \cup {f}
    /\ UNCHANGED <<ver, want, dst, rvars, svars, chans, down>>

Break ==
    /\ CanDrop /\ ~down
    /\ down' = TRUE
    /\ UNCHANGED <<env, dst, rvars, svars, chans>>

Environment == Break \/ \E f \in Files : Change(f) \/ Vanish(f)

\* Both programs have returned.
Terminated == RHalted /\ SHalted /\ UNCHANGED vars

Next == Receiver \/ Sender \/ Environment \/ Terminated

Spec == Init /\ [][Next]_vars

\* Each program runs until it blocks: whenever one of its steps stays
\* possible it is taken.  Nothing is assumed of the environment.
FairSpec == Spec /\ WF_vars(Receiver) /\ WF_vars(Sender)

-----------------------------------------------------------------------------
(* Properties.                                                             *)

\* Every variable has its type, and the flushed part is a part of the wire.
TypeOK ==
    /\ ver \in [Files -> 0..MaxVer]
    /\ gone \in SUBSET Files
    /\ want \in SUBSET Files
    /\ dst \in [Files -> Contents]
    /\ rpc \in RWaits \cup {"scan", "write", "exit"}
    /\ rpos \in 1..(NFiles + 1)
    /\ rphase \in 0..MaxPhase
    /\ rgot \in Contents
    /\ spc \in SWaits \cup {"head", "data", "sum", "final", "stats", "exit"}
    /\ sphase \in 0..(MaxPhase + 1)
    /\ sfile \in 0..NFiles
    /\ spay \in Contents
    /\ r2s \in Seq(Messages)
    /\ wire \in Seq(Messages)
    /\ avail \in 0..Len(wire)
    /\ down \in BOOLEAN /\ rfail \in BOOLEAN /\ sfail \in BOOLEAN

\* Neither side ever parses bytes of one wire item as another.  The receiver
\* reads echo, head, tokens, checksum, phase echoes, goodbye and statistics
\* with no framing to tell them apart, so this rests on the two programs
\* counting in step (receiver.rs:410-462, 588-614; main.rs:837-858).
Aligned ==
    /\ rpc \in RWaits /\ avail > 0 => wire[1].k = Expects[rpc]
    /\ r2s # <<>> =>
         CASE spc = "idle" -> r2s[1].k \in {"req", "done"}
           [] spc = "sums" -> r2s[1].k = "sums"
           [] spc \in {"bye", "bye2"} -> r2s[1].k = "done"
           [] OTHER -> TRUE

\* The receiver ignores the echoed index (receiver.rs:411), so nothing but
\* the lock-step of the two loops ties a response to its request: every file
\* is only ever replaced by a version of itself.
RightFile == \A f \in Files : dst[f] \in {Old, Empty} \cup ({f} \X (0..MaxVer))

\* The two phase counters never drift: the sender is at most one boundary
\* ahead, and only while its echo is under way; it leaves its loop only after
\* the receiver has read every echo (sender.rs:88-106, receiver.rs:588-598).
PhasesAgree ==
    /\ sphase - rphase \in {0, 1}
    /\ sphase > MaxPhase => rphase = MaxPhase
    /\ rpc \in {"scan", "ndx", "head", "data", "sum", "write"} => sphase = 0

\* The two programs never both wait for the other with nothing in flight:
\* each blocking read of one is preceded by a flush of the other.
NoMutualWait ==
    ~ /\ ~RHalted /\ rpc \in RWaits /\ avail = 0
      /\ ~SHalted /\ spc \in SWaits /\ r2s = <<>>

\* A receiver that reports success has replaced every selected file with a
\* version its source really had, and has touched no other file.
Complete ==
    ~rfail /\ rpc = "exit" =>
      \A f \in Files :
        IF f \in want THEN dst[f] \in {f} \X (0..ver[f]) \/ (f \in gone /\ dst[f] = Empty)
                      ELSE dst[f] = Old

\* How far the two loops may be apart.  The four items of a response, in order:
Items == <<"ndx", "head", "data", "sum">>

RStage == CASE rpc = "ndx" -> 1 [] rpc = "head" -> 2 [] rpc = "data" -> 3 [] OTHER -> 4

OwnContents(f) == {Empty} \cup ({f} \X (0..MaxVer))

\* The sender has written the items of file rpos up to n - 1, the receiver
\* has read those before its stage; the wire holds the ones between.
InFlight(n) ==
    /\ sfile = rpos
    /\ Len(wire) = n - RStage
    /\ \A i \in 1..Len(wire) : wire[i].k = Items[RStage + i - 1]
    /\ \A i \in 1..Len(wire) : wire[i].k = "data" => wire[i].c \in OwnContents(rpos)

\* Between two requests nothing is in flight.
Quiescent == spc = "idle" /\ sphase = 0 /\ rphase = 0 /\ r2s = <<>> /\ wire = <<>>

\* While file rpos is transferred, the sender works on that request only.
Transferring ==
    /\ rpos \in want /\ sphase = 0 /\ rphase = 0
    /\ \/ /\ spc = "idle" /\ rpc = "ndx" /\ wire = <<>>
          /\ Len(r2s) = 2 /\ r2s[1] = Msg("req", rpos, Empty) /\ r2s[2] = Sums
       \/ spc = "sums" /\ Len(r2s) = 1 /\ r2s[1] = Sums /\ InFlight(2)
       \/ r2s = <<>> /\ spc = "head" /\ InFlight(2) /\ spay \in OwnContents(rpos)
       \/ r2s = <<>> /\ spc = "data" /\ InFlight(3) /\ spay \in OwnContents(rpos)
       \/ r2s = <<>> /\ spc = "sum" /\ InFlight(4)
       \/ r2s = <<>> /\ spc = "idle" /\ InFlight(5)

\* At a phase boundary one NDX_DONE travels to the sender or back.
Boundary ==
    /\ rphase < MaxPhase /\ spc = "idle"
    /\ \/ sphase = rphase /\ Len(r2s) = 1 /\ r2s[1] = Done /\ wire = <<>>
       \/ sphase = rphase + 1 /\ r2s = <<>> /\ Len(wire) = 1 /\ wire[1] = Done /\ avail = 1

Leaving == {"stats", "bye", "bye2", "exit"}

\* From the last echo on only NDX_DONEs travel to the sender, and the final
\* NDX_DONE precedes the statistics.
Goodbye ==
    /\ rphase = MaxPhase
    /\ \A i \in 1..Len(r2s) : r2s[i] = Done
    /\ \/ spc = "idle" /\ sphase = MaxPhase /\ wire = <<>> /\ rpc \in {"bye", "exit"} /\ r2s # <<>>
       \/ spc = "final" /\ sphase = MaxPhase + 1 /\ wire = <<>> /\ rpc \in {"bye", "exit"}
       \/ /\ spc \in Leaving /\ sphase = MaxPhase + 1
          /\ avail = Len(wire)
          /\ rpc = "bye" =>
               /\ wire # <<>> /\ wire[1] = Done
               /\ ~Push /\ spc = "stats" => Len(wire) = 1
               /\ ~Push /\ spc # "stats" => Len(wire) > 1 /\ wire[2].k = "stats"
          /\ rpc = "stats" =>
               IF spc = "stats" THEN wire = <<>> ELSE wire # <<>> /\ wire[1].k = "stats"

\* The lock-step of the two loops, from which alignment, attribution and
\* absence of mutual waiting follow.  (With compression and unreadable files
\* it fails: see SWriteData.)
LockStep ==
    /\ rpc \in {"scan", "write"} => Quiescent
    /\ rpc \in {"ndx", "head", "data", "sum"} => Transferring
    /\ rpc \in {"sum", "write"} => rgot \in OwnContents(rpos)
    /\ rpc = "write" => rpos \in want
    /\ rpc = "echo" => Boundary
    /\ rpc \in {"bye", "stats", "exit"} => Goodbye
    /\ rpc = "stats" => ~Push
    /\ RightFile

\* Both programs return, whatever the environment does.
Termination == <>(RHalted /\ SHalted)

\* A session whose connection holds ends without an error on either side,
\* although one of them may be gone before the other's last write
\* (receiver.rs:588-614; main.rs:848-858, 1386-1397).
CleanExit == []~down => <>(rpc = "exit" /\ spc = "exit" /\ ~rfail /\ ~sfail)

\* What the session does to the destination tree is what FileSync allows.
Sync == INSTANCE FileSync WITH
            Versions <- 0..MaxVer,
            Nothing <- Empty,
            left <- {f \in want : f >= rpos},
            outcome <- IF rfail THEN "error"
                       ELSE IF rpc = "exit" THEN "ok" ELSE "running"

\* Every session is a FileSync behaviour: whole files, in order, success last.
ImplementsFileSync == Sync!Spec
=============================================================================
