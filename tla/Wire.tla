-------------------------------- MODULE Wire --------------------------------
(***************************************************************************)
(* The byte streams under every session: items are encoded (Codec), put    *)
(* into frames by an MplexWriter and taken out of them by an MplexReader   *)
(* (io/multiplex.rs), with messages of the peer between the frames, reads  *)
(* that return less than was asked for, a switch from plain bytes to       *)
(* frames at one point of each stream (main.rs), and a connection that may *)
(* break anywhere.                                                         *)
(*                                                                         *)
(* Both programs are one thread each, so that each has one set of previous *)
(* indices for what it reads and one for what it writes (varint.rs).       *)
(* Which items follow which is left to the other modules: `script' is what *)
(* each end writes and, since the peer knows the order, reads for.         *)
(***************************************************************************)
EXTENDS Codec

CONSTANTS
    Scripts,     \* the conversations looked at
    FrameMax,    \* largest payload of a frame (0xFFFFFF)
    Chatter      \* message frames a peer may put between data: code and text

Ends == {"client", "server"}
Peer(e) == IF e = "client" THEN "server" ELSE "client"

\* A conversation is a protocol version and what each end writes ("mux" stands for
\* the place at which the handshake ends), with a bound on the messages between and
\* whether the connection may break.

MPLEX_BASE == 7
Data == 0

\* The values of MsgCode.
MsgCodes == (0..10) \cup {22, 33, 42, 86} \cup (100..102)

ASSUME WireAssumption ==
    /\ FrameMax \in Nat \ {0} /\ FrameMax <= 16777215
    /\ \A s \in Scripts : s.proto \in Nat /\ s.chatter \in Nat /\ s.breaks \in BOOLEAN
    /\ \A s \in Scripts, e \in Ends :
         /\ Len(s[e]) \in Nat /\ s[e] = [i \in 1..Len(s[e]) |-> s[e][i]]
         /\ \A i \in 1..Len(s[e]) : Encodable(s[e][i])
         /\ \A i, j \in 1..Len(s[e]) : s[e][i].k = "mux" /\ s[e][j].k = "mux" => i = j
    /\ \A m \in Chatter :
         /\ m.code \in MsgCodes
         /\ m.text \in Seq(Byte) /\ Len(m.text) <= FrameMax
         /\ m.code = Data => m.text = <<>>

\* Below 30 the server's output is framed and its peer does not expect it.
ASSUME NewServers ==
    \A s \in Scripts : s.proto < 30 => \A i \in 1..Len(s["server"]) : s["server"][i].k # "mux"

VARIABLES
    script,    \* the conversation
    out,       \* items of its script an end has written
    pipe,      \* bytes an end has written and its peer has not read
    muxout,    \* MplexWriter::enabled
    muxin,     \* MplexReader::enabled
    pending,   \* MplexReader::pending
    in,        \* items of the peer's script an end has read
    got,       \* bytes of the item being read
    values,    \* what an end has read
    prev,      \* the previous indices of an end's reads and writes
    chatted,   \* messages so far
    cut,       \* the connection is broken
    failed     \* ends that have given up

wr  == <<out, muxout>>
rd  == <<muxin, pending, in, got, values>>
vars == <<script, out, pipe, muxout, muxin, pending, in, got, values, prev, chatted,
          cut, failed>>

Init ==
    /\ script \in Scripts
    /\ out = [e \in Ends |-> 0] /\ in = [e \in Ends |-> 0]
    /\ pipe = [e \in Ends |-> <<>>]
    /\ muxout = [e \in Ends |-> FALSE] /\ muxin = [e \in Ends |-> FALSE]
    /\ pending = [e \in Ends |-> 0]
    /\ got = [e \in Ends |-> <<>>] /\ values = [e \in Ends |-> <<>>]
    /\ prev = [e \in Ends |-> [read |-> NdxStart, write |-> NdxStart]]
    /\ chatted = 0 /\ cut = FALSE /\ failed = {}

-----------------------------------------------------------------------------
(* MplexWriter.                                                            *)

Header(code, len) ==
    <<len % 256, (len \div 256) % 256, len \div 65536, MPLEX_BASE + code>>

\* write_all calls write until nothing is left; a frame is written each time.
Frames(bytes) ==
    LET f[i \in 0..Len(bytes)] ==
          IF i = 0 THEN <<>>
          ELSE LET chunk == IF i % FrameMax = 0 THEN FrameMax ELSE i % FrameMax
               IN  f[i - chunk] \o Header(Data, chunk) \o SubSeq(bytes, i - chunk + 1, i)
    IN  f[Len(bytes)]

\* The bytes of the calls of write_all that make up an item, which are two at most.
Sent(calls, framed) ==
    LET call(i) == IF i \notin DOMAIN calls THEN <<>>
                   ELSE IF framed THEN Frames(calls[i]) ELSE calls[i]
    IN  call(1) \o call(2)

Writing(e) == e \notin failed /\ ~cut /\ out[e] < Len(script[e])

Write(e) ==
    LET item == script[e][out[e] + 1]
    IN  /\ Writing(e) /\ item.k # "mux"
        /\ pipe' = [pipe EXCEPT ![e] = @ \o Sent(Written(item, prev[e].write), muxout[e])]
        /\ prev' = IF item.k # "ndx" THEN prev
                   ELSE [prev EXCEPT ![e].write = NdxAfter(@, item.v)]
        /\ out' = [out EXCEPT ![e] = @ + 1]
        /\ UNCHANGED <<script, muxout, rd, chatted, cut, failed>>

\* The server's output is framed whatever the protocol, the client's from 30.
EnableOut(e) ==
    /\ Writing(e) /\ script[e][out[e] + 1].k = "mux"
    /\ muxout' = [muxout EXCEPT ![e] = e = "server" \/ script.proto >= 30]
    /\ out' = [out EXCEPT ![e] = @ + 1]
    /\ UNCHANGED <<script, pipe, rd, prev, chatted, cut, failed>>

\* write_msg.  rsync-rs never calls it; other implementations do.
Message(e) ==
    /\ e \notin failed /\ ~cut
    /\ muxout[e] /\ chatted < script.chatter
    /\ \E m \in Chatter :
         pipe' = [pipe EXCEPT ![e] = @ \o Header(m.code, Len(m.text)) \o m.text]
    /\ chatted' = chatted + 1
    /\ UNCHANGED <<script, wr, rd, prev, cut, failed>>

-----------------------------------------------------------------------------
(* MplexReader.                                                            *)

Reading(e) == e \notin failed /\ in[e] < Len(script[Peer(e)])

Reads(e) == script[Peer(e)][in[e] + 1]

\* Bytes the current read_exact still lacks.
Wants(e) == IF Reading(e) /\ Reads(e).k # "mux" THEN Needed(Reads(e), got[e]) ELSE 0

\* Of either end: from protocol 30.
EnableIn(e) ==
    /\ Reading(e) /\ Reads(e).k = "mux"
    /\ muxin' = [muxin EXCEPT ![e] = script.proto >= 30]
    /\ in' = [in EXCEPT ![e] = @ + 1]
    /\ UNCHANGED <<script, wr, pipe, pending, got, values, prev, chatted, cut, failed>>

\* Code and length in a header.  A code below the base counts as data, and so
\* does one that is not known.
HeaderCode(h) ==
    LET code == IF h[4] < MPLEX_BASE THEN 0 ELSE h[4] - MPLEX_BASE
    IN  IF code \in MsgCodes THEN code ELSE Data
HeaderLen(h) == h[1] + 256 * h[2] + 65536 * h[3]

Drop(s, n) == SubSeq(s, n + 1, Len(s))

\* Mutant: a message's header is taken off and its text left.
ReadHeaderLeft(e) ==
    LET p == Peer(e)
        code == HeaderCode(pipe[p])
        len == HeaderLen(pipe[p])
    IN  /\ Wants(e) > 0 /\ muxin[e] /\ pending[e] = 0
        /\ Len(pipe[p]) >= 4
        /\ pipe' = [pipe EXCEPT ![p] = Drop(@, 4)]
        /\ pending' = IF code = Data THEN [pending EXCEPT ![e] = len] ELSE pending
        /\ UNCHANGED <<script, wr, muxin, in, got, values, prev, chatted, cut, failed>>

\* One turn of the loop in read: an empty data frame and a message leave nothing
\* pending.
ReadHeader(e) ==
    LET p == Peer(e)
        code == HeaderCode(pipe[p])
        len == HeaderLen(pipe[p])
    IN  /\ Wants(e) > 0 /\ muxin[e] /\ pending[e] = 0
        /\ Len(pipe[p]) >= 4
        /\ \/ /\ code = Data
              /\ pending' = [pending EXCEPT ![e] = len]
              /\ pipe' = [pipe EXCEPT ![p] = Drop(@, 4)]
           \/ /\ code # Data
              /\ Len(pipe[p]) >= 4 + len
              /\ pipe' = [pipe EXCEPT ![p] = Drop(@, 4 + len)]
              /\ UNCHANGED pending
        /\ UNCHANGED <<script, wr, muxin, in, got, values, prev, chatted, cut, failed>>

\* The end of read: as much as is there, up to what is asked for and to the end
\* of the frame.
ReadSome(e) ==
    LET p == Peer(e)
    IN  /\ muxin[e] => pending[e] > 0
        /\ \E n \in 1..Wants(e) :
             /\ n <= Len(pipe[p]) /\ (muxin[e] => n <= pending[e])
             /\ got' = [got EXCEPT ![e] = @ \o SubSeq(pipe[p], 1, n)]
             /\ pipe' = [pipe EXCEPT ![p] = Drop(@, n)]
             /\ pending' = IF muxin[e] THEN [pending EXCEPT ![e] = @ - n] ELSE pending
        /\ UNCHANGED <<script, wr, muxin, in, values, prev, chatted, cut, failed>>

\* Mutant: reading and writing share one previous index.
FinishShared(e) ==
    /\ Reading(e) /\ Reads(e).k # "mux" /\ Wants(e) = 0
    /\ LET v == Value(Reads(e), prev[e].read, got[e])
       IN  /\ values' = [values EXCEPT ![e] = Append(@, v)]
           /\ prev' = IF Reads(e).k # "ndx" THEN prev
                      ELSE LET q == NdxAfter(prev[e].read, v)
                           IN  [prev EXCEPT ![e] = [read |-> q, write |-> q]]
    /\ in' = [in EXCEPT ![e] = @ + 1]
    /\ got' = [got EXCEPT ![e] = <<>>]
    /\ UNCHANGED <<script, wr, pipe, muxin, pending, chatted, cut, failed>>

\* The item is complete: its value is handed to the program.
Finish(e) ==
    /\ Reading(e) /\ Reads(e).k # "mux" /\ Wants(e) = 0
    /\ LET v == Value(Reads(e), prev[e].read, got[e])
       IN  /\ values' = [values EXCEPT ![e] = Append(@, v)]
           /\ prev' = IF Reads(e).k # "ndx" THEN prev
                      ELSE [prev EXCEPT ![e].read = NdxAfter(@, v)]
    /\ in' = [in EXCEPT ![e] = @ + 1]
    /\ got' = [got EXCEPT ![e] = <<>>]
    /\ UNCHANGED <<script, wr, pipe, muxin, pending, chatted, cut, failed>>

-----------------------------------------------------------------------------
(* The connection breaks; what is on its way may still arrive, in part.    *)

Cut ==
    /\ script.breaks /\ ~cut
    /\ cut' = TRUE
    /\ \E c \in 0..Len(pipe["client"]), s \in 0..Len(pipe["server"]) :
         pipe' = [e \in Ends |-> SubSeq(pipe[e], 1, IF e = "client" THEN c ELSE s)]
    /\ UNCHANGED <<script, wr, rd, prev, chatted, failed>>

\* The stream ends before a header, within a message, or within an item.
AtEnd(e) ==
    LET left == pipe[Peer(e)]
    IN  IF muxin[e] /\ pending[e] = 0
        THEN ~(Len(left) >= 4 /\ (HeaderCode(left) # Data => Len(left) >= 4 + HeaderLen(left)))
        ELSE left = <<>>

\* read_exact fails, and with it the program.
Fail(e) ==
    /\ cut /\ Wants(e) > 0 /\ AtEnd(e)
    /\ failed' = failed \cup {e}
    /\ UNCHANGED <<script, wr, pipe, rd, prev, chatted, cut>>

ReaderStep(e) == EnableIn(e) \/ ReadHeader(e) \/ ReadSome(e) \/ Finish(e) \/ Fail(e)

WriterStep(e) == Write(e) \/ EnableOut(e)

Next == Cut \/ \E e \in Ends : WriterStep(e) \/ Message(e) \/ ReaderStep(e)

\* Either program goes on with what it reads as long as there is something.
Spec == Init /\ [][Next]_vars /\ \A e \in Ends : WF_vars(ReaderStep(e))

-----------------------------------------------------------------------------
(* Properties.                                                             *)

\* The values of the first n items, which an end has written or is to have read.
ValuesOf(items, n) ==
    LET v[i \in 0..Len(items)] ==
          IF i = 0 THEN <<>>
          ELSE IF items[i].k = "mux" THEN v[i - 1] ELSE Append(v[i - 1], items[i].v)
    IN  v[n]

Sends(e) == ValuesOf(script[e], out[e])

Promised == INSTANCE Channels WITH
    sent     <- [e \in Ends |-> Sends(e)],
    received <- [e \in Ends |-> values[Peer(e)]]

\* Bytes, frames and messages implement the channels the other modules take for
\* granted: every value arrives as it was written, once and in order, at any size
\* and at every boundary of the codes, wherever frames and reads end, whatever
\* messages come between, wherever each stream is switched to frames; a broken
\* connection yields no value that was not sent; and as long as it holds, what is
\* written is read.
ImplementsChannels == Promised!Spec

\* The last index among some items, of those below 0 or of the others.
LastIndex(items, neg) ==
    LET S == {i \in DOMAIN items : /\ items[i].k = "ndx" /\ items[i].v # NDX_DONE
                                   /\ (items[i].v < 0) = neg}
    IN  IF S # {} THEN items[Max(S)].v ELSE -1

Last(items) == [pos |-> LastIndex(items, FALSE), neg |-> -LastIndex(items, TRUE)]

\* Both ends code indices against the same one: what a reader keeps is the last index
\* it was sent and what a writer keeps the last it has written, although a thread
\* reads and writes indices in turn, and -1 ends a phase without being one.
IndexInStep ==
    \A e \in Ends :
        /\ prev[e].read = Last(SubSeq(script[Peer(e)], 1, in[e]))
        /\ prev[e].write = Last(SubSeq(script[e], 1, out[e]))

\* What is left in a framed stream, from a given place on, is whole frames.
WholeFrames(s) ==
    LET whole[i \in 1..(Len(s) + 1)] ==
          \/ i = Len(s) + 1
          \/ LET next == i + 4 + HeaderLen(Drop(s, i - 1))
             IN  i + 3 <= Len(s) /\ next <= Len(s) + 1 /\ whole[next]
    IN  whole[1]

\* A reader never takes a header or the text of a message for data nor data for a
\* header: its count of pending bytes always ends where a frame ends, and once it has
\* read all that was written only messages are left.
FramesKept ==
    \A e \in Ends :
        LET left == pipe[Peer(e)]
        IN  (~cut /\ muxin[e]) =>
               /\ pending[e] <= Len(left)
               /\ WholeFrames(Drop(left, pending[e]))
               /\ (in[e] = out[Peer(e)] /\ got[e] = <<>>) => pending[e] = 0

=============================================================================
