--------------------------- MODULE DeflateTokens ---------------------------
(***************************************************************************)
(* The token stream of a file under -z (delta/deflate_token.rs): the       *)
(* writer joins consecutive block numbers into runs and compresses the     *)
(* literals, the reader takes both apart again.                            *)
(*                                                                         *)
(* Compressed data can be decompressed only by a reader whose dictionary   *)
(* holds what the writer's held: every literal and every matched block, in *)
(* order.  A DATA frame below carries its literal and the dictionary it    *)
(* was compressed with; a reader with another one decodes garbage.         *)
(***************************************************************************)
EXTENDS Integers, Sequences

CONSTANTS
    MaxOps,       \* bound: operations of the delta
    MaxBlock,     \* bound: highest block number
    RelLimit,     \* relative block numbers are 0..RelLimit-1 (64 in the code)
    RunLimit,     \* blocks a run may hold: two bytes of length (65536)
    Interleaved   \* the delta may match again after a literal after a match

ASSUME DeflateAssumption ==
    /\ MaxOps \in Nat /\ MaxBlock \in Nat
    /\ RelLimit \in Nat \ {0} /\ RunLimit \in Nat \ {0}
    /\ Interleaved \in BOOLEAN

VARIABLES
    delta,  \* the delta: block numbers, and Lit for a literal
    next,   \* the next operation the sender hands to the writer
    enc,    \* the writer: run encoder, pending literal, dictionary
    frames, \* frames written and not yet read
    rx,     \* the reader: state, block number, rest of the run, dictionary
    got     \* operations the reader has delivered

deflateVars == <<delta, next, enc, frames, rx, got>>

Lit     == -1    \* a literal; which one is told by its place in delta
Garbage == -2    \* what a reader with the wrong dictionary decodes
None    == 0     \* no pending literal

Blocks == 0..MaxBlock

Frame(kind, val, n, dict) == [k |-> kind, v |-> val, run |-> n, d |-> dict]

-----------------------------------------------------------------------------
(* The writer.  e is the record enc, with the frames of this call in out.  *)

Emit(e, f) == [e EXCEPT !.out = Append(@, f)]

close_run(e) ==
    LET r == e.run_start - e.last_run_end
        n == e.last_token - e.run_start
        f == IF r \in 0..(RelLimit - 1) THEN Frame("rel", r, n % RunLimit, <<>>)
             ELSE Frame("long", e.run_start, n % RunLimit, <<>>)
    IN  [Emit(e, f) EXCEPT !.last_run_end = e.last_token, !.run_open = FALSE]

\* A run that may become one block longer than its length field can say.
emit_token_long(e, token) ==
    IF e.last_token = -1
    THEN [e EXCEPT !.run_start = token, !.last_token = token, !.run_open = TRUE]
    ELSE IF token = e.last_token + 1 /\ token <= e.run_start + RunLimit
    THEN [e EXCEPT !.last_token = token]
    ELSE [close_run(e) EXCEPT !.run_start = token, !.last_token = token, !.run_open = TRUE]

emit_token(e, token) ==
    IF e.last_token = -1
    THEN [e EXCEPT !.run_start = token, !.last_token = token, !.run_open = TRUE]
    ELSE IF token = e.last_token + 1 /\ token < e.run_start + RunLimit
    THEN [e EXCEPT !.last_token = token]
    ELSE [close_run(e) EXCEPT !.run_start = token, !.last_token = token, !.run_open = TRUE]

\* Compress and write the pending literal, behind the run that precedes it.
flush_pending_literal(e) ==
    IF e.pending = None THEN e
    ELSE LET c == IF e.run_open THEN close_run(e) ELSE e
         IN  [Emit(c, Frame("data", e.pending, 0, e.dict)) EXCEPT
                !.pending = None,
                !.dict = Append(@, <<Lit, e.pending>>)]

feed_dict_bytes(e, token) == [e EXCEPT !.dict = Append(@, <<token, 0>>)]

\* Leave the writer in state e, its frames behind those on the wire.
Written(e) ==
    /\ frames' = frames \o e.out
    /\ enc' = [e EXCEPT !.out = <<>>]
    /\ UNCHANGED <<delta, rx, got>>

send_literal ==
    /\ next <= Len(delta) /\ delta[next] = Lit
    /\ Written([enc EXCEPT !.pending = next])
    /\ next' = next + 1

\* A match that leaves the writer's dictionary alone.
send_block_match_no_dict ==
    /\ next <= Len(delta) /\ delta[next] # Lit
    /\ Written(emit_token(flush_pending_literal(enc), delta[next]))
    /\ next' = next + 1

send_block_match ==
    /\ next <= Len(delta) /\ delta[next] # Lit
    /\ Written(feed_dict_bytes(emit_token(flush_pending_literal(enc), delta[next]), delta[next]))
    /\ next' = next + 1

\* finish: the run, the literal, END_FLAG.
Finish ==
    /\ next = Len(delta) + 1
    /\ LET e == IF enc.run_open THEN close_run(enc) ELSE enc
       IN  Written(Emit(flush_pending_literal(e), Frame("end", 0, 0, <<>>)))
    /\ next' = next + 1

-----------------------------------------------------------------------------
(* The reader: read_token, and see_block by its caller after every match.  *)

Take(kinds) ==
    /\ rx.state \in {"idle", "inflated"}
    /\ frames # <<>> /\ frames[1].k \in kinds
    /\ frames' = Tail(frames)
    /\ UNCHANGED <<delta, next, enc>>

\* A DATA frame decodes if the dictionaries agree and the end of the literal
\* before it (the trimmed 00 00 ff ff) has been fed back.
ReadData ==
    /\ Take({"data"})
    /\ got' = Append(got, IF rx.dict = frames[1].d /\ rx.state = "idle" THEN Lit ELSE Garbage)
    /\ rx' = [rx EXCEPT !.state = "inflated", !.dict = Append(@, <<Lit, frames[1].v>>)]

\* A token flag: first the trimmed bytes, then the block number.
ReadToken ==
    /\ Take({"rel", "long"})
    /\ LET t == IF frames[1].k = "rel" THEN rx.token + frames[1].v ELSE frames[1].v
       IN  /\ got' = Append(got, t)
           /\ rx' = [rx EXCEPT !.token = t, !.run = frames[1].run,
                               !.state = IF frames[1].run # 0 THEN "running" ELSE "idle",
                               !.dict = Append(@, <<t, 0>>)]

\* The next block of a run.
ReadRun ==
    /\ rx.state = "running"
    /\ got' = Append(got, rx.token + 1)
    /\ rx' = [rx EXCEPT !.token = @ + 1, !.run = @ - 1,
                        !.state = IF rx.run = 1 THEN "idle" ELSE "running",
                        !.dict = Append(@, <<rx.token + 1, 0>>)]
    /\ UNCHANGED <<delta, next, enc, frames>>

ReadEnd ==
    /\ Take({"end"})
    /\ rx' = [rx EXCEPT !.state = "end"]
    /\ UNCHANGED got

-----------------------------------------------------------------------------
\* What find_matches_seeded can produce: no two literals in a row.
Deltas ==
    {s \in UNION {[1..m -> Blocks \cup {Lit}] : m \in 0..MaxOps} :
        \A i \in 1..(Len(s) - 1) : s[i] # Lit \/ s[i+1] # Lit}

\* Deltas whose matches are all in one piece.
OnePiece(s) ==
    ~ \E i, j, k \in 1..Len(s) : i < j /\ j < k /\ s[i] # Lit /\ s[j] = Lit /\ s[k] # Lit

DeflateInit ==
    /\ delta \in {s \in Deltas : Interleaved \/ OnePiece(s)}
    /\ next = 1
    /\ enc = [last_token |-> -1, run_start |-> 0, last_run_end |-> 0, run_open |-> FALSE,
              pending |-> None, dict |-> <<>>, out |-> <<>>]
    /\ frames = <<>>
    /\ rx = [state |-> "idle", token |-> 0, run |-> 0, dict |-> <<>>]
    /\ got = <<>>

Writer == send_literal \/ send_block_match \/ Finish
Reader == ReadData \/ ReadToken \/ ReadRun \/ ReadEnd

AtEnd == rx.state = "end" /\ UNCHANGED deflateVars

DeflateNext == Writer \/ Reader \/ AtEnd

DeflateSpec == DeflateInit /\ [][DeflateNext]_deflateVars

-----------------------------------------------------------------------------
\* The reader delivers the operations the sender put in, in their order, none
\* missing and none twice, and with the end flag all of them.
RoundTrip ==
    /\ Len(got) <= Len(delta) /\ got = SubSeq(delta, 1, Len(got))
    /\ rx.state = "end" => got = delta

\* Once everything on the wire has been read and nothing is held back, both
\* dictionaries are the same: the next literal will decode.
SameDictionary ==
    frames = <<>> /\ ~enc.run_open /\ rx.state # "running" => enc.dict = rx.dict
=============================================================================
