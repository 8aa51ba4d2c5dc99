------------------------------ MODULE Channels ------------------------------
(***************************************************************************)
(* What a connection promises the programs at its two ends: in each        *)
(* direction the values come out that were put in, each once and in order, *)
(* and as long as the connection holds all of them come out.  After it is  *)
(* cut more of what was put in may come out, and still nothing else.       *)
(***************************************************************************)
EXTENDS Naturals, Sequences

CONSTANT Ends    \* the two programs

VARIABLES sent,      \* by each end, in order
          received,  \* of what each end has sent
          cut        \* the connection is gone

channels == <<sent, received, cut>>

Init ==
    /\ sent = [e \in Ends |-> <<>>]
    /\ received = [e \in Ends |-> <<>>]
    /\ cut = FALSE

\* Any value may be sent.
Send(e) ==
    /\ Len(sent'[e]) = Len(sent[e]) + 1
    /\ sent' = [sent EXCEPT ![e] = Append(@, sent'[e][Len(sent[e]) + 1])]
    /\ UNCHANGED <<received, cut>>

Receive(e) ==
    /\ Len(received[e]) < Len(sent[e])
    /\ received' = [received EXCEPT ![e] = Append(@, sent[e][Len(@) + 1])]
    /\ UNCHANGED <<sent, cut>>

Cut == ~cut /\ cut' = TRUE /\ UNCHANGED <<sent, received>>

Next == Cut \/ \E e \in Ends : Send(e) \/ Receive(e)

Spec ==
    /\ Init /\ [][Next]_channels
    /\ \A e \in Ends : WF_channels(~cut /\ Receive(e))

=============================================================================
