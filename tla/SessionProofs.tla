--------------------------- MODULE SessionProofs ---------------------------
(***************************************************************************)
(* Proofs about Session for every number of files, every bound on source   *)
(* changes, every buffer capacity, both directions and protocols 30 and 31.*)
(***************************************************************************)
EXTENDS Session, SequenceTheorems, TLAPS

\* The counters are in range where the next step advances them.
Counters ==
    /\ rpc \in {"scan", "ndx", "head", "data", "sum", "write"} => rphase = 0
    /\ rpc \in {"ndx", "head", "data", "sum", "write"} => rpos \in Files
    /\ rpc = "echo" => rphase < MaxPhase
    /\ spc \in {"idle", "sums", "head", "data", "sum"} => sphase <= MaxPhase
    /\ spc = "sums" => sfile \in Files

\* TypeOK is not inductive by itself: the counters need their guards.
TypeInv == TypeOK /\ Counters

\* The contents and messages that the actions build are contents and messages.
LEMMA MessagesTyped ==
    /\ Old \in Contents /\ Empty \in Contents
    /\ \A f \in Files, v \in 0..MaxVer : <<f, v>> \in Contents
    /\ Done \in Messages /\ Sums \in Messages
    /\ \A c \in Contents : Msg("eof4", 0, c) \in Messages
    /\ \A f \in Files : Msg("req", f, Empty) \in Messages
    /\ \A f \in Files : Msg("ndx", f, Empty) \in Messages
    /\ \A c \in Contents : Msg("data", 0, c) \in Messages
    /\ Msg("head", 0, Empty) \in Messages
    /\ Msg("sum", 0, Empty) \in Messages
    /\ Msg("stats", 0, Empty) \in Messages
<1>1. /\ Old \in Contents /\ Empty \in Contents
      /\ \A f \in Files, v \in 0..MaxVer : <<f, v>> \in Contents
  BY DEF Contents, Old, Empty
<1> QED
  BY <1>1 DEF Messages, Msg, Done, Sums

\* What appending to, and reading from, a stream does to its type and items.
LEMMA StreamTyped ==
    ASSUME NEW s \in Seq(Messages)
    PROVE  /\ Len(s) \in Nat
           /\ \A m \in Messages : /\ Append(s, m) \in Seq(Messages)
                                  /\ Len(Append(s, m)) = Len(s) + 1
                                  /\ Append(s, m)[Len(s) + 1] = m
                                  /\ \A i \in 1..Len(s) : Append(s, m)[i] = s[i]
           /\ \A i \in 1..Len(s) : s[i] \in Messages
           /\ s # <<>> <=> Len(s) > 0
           /\ s # <<>> => /\ Tail(s) \in Seq(Messages)
                          /\ Len(Tail(s)) = Len(s) - 1
                          /\ \A i \in 1..(Len(s) - 1) : Tail(s)[i] = s[i + 1]
  BY AppendProperties, HeadTailProperties, EmptySeq, LenProperties, ElementOfSeq

\* The counters and types hold at the start.
LEMMA TypeInit == Init => TypeInv
<1> SUFFICES ASSUME Init PROVE TypeInv
  OBVIOUS
<1>1. /\ ver \in [Files -> 0..MaxVer]
      /\ rpos \in 1..(NFiles + 1)
      /\ rphase \in 0..MaxPhase
      /\ sphase \in 0..(MaxPhase + 1)
      /\ sfile \in 0..NFiles
  BY SessionAssumption DEF Init, MaxPhase
<1>2. dst \in [Files -> Contents] /\ rgot \in Contents /\ spay \in Contents
  BY MessagesTyped DEF Init
<1>3. /\ r2s \in Seq(Messages)
      /\ wire \in Seq(Messages)
      /\ avail \in 0..Len(wire)
  BY EmptySeq DEF Init
<1>4. /\ gone \in SUBSET Files /\ want \in SUBSET Files
      /\ down \in BOOLEAN /\ rfail \in BOOLEAN /\ sfail \in BOOLEAN
  BY DEF Init
<1>5. /\ rpc \in RWaits \cup {"scan", "exit"}
      /\ spc \in SWaits \cup {"head", "data", "sum", "final", "stats", "exit"}
  BY DEF Init, RWaits, SWaits
<1>6. Counters
  BY DEF Init, Counters, MaxPhase
<1>7. TypeOK
  BY <1>1, <1>2, <1>3, <1>4, <1>5, Zenon DEF TypeOK
<1> QED
  BY <1>6, <1>7 DEF TypeInv

\* A write keeps the stream typed and everything flushed a part of it.
LEMMA WriteTyped ==
    ASSUME TypeOK, NEW m \in Messages, Write(m) \/ WriteFlush(m)
    PROVE  wire' \in Seq(Messages) /\ avail' \in 0..Len(wire')
<1>1. wire' = Append(wire, m) /\ wire \in Seq(Messages)
  BY DEF TypeOK, Write, WriteFlush
<1>2. wire' \in Seq(Messages) /\ Len(wire') = Len(wire) + 1 /\ Len(wire) \in Nat
  BY <1>1, StreamTyped
<1>3. avail \in 0..Len(wire) /\ avail' \in {avail, Len(wire), Len(wire) + 1}
  BY DEF TypeOK, Write, WriteFlush
<1> QED
  BY <1>2, <1>3

\* So does a read by the receiver; and what it reads is a message.
LEMMA RReadTyped ==
    ASSUME TypeOK, NEW k, RRead(k)
    PROVE  /\ wire # <<>> /\ wire[1] \in Messages
           /\ wire' \in Seq(Messages) /\ avail' \in 0..Len(wire')
<1>1. wire \in Seq(Messages) /\ avail \in 0..Len(wire) /\ avail > 0
      /\ wire' = Tail(wire) /\ avail' = avail - 1
  BY DEF TypeOK, RRead
<1>2. Len(wire) \in Nat /\ Len(wire) > 0
  BY <1>1, StreamTyped
<1>3. wire # <<>> /\ wire[1] \in Messages
  BY <1>1, <1>2, StreamTyped
<1>4. wire' \in Seq(Messages) /\ Len(wire') = Len(wire) - 1
  BY <1>1, <1>3, StreamTyped
<1> QED
  BY <1>1, <1>2, <1>3, <1>4

\* A read by the sender keeps its stream typed; what it reads is a message.
LEMMA SReadTyped ==
    ASSUME TypeOK, NEW k, SRead(k)
    PROVE  r2s[1] \in Messages /\ r2s' \in Seq(Messages)
<1>1. r2s \in Seq(Messages) /\ r2s # <<>> /\ r2s' = Tail(r2s)
  BY DEF TypeOK, SRead
<1>2. Len(r2s) \in Nat /\ Len(r2s) > 0
  BY <1>1, StreamTyped
<1> QED
  BY <1>1, <1>2, StreamTyped

\* The receiver's steps keep the types and the counters.
LEMMA TypeReceiver == TypeInv /\ Receiver => TypeInv'
<1> SUFFICES ASSUME TypeOK, Counters, Receiver PROVE TypeOK' /\ Counters'
  BY DEF TypeInv
<1> USE SessionAssumption, MessagesTyped DEF env, svars, chans
<1>1. r2s \in Seq(Messages) /\ Append(r2s, Done) \in Seq(Messages)
      /\ Append(Append(r2s, Done), Done) \in Seq(Messages)
  BY StreamTyped DEF TypeOK
<1>2. CASE RSkipFile
  BY <1>2 DEF RSkipFile, TypeOK, Counters, Files
<1>3. CASE RRequest
  <2>1. rpos \in Files
    BY <1>3 DEF RRequest, TypeOK
  <2>2. Append(Append(r2s, Msg("req", rpos, Empty)), Sums) \in Seq(Messages)
    BY <1>1, <2>1, StreamTyped
  <2> QED
    BY <1>3, <2>1, <2>2 DEF RRequest, TypeOK, Counters, RWaits
<1>4. CASE RReadNdx
  BY <1>4, RReadTyped DEF RReadNdx, TypeOK, Counters, RWaits
<1>5. CASE RReadHead
  BY <1>5, RReadTyped DEF RReadHead, TypeOK, Counters, RWaits
<1>6. CASE RReadData
  <2>1. wire[1].c \in Contents
    BY <1>6, RReadTyped DEF RReadData, Messages
  <2> QED
    BY <1>6, <2>1, RReadTyped DEF RReadData, TypeOK, Counters, RWaits
<1>7. CASE RReadSum
  BY <1>7, RReadTyped DEF RReadSum, TypeOK, Counters
<1>8. CASE RInstall \/ RInstallFail
  <2>1. dst' \in [Files -> Contents]
    BY <1>8 DEF RInstall, RInstallFail, Install, TypeOK
  <2>2. rpos' \in 1..(NFiles + 1) /\ rpc' \in {"scan", "write"}
        /\ (rpc' = "write" => rpos' = rpos /\ rpc = "write")
    BY <1>8 DEF RInstall, RInstallFail, TypeOK, Counters, Files
  <2>4. rfail' \in BOOLEAN
    BY <1>8 DEF RInstall, RInstallFail, TypeOK
  <2>3. UNCHANGED <<env, rphase, rgot, svars, chans, down>> /\ rpc = "write"
    BY <1>8 DEF RInstall, RInstallFail
  <2> QED
    BY <2>1, <2>2, <2>3, <2>4 DEF TypeOK, Counters
<1>9. CASE RPhaseEnd
  BY <1>1, <1>9 DEF RPhaseEnd, TypeOK, Counters, RWaits, MaxPhase
<1>10. CASE RReadEcho
  <2>1. rphase' \in 0..MaxPhase /\ (rpc' = "echo" => rphase' < MaxPhase)
    BY <1>10 DEF RReadEcho, TypeOK, Counters, MaxPhase
  <2>2. r2s' \in Seq(Messages) /\ rpc' \in {"echo", "bye"}
    BY <1>1, <1>10 DEF RReadEcho
  <2> QED
    BY <1>10, <2>1, <2>2, RReadTyped DEF RReadEcho, TypeOK, Counters, RWaits
<1>11. CASE RReadBye
  BY <1>1, <1>11, RReadTyped DEF RReadBye, AfterBye, TypeOK, Counters, RWaits
<1>12. CASE RReadStats
  BY <1>12, RReadTyped DEF RReadStats, TypeOK, Counters, RWaits
<1>13. CASE REof
  BY <1>13 DEF REof, TypeOK, Counters
<1>14. CASE REpipe
  BY <1>14 DEF REpipe, TypeOK, Counters
<1> QED
  BY <1>2, <1>3, <1>4, <1>5, <1>6, <1>7, <1>9, <1>10, <1>11, <1>12, <1>13,
     <1>8, <1>14 DEF Receiver

\* The sender's steps keep them.
LEMMA TypeSender == TypeInv /\ Sender => TypeInv'
<1> SUFFICES ASSUME TypeOK, Counters, Sender PROVE TypeOK' /\ Counters'
  BY DEF TypeInv
<1> USE SessionAssumption, MessagesTyped DEF env, rvars
<1>1. CASE SReadDone
  <2>1. sphase' \in 0..(MaxPhase + 1) /\ (spc' = "idle" => sphase' <= MaxPhase)
        /\ spc' \in {"idle", "final"}
    BY <1>1 DEF SReadDone, TypeOK, Counters, MaxPhase
  <2>2. wire' \in Seq(Messages) /\ avail' \in 0..Len(wire')
    BY <1>1, WriteTyped DEF SReadDone, TypeOK
  <2> QED
    BY <1>1, <2>1, <2>2, SReadTyped DEF SReadDone, TypeOK, Counters, SWaits
<1>2. CASE SReadReq
  <2>1. r2s[1].f \in Files /\ r2s[1].f \in 0..NFiles
    BY <1>2, SReadTyped DEF SReadReq, SRead, Messages, Files
  <2>2. wire' \in Seq(Messages) /\ avail' \in 0..Len(wire')
    BY <1>2, <2>1, WriteTyped DEF SReadReq
  <2> QED
    BY <1>2, <2>1, <2>2, SReadTyped DEF SReadReq, TypeOK, Counters, SWaits
<1>3. CASE SReadSums
  <2>1. spay' \in Contents
    BY <1>3 DEF SReadSums, TypeOK, Counters
  <2> QED
    BY <1>3, <2>1, SReadTyped DEF SReadSums, TypeOK, Counters, SWaits
<1>4. CASE SWriteHead
  BY <1>4, WriteTyped DEF SWriteHead, TypeOK, Counters, SWaits
<1>5. CASE SWriteData
  <2>1. Msg("data", 0, spay) \in Messages
    BY DEF TypeOK
  <2> QED
    BY <1>5, <2>1, WriteTyped DEF SWriteData, TypeOK, Counters, SWaits
<1>6. CASE SWriteSum
  <2>1. wire' \in Seq(Messages) /\ avail' \in 0..Len(wire')
    BY <1>6, WriteTyped DEF SWriteSum
  <2> QED
    BY <1>6, <2>1 DEF SWriteSum, TypeOK, Counters, SWaits
<1>7. CASE SFinal
  BY <1>7, WriteTyped DEF SFinal, TypeOK, Counters, SWaits
<1>8. CASE SStats
  BY <1>8, WriteTyped DEF SStats, TypeOK, Counters, SWaits
<1>9. CASE SReadBye
  <2>1. wire' \in Seq(Messages) /\ avail' \in 0..Len(wire')
    BY <1>9, WriteTyped DEF SReadBye, TypeOK
  <2> QED
    BY <1>9, <2>1, SReadTyped DEF SReadBye, TypeOK, Counters, SWaits
<1>10. CASE SReadBye2
  BY <1>10, SReadTyped DEF SReadBye2, TypeOK, Counters, SWaits
<1>11. CASE SEof
  <2>1. wire' \in Seq(Messages) /\ avail' \in 0..Len(wire')
    BY <1>11, WriteTyped DEF SEof, TypeOK
  <2> QED
    BY <1>11, <2>1 DEF SEof, TypeOK, Counters, SWaits
<1>12. CASE SEpipe
  BY <1>12 DEF SEpipe, TypeOK, Counters, chans
<1> QED
  BY <1>1, <1>2, <1>3, <1>4, <1>5, <1>6, <1>7, <1>8, <1>9, <1>10, <1>11, <1>12
     DEF Sender

\* Every step keeps the types and the counters.
LEMMA TypeStep == TypeInv /\ [Next]_vars => TypeInv'
<1> SUFFICES ASSUME TypeInv, [Next]_vars PROVE TypeInv'
  OBVIOUS
<1> USE DEF env, rvars, svars, chans
<1>1. CASE Receiver
  BY <1>1, TypeReceiver
<1>2. CASE Sender
  BY <1>2, TypeSender
<1>3. CASE Environment
  <2>1. CASE Break
    BY <2>1 DEF Break, TypeInv, TypeOK, Counters
  <2>2. ASSUME NEW f \in Files, Change(f) PROVE TypeInv'
    <3>1. ver' \in [Files -> 0..MaxVer]
      BY <2>2, SessionAssumption DEF Change, TypeInv, TypeOK
    <3> QED
      BY <2>2, <3>1 DEF Change, TypeInv, TypeOK, Counters
  <2>3. ASSUME NEW f \in Files, Vanish(f) PROVE TypeInv'
    BY <2>3 DEF Vanish, TypeInv, TypeOK, Counters
  <2> QED
    BY <1>3, <2>1, <2>2, <2>3 DEF Environment
<1>4. CASE UNCHANGED vars
  BY <1>4 DEF vars, TypeInv, TypeOK, Counters
<1> QED
  BY <1>1, <1>2, <1>3, <1>4 DEF Next, Terminated

\* Types hold throughout every session: in particular no phase counter, list
\* position or stream ever leaves the range the code gives it.
THEOREM TypeCorrect == Spec => []TypeOK
<1>1. TypeInv => TypeOK
  BY DEF TypeInv
<1> QED
  BY <1>1, TypeInit, TypeStep, PTL DEF Spec

-----------------------------------------------------------------------------
(* The lock-step of the two loops.                                         *)

\* When source files stay readable no transfer is ever skipped.
NoSkip ==
    ~CanVanish => /\ gone = {}
                  /\ spc \in {"head", "data", "sum"} => spay # Empty

\* The inductive invariant.
LockInv == TypeInv /\ LockStep /\ NoSkip

\* What a read by the receiver leaves on the wire.
LEMMA RReadFacts ==
    ASSUME TypeOK, NEW k, RRead(k)
    PROVE  /\ wire # <<>> /\ Len(wire) > 0 /\ Len(wire) \in Nat
           /\ wire[1].k = k /\ wire[1] \in Messages
           /\ Len(wire') = Len(wire) - 1
           /\ Len(wire') = 0 => wire' = <<>>
           /\ Len(wire') > 0 => wire' # <<>>
           /\ \A i \in 1..Len(wire') : wire'[i] = wire[i + 1]
           /\ avail \in 1..Len(wire) /\ avail' = avail - 1
<1>1. wire \in Seq(Messages) /\ wire' = Tail(wire) /\ wire[1].k = k
      /\ avail \in 0..Len(wire) /\ avail > 0 /\ avail' = avail - 1
  BY DEF TypeOK, RRead
<1>2. wire # <<>> /\ Len(wire) \in Nat /\ Len(wire) > 0 /\ wire[1] \in Messages
  BY <1>1, RReadTyped, StreamTyped
<1>3. wire' \in Seq(Messages) /\ Len(wire') = Len(wire) - 1
      /\ \A i \in 1..(Len(wire) - 1) : wire'[i] = wire[i + 1]
  BY <1>1, <1>2, StreamTyped
<1>4. (Len(wire') = 0 => wire' = <<>>) /\ (Len(wire') > 0 => wire' # <<>>)
  BY <1>3, StreamTyped
<1> QED
  BY <1>1, <1>2, <1>3, <1>4

\* What a read by the sender leaves on its stream.
LEMMA SReadFacts ==
    ASSUME TypeOK, NEW k, SRead(k)
    PROVE  /\ Len(r2s) > 0 /\ Len(r2s) \in Nat /\ r2s # <<>>
           /\ r2s[1].k = k
           /\ Len(r2s') = Len(r2s) - 1
           /\ Len(r2s') = 0 => r2s' = <<>>
           /\ \A i \in 1..Len(r2s') : r2s'[i] = r2s[i + 1]
<1>1. r2s \in Seq(Messages) /\ r2s # <<>> /\ r2s' = Tail(r2s) /\ r2s[1].k = k
  BY DEF TypeOK, SRead
<1>2. Len(r2s) \in Nat /\ Len(r2s) > 0
  BY <1>1, StreamTyped
<1>3. r2s' \in Seq(Messages) /\ Len(r2s') = Len(r2s) - 1
      /\ \A i \in 1..(Len(r2s) - 1) : r2s'[i] = r2s[i + 1]
  BY <1>1, StreamTyped
<1>4. Len(r2s') = 0 => r2s' = <<>>
  BY <1>3, StreamTyped
<1> QED
  BY <1>1, <1>2, <1>3, <1>4

\* What a write by the sender adds to the wire.
LEMMA WriteFacts ==
    ASSUME TypeOK, NEW m \in Messages, Write(m) \/ WriteFlush(m)
    PROVE  /\ Len(wire) \in Nat /\ Len(wire') = Len(wire) + 1
           /\ wire' # <<>>
           /\ wire'[Len(wire) + 1] = m
           /\ \A i \in 1..Len(wire) : wire'[i] = wire[i]
<1>1. wire' = Append(wire, m) /\ wire \in Seq(Messages)
  BY DEF TypeOK, Write, WriteFlush
<1>2. wire' \in Seq(Messages)
  BY <1>1, StreamTyped
<1> QED
  BY <1>1, <1>2, StreamTyped

\* The receiver's own writes.
LEMMA RWriteFacts ==
    ASSUME TypeOK, NEW m \in Messages, NEW n \in Messages
    PROVE  /\ Len(r2s) \in Nat
           /\ Len(Append(r2s, m)) = Len(r2s) + 1
           /\ Append(r2s, m) # <<>>
           /\ \A i \in 1..Len(r2s) : Append(r2s, m)[i] = r2s[i]
           /\ Append(r2s, m)[Len(r2s) + 1] = m
           /\ Len(Append(Append(r2s, m), n)) = Len(r2s) + 2
           /\ Append(Append(r2s, m), n) # <<>>
           /\ \A i \in 1..Len(r2s) : Append(Append(r2s, m), n)[i] = r2s[i]
           /\ Append(Append(r2s, m), n)[Len(r2s) + 1] = m
           /\ Append(Append(r2s, m), n)[Len(r2s) + 2] = n
<1>1. r2s \in Seq(Messages)
  BY DEF TypeOK
<1> DEFINE a == Append(r2s, m)
           b == Append(a, n)
<1>2. a \in Seq(Messages) /\ Len(a) = Len(r2s) + 1 /\ Len(r2s) \in Nat
      /\ a[Len(r2s) + 1] = m /\ \A i \in 1..Len(r2s) : a[i] = r2s[i]
  BY <1>1, StreamTyped
<1> HIDE DEF a
<1>3. b \in Seq(Messages) /\ Len(b) = Len(a) + 1
      /\ b[Len(a) + 1] = n /\ \A i \in 1..Len(a) : b[i] = a[i]
  BY <1>2, StreamTyped
<1>4. a # <<>> /\ b # <<>>
  BY <1>2, <1>3, StreamTyped
<1> HIDE DEF b
<1>5. b[Len(r2s) + 2] = n /\ b[Len(r2s) + 1] = m /\ \A i \in 1..Len(r2s) : b[i] = r2s[i]
  BY <1>2, <1>3
<1> QED
  BY <1>2, <1>3, <1>4, <1>5 DEF a, b

\* Reading the next item of a response advances the receiver by one stage.
LEMMA InFlightRead ==
    ASSUME TypeOK, NEW n \in 2..5, InFlight(n), NEW k, RRead(k),
           RStage \in 1..3, RStage' = RStage + 1, sfile' = sfile, rpos' = rpos
    PROVE  InFlight(n)'
<1>1. /\ Len(wire) \in Nat /\ Len(wire) > 0 /\ Len(wire') = Len(wire) - 1
      /\ \A i \in 1..Len(wire') : wire'[i] = wire[i + 1]
  BY RReadFacts
<1>2. Len(wire') = n - RStage'
  BY <1>1 DEF InFlight
<1>3. ASSUME NEW i \in 1..Len(wire')
      PROVE  /\ wire'[i].k = Items[RStage' + i - 1]
             /\ wire'[i].k = "data" => wire'[i].c \in OwnContents(rpos)
  <2>1. i + 1 \in 1..Len(wire) /\ wire'[i] = wire[i + 1]
    BY <1>1, <1>3
  <2>2. wire[i + 1].k = Items[RStage + (i + 1) - 1]
        /\ (wire[i + 1].k = "data" => wire[i + 1].c \in OwnContents(rpos))
    BY <2>1 DEF InFlight
  <2>3. RStage + (i + 1) - 1 = RStage' + i - 1
    BY <1>3, <1>1
  <2> QED
    BY <2>1, <2>2, <2>3
<1> QED
  BY <1>2, <1>3 DEF InFlight, OwnContents

\* The same for the whole state of a transfer.
LEMMA TransferringRead ==
    ASSUME TypeOK, Transferring, NEW k, RRead(k),
           RStage \in 1..3, RStage' = RStage + 1,
           UNCHANGED <<want, rpos, rphase, sphase, sfile, spc, spay, r2s>>
    PROVE  Transferring'
<1>1. wire # <<>>
  BY RReadFacts
<1>2. \A n \in 2..5 : InFlight(n) => InFlight(n)'
  BY InFlightRead
<1> QED
  BY <1>1, <1>2 DEF Transferring, OwnContents

\* The lock-step holds at the start: nothing is in flight.
LEMMA LockInit == Init => LockInv
<1> SUFFICES ASSUME Init PROVE LockStep /\ NoSkip
  BY TypeInit DEF LockInv
<1> QED
  BY DEF Init, LockStep, NoSkip, Quiescent, RightFile

\* The receiver's steps keep the lock-step.
LEMMA LockReceiver ==
    ASSUME LockInv, Receiver
    PROVE  LockStep'
<1> USE SessionAssumption DEF env, svars, chans
<1>1. TypeOK /\ Counters /\ LockStep
  BY DEF LockInv, TypeInv
<1>r. RightFile /\ (dst' = dst => RightFile')
  BY <1>1 DEF LockStep, RightFile
<1>2. CASE RSkipFile
  BY <1>1, <1>2, <1>r DEF RSkipFile, LockStep, Quiescent
<1>3. CASE RRequest
  <2>1. rpos \in want /\ rpos \in Files /\ Quiescent
    BY <1>1, <1>3 DEF RRequest, LockStep, TypeOK
  <2>2. Msg("req", rpos, Empty) \in Messages /\ Sums \in Messages /\ Len(r2s) = 0
    BY <2>1, MessagesTyped DEF Quiescent
  <2>3. Len(r2s') = 2 /\ r2s'[1] = Msg("req", rpos, Empty) /\ r2s'[2] = Sums
    BY <1>1, <1>3, <2>2, RWriteFacts DEF RRequest
  <2>4. Transferring'
    BY <1>3, <2>1, <2>3 DEF RRequest, Transferring, Quiescent
  <2> QED
    BY <1>3, <2>4, <1>r DEF RRequest, LockStep
<1>4. CASE RReadNdx
  <2>1. Transferring /\ RRead("ndx")
    BY <1>1, <1>4 DEF RReadNdx, LockStep
  <2>2. Transferring'
    BY <1>1, <1>4, <2>1, TransferringRead DEF RReadNdx, RStage
  <2> QED
    BY <1>4, <2>2, <1>r DEF RReadNdx, LockStep
<1>5. CASE RReadHead
  <2>1. Transferring /\ RRead("head")
    BY <1>1, <1>5 DEF RReadHead, LockStep
  <2>2. Transferring'
    BY <1>1, <1>5, <2>1, TransferringRead DEF RReadHead, RStage
  <2> QED
    BY <1>5, <2>2, <1>r DEF RReadHead, LockStep
<1>6. CASE RReadData
  <2>1. Transferring /\ RRead("data")
    BY <1>1, <1>6 DEF RReadData, LockStep
  <2>2. Transferring'
    BY <1>1, <1>6, <2>1, TransferringRead DEF RReadData, RStage
  <2>3. rgot' \in OwnContents(rpos)'
    <3>1. wire[1].k = "data" /\ wire # <<>> /\ 1 \in 1..Len(wire)
      BY <1>1, <2>1, RReadFacts
    <3>2. wire[1].c \in OwnContents(rpos)
      BY <2>1, <3>1 DEF Transferring, InFlight
    <3> QED
      BY <1>6, <3>2 DEF RReadData, OwnContents
  <2> QED
    BY <1>6, <2>2, <2>3, <1>r DEF RReadData, LockStep
<1>7. CASE RReadSum
  <2>1. Transferring /\ RRead("sum") /\ rgot \in OwnContents(rpos) /\ rpos \in want
    BY <1>1, <1>7 DEF RReadSum, LockStep, Transferring
  <2>2. Quiescent'
    BY <1>1, <1>7, <2>1, RReadFacts DEF RReadSum, Transferring, InFlight, RStage, Quiescent
  <2> QED
    BY <1>7, <2>1, <2>2, <1>r DEF RReadSum, LockStep, OwnContents
<1>8. CASE RInstall \/ RInstallFail
  <2>1. Quiescent /\ rgot \in OwnContents(rpos) /\ rpos \in want
    BY <1>1, <1>8 DEF RInstall, RInstallFail, LockStep
  <2>2. Quiescent' /\ UNCHANGED <<want, rgot>>
    BY <1>8, <2>1 DEF RInstall, RInstallFail, Quiescent
  <2>3. RightFile'
    BY <1>1, <1>8, <2>1, <1>r DEF RInstall, RInstallFail, Install, RightFile, OwnContents, TypeOK
  <2>4. \/ rpc' = "scan"
        \/ rpc' = "write" /\ rpos' = rpos
    BY <1>8 DEF RInstall, RInstallFail
  <2> QED
    BY <2>1, <2>2, <2>3, <2>4 DEF LockStep, OwnContents
<1>9. CASE RPhaseEnd
  <2>1. Quiescent /\ Len(r2s) = 0
    BY <1>1, <1>9 DEF RPhaseEnd, LockStep, Quiescent
  <2>2. Len(r2s') = 1 /\ r2s'[1] = Done
    BY <1>1, <1>9, <2>1, RWriteFacts, MessagesTyped DEF RPhaseEnd
  <2>3. Boundary'
    BY <1>9, <2>1, <2>2 DEF RPhaseEnd, Boundary, Quiescent, MaxPhase
  <2> QED
    BY <1>9, <2>3, <1>r DEF RPhaseEnd, LockStep
<1>10. CASE RReadEcho
  <2>1. Boundary /\ RRead("done")
    BY <1>1, <1>10 DEF RReadEcho, LockStep
  <2>2. /\ sphase = rphase + 1 /\ r2s = <<>> /\ Len(r2s) = 0 /\ wire' = <<>> /\ spc = "idle"
        /\ rphase < MaxPhase
    BY <1>1, <2>1, RReadFacts DEF Boundary
  <2>3. CASE rphase + 1 < MaxPhase
    <3>1. Len(r2s') = 1 /\ r2s'[1] = Done
      BY <1>1, <1>10, <2>2, <2>3, RWriteFacts, MessagesTyped DEF RReadEcho
    <3> QED
      BY <1>10, <2>2, <2>3, <3>1, <1>r DEF RReadEcho, LockStep, Boundary, MaxPhase
  <2>4. CASE ~(rphase + 1 < MaxPhase)
    <3>1. Len(r2s') = 2 /\ r2s'[1] = Done /\ r2s'[2] = Done /\ r2s' # <<>>
      <4>1. r2s' = Append(Append(r2s, Done), Done)
        BY <1>10, <2>4 DEF RReadEcho
      <4>2. Len(r2s) + 1 = 1 /\ Len(r2s) + 2 = 2
        BY <2>2
      <4> QED
        BY <1>1, <4>1, <4>2, RWriteFacts, MessagesTyped
    <3>2. rphase' = MaxPhase /\ rphase + 1 = MaxPhase
      BY <1>1, <1>10, <2>2, <2>4 DEF RReadEcho, TypeOK, MaxPhase
    <3>3. Goodbye'
      <4>1. \A i \in 1..Len(r2s') : r2s'[i] = Done
        BY <3>1
      <4> QED
        BY <1>10, <2>2, <2>4, <3>1, <3>2, <4>1 DEF RReadEcho, Goodbye
    <3> QED
      BY <1>10, <2>4, <3>3, <1>r DEF RReadEcho, LockStep
  <2> QED
    BY <2>3, <2>4
<1>11. CASE RReadBye
  <2>1. Goodbye /\ RRead("done")
    BY <1>1, <1>11 DEF RReadBye, LockStep
  <2>2. \A i \in 1..Len(r2s') : r2s'[i] = Done
    BY <1>1, <1>11, <2>1, RWriteFacts, MessagesTyped DEF RReadBye, Goodbye
  <2>3. spc \in Leaving /\ sphase = MaxPhase + 1 /\ avail = Len(wire)
        /\ wire # <<>> /\ wire[1] = Done
        /\ (~Push /\ spc = "stats" => Len(wire) = 1)
        /\ (~Push /\ spc # "stats" => Len(wire) > 1 /\ wire[2].k = "stats")
    BY <1>1, <1>11, <2>1, RReadFacts DEF RReadBye, Goodbye
  <2>4. avail' = Len(wire')
    BY <1>1, <2>1, <2>3, RReadFacts
  <2>5. rpc' = "stats" => IF spc = "stats" THEN wire' = <<>>
                          ELSE wire' # <<>> /\ wire'[1].k = "stats"
    BY <1>1, <1>11, <2>1, <2>3, RReadFacts DEF RReadBye, AfterBye
  <2>6. Goodbye'
    BY <1>11, <2>1, <2>2, <2>3, <2>4, <2>5 DEF RReadBye, Goodbye, AfterBye
  <2> QED
    BY <1>11, <2>6, <1>r DEF RReadBye, LockStep, AfterBye
<1>12. CASE RReadStats
  <2>1. Goodbye /\ RRead("stats")
    BY <1>1, <1>12 DEF RReadStats, LockStep
  <2>2. Goodbye'
    BY <1>1, <1>12, <2>1, RReadFacts DEF RReadStats, Goodbye
  <2> QED
    BY <1>12, <2>2, <1>r DEF RReadStats, LockStep
<1>13. CASE REpipe
  <2>1. UNCHANGED <<env, dst, rpc, rpos, rphase, rgot, svars, chans>>
    BY <1>13 DEF REpipe
  <2> QED
    BY <1>1, <2>1, <1>r DEF LockStep, Quiescent, Transferring, InFlight, RStage,
       Boundary, Goodbye, OwnContents
<1>14. CASE REof
  <2>1. CASE rpc' = rpc
    BY <1>1, <1>14, <2>1, <1>r DEF REof, LockStep, Quiescent, Transferring, InFlight, RStage,
       Boundary, Goodbye
  <2>2. CASE rpc' = "exit" /\ rpc \in {"bye", "stats"}
    <3>1. Goodbye
      BY <1>1, <2>2 DEF LockStep
    <3>2. Goodbye'
      BY <1>14, <2>2, <3>1 DEF REof, Goodbye
    <3> QED
      BY <1>14, <2>2, <3>2, <1>r DEF REof, LockStep
  <2> QED
    BY <1>14, <2>1, <2>2 DEF REof
<1> QED
  BY <1>2, <1>3, <1>4, <1>5, <1>6, <1>7, <1>9, <1>10, <1>11, <1>12, <1>13, <1>14,
     <1>8 DEF Receiver

\* Writing the next item of a response advances the sender by one stage.
LEMMA InFlightWrite ==
    ASSUME TypeOK, NEW n \in 2..4, InFlight(n), NEW m \in Messages,
           Write(m) \/ WriteFlush(m),
           m.k = Items[n], m.k = "data" => m.c \in OwnContents(rpos),
           RStage \in 1..4, UNCHANGED <<rpc, rpos, sfile>>
    PROVE  InFlight(n + 1)'
<1>1. /\ Len(wire) \in Nat /\ Len(wire') = Len(wire) + 1
      /\ wire'[Len(wire) + 1] = m
      /\ \A i \in 1..Len(wire) : wire'[i] = wire[i]
  BY WriteFacts
<1>2. Len(wire) = n - RStage /\ RStage' = RStage
  BY DEF InFlight, RStage
<1>3. ASSUME NEW i \in 1..Len(wire')
      PROVE  /\ wire'[i].k = Items[RStage + i - 1]
             /\ wire'[i].k = "data" => wire'[i].c \in OwnContents(rpos)
  <2>1. CASE i \in 1..Len(wire)
    BY <1>1, <2>1 DEF InFlight
  <2>2. CASE i = Len(wire) + 1
    <3>1. RStage + i - 1 = n
      BY <1>1, <1>2, <2>2
    <3> QED
      BY <1>1, <2>2, <3>1
  <2> QED
    BY <1>1, <1>3, <2>1, <2>2
<1> QED
  BY <1>1, <1>2, <1>3 DEF InFlight, OwnContents

\* A response has four stages.
LEMMA StageRange == RStage \in 1..4
  BY DEF RStage

\* The sender's states between a request and its answer occur only while the
\* receiver waits for that answer, the others only after the phases.
LEMMA SenderPlace ==
    ASSUME LockStep, TypeOK
    PROVE  /\ spc \in {"sums", "head", "data", "sum"} => Transferring
           /\ spc \in {"sums", "head", "data", "sum"} => rpc \in {"ndx", "head", "data", "sum"}
           /\ spc \in {"final", "stats", "bye", "bye2"} => Goodbye
           /\ spc \in {"final", "stats", "bye", "bye2"} => rpc \in {"bye", "stats", "exit"}
<1>1. rpc \in {"scan", "write", "ndx", "head", "data", "sum", "echo", "bye", "stats", "exit"}
  BY DEF TypeOK, RWaits
<1> QED
  BY <1>1 DEF LockStep, Quiescent, Transferring, Boundary, Goodbye, Leaving

\* The sender's steps keep the lock-step, unless an unreadable file is
\* answered on a compressed stream.
LEMMA LockSender ==
    ASSUME ~(Compress /\ CanVanish), LockInv, Sender
    PROVE  LockStep'
<1> USE SessionAssumption DEF env, rvars
<1>1. TypeOK /\ Counters /\ LockStep /\ NoSkip
  BY DEF LockInv, TypeInv
<1>p. /\ spc \in {"sums", "head", "data", "sum"} => Transferring
      /\ spc \in {"sums", "head", "data", "sum"} => rpc \in {"ndx", "head", "data", "sum"}
      /\ spc \in {"final", "stats", "bye", "bye2"} => Goodbye
      /\ spc \in {"final", "stats", "bye", "bye2"} => rpc \in {"bye", "stats", "exit"}
  BY <1>1, SenderPlace
<1>r. /\ dst' = dst /\ rpc' = rpc /\ rpos' = rpos /\ rgot' = rgot => RightFile'
      /\ dst' = dst /\ rpc' = rpc /\ rpos' = rpos /\ rgot' = rgot /\ Transferring'
         /\ rpc \in {"ndx", "head", "data", "sum"} => LockStep'
      /\ dst' = dst /\ rpc' = rpc /\ rpos' = rpos /\ rgot' = rgot /\ Boundary'
         /\ rpc = "echo" => LockStep'
      /\ dst' = dst /\ rpc' = rpc /\ rpos' = rpos /\ rgot' = rgot /\ Goodbye'
         /\ rpc \in {"bye", "stats", "exit"} => LockStep'
  BY <1>1 DEF LockStep, RightFile, OwnContents
<1>s. RStage \in 1..4
  BY StageRange
<1>2. CASE SReadDone
  <2>1. r2s # <<>> /\ Len(r2s) > 0 /\ Len(r2s) \in Nat /\ r2s[1].k = "done" /\ spc = "idle"
    BY <1>1, <1>2, SReadFacts DEF SReadDone
  <2>2. rpc \in {"echo", "bye", "exit"}
    BY <1>1, <2>1 DEF LockStep, TypeOK, RWaits, Quiescent, Transferring, Goodbye, Leaving, Msg
  <2>3. CASE rpc = "echo"
    <3>1. /\ rphase < MaxPhase /\ sphase = rphase /\ Len(r2s) = 1 /\ wire = <<>> /\ Len(wire) = 0
      BY <1>1, <2>1, <2>3 DEF LockStep, Boundary
    <3>2. r2s' = <<>>
      BY <1>1, <1>2, <3>1, SReadFacts DEF SReadDone
    <3>3. ~(sphase + 1 > MaxPhase)
      BY <3>1, <1>1 DEF TypeOK, MaxPhase
    <3>4. WriteFlush(Done) /\ Done \in Messages
      BY <1>2, <3>3, MessagesTyped DEF SReadDone
    <3>5. Len(wire') = 1 /\ wire'[1] = Done /\ avail' = 1
      BY <1>1, <3>1, <3>4, WriteFacts DEF WriteFlush
    <3>6. Boundary'
      BY <1>2, <3>1, <3>2, <3>3, <3>5 DEF SReadDone, Boundary, MaxPhase
    <3> QED
      BY <1>2, <1>r, <2>3, <3>6 DEF SReadDone
  <2>4. CASE rpc \in {"bye", "exit"}
    <3>1. Goodbye /\ sphase = MaxPhase /\ wire = <<>>
      BY <1>1, <2>1, <2>4 DEF LockStep, Goodbye, Leaving
    <3>2. \A i \in 1..Len(r2s') : r2s'[i] = Done
      BY <1>1, <1>2, <3>1, SReadFacts DEF SReadDone, Goodbye
    <3>3. spc' = "final" /\ wire' = <<>>
      BY <1>2, <3>1 DEF SReadDone, MaxPhase
    <3>4. Goodbye'
      BY <1>2, <2>4, <3>1, <3>2, <3>3 DEF SReadDone, Goodbye
    <3> QED
      BY <1>2, <1>r, <2>4, <3>4 DEF SReadDone
  <2> QED
    BY <2>2, <2>3, <2>4
<1>3. CASE SReadReq
  <2>1. r2s # <<>> /\ Len(r2s) > 0 /\ Len(r2s) \in Nat /\ r2s[1].k = "req" /\ spc = "idle"
    BY <1>1, <1>3, SReadFacts DEF SReadReq
  <2>2. rpc = "ndx" /\ Transferring /\ wire = <<>> /\ Len(wire) = 0 /\ Len(r2s) = 2
        /\ r2s[1] = Msg("req", rpos, Empty) /\ r2s[2] = Sums
    BY <1>1, <2>1 DEF LockStep, TypeOK, RWaits, Quiescent, Transferring, Boundary, Goodbye,
       Leaving, Done, Msg
  <2>3. r2s[1].f = rpos /\ rpos \in Files
    BY <1>1, <2>2 DEF Msg, Counters
  <2>4. Len(r2s') = 1 /\ r2s'[1] = Sums
    BY <1>1, <1>3, <2>2, SReadFacts DEF SReadReq
  <2>5. Write(Msg("ndx", rpos, Empty)) /\ Msg("ndx", rpos, Empty) \in Messages
    BY <1>3, <2>3, MessagesTyped DEF SReadReq
  <2>6. Len(wire') = 1 /\ wire'[1] = Msg("ndx", rpos, Empty)
    BY <1>1, <2>2, <2>5, WriteFacts
  <2>7. InFlight(2)'
    BY <1>3, <2>2, <2>3, <2>6 DEF SReadReq, InFlight, RStage, Items, Msg
  <2>8. Transferring'
    BY <1>3, <2>2, <2>4, <2>7 DEF SReadReq, Transferring
  <2> QED
    BY <1>3, <1>r, <2>2, <2>8 DEF SReadReq
<1>4. CASE SReadSums
  <2>1. Transferring /\ spc = "sums" /\ Len(r2s) = 1 /\ InFlight(2)
    BY <1>p, <1>4 DEF SReadSums, Transferring
  <2>2. r2s' = <<>>
    BY <1>1, <1>4, <2>1, SReadFacts DEF SReadSums
  <2>3. InFlight(2)'
    BY <1>4, <2>1 DEF SReadSums, InFlight, RStage, OwnContents
  <2>4. spay' \in OwnContents(rpos)
    BY <1>1, <1>4, <2>1 DEF SReadSums, OwnContents, InFlight, Counters, TypeOK
  <2>5. Transferring'
    BY <1>4, <2>1, <2>2, <2>3, <2>4 DEF SReadSums, Transferring, OwnContents
  <2> QED
    BY <1>4, <1>r, <1>p, <2>5 DEF SReadSums
<1>5. CASE SWriteHead
  <2>1. Transferring /\ spc = "head" /\ InFlight(2) /\ r2s = <<>> /\ spay \in OwnContents(rpos)
    BY <1>p, <1>5 DEF SWriteHead, Transferring
  <2>2. InFlight(3)'
    <3> DEFINE m == Msg("head", 0, Empty)
    <3>1. m \in Messages /\ m.k = Items[2] /\ m.k # "data"
      BY MessagesTyped DEF Msg, Items
    <3>2. Write(m) /\ UNCHANGED <<rpc, rpos, sfile>>
      BY <1>5 DEF SWriteHead
    <3> HIDE DEF m
    <3>3. InFlight(2 + 1)'
      BY <1>1, <1>s, <2>1, <3>1, <3>2, InFlightWrite
    <3> QED
      BY <3>3
  <2>3. Transferring'
    BY <1>5, <2>1, <2>2 DEF SWriteHead, Transferring, OwnContents
  <2> QED
    BY <1>5, <1>r, <1>p, <2>3 DEF SWriteHead
<1>6. CASE SWriteData
  <2>1. Transferring /\ spc = "data" /\ InFlight(3) /\ r2s = <<>> /\ spay \in OwnContents(rpos)
    BY <1>p, <1>6 DEF SWriteData, Transferring
  <2>2. spc' = "sum" /\ ~(spay = Empty /\ Compress)
    BY <1>1, <1>6 DEF SWriteData, NoSkip
  <2>3. InFlight(4)'
    <3> DEFINE m == Msg("data", 0, spay)
    <3>1. m \in Messages /\ m.k = Items[3] /\ m.c \in OwnContents(rpos)
      BY <1>1, <2>1, MessagesTyped DEF Msg, Items, TypeOK
    <3>2. Write(m) /\ UNCHANGED <<rpc, rpos, sfile>>
      BY <1>6, <2>2 DEF SWriteData
    <3> HIDE DEF m
    <3>3. InFlight(3 + 1)'
      BY <1>1, <1>s, <2>1, <3>1, <3>2, InFlightWrite
    <3> QED
      BY <3>3
  <2>4. Transferring'
    BY <1>6, <2>1, <2>2, <2>3 DEF SWriteData, Transferring
  <2> QED
    BY <1>6, <1>r, <1>p, <2>4 DEF SWriteData
<1>7. CASE SWriteSum
  <2>1. Transferring /\ spc = "sum" /\ InFlight(4) /\ r2s = <<>>
    BY <1>p, <1>7 DEF SWriteSum, Transferring
  <2>2. InFlight(5)'
    <3> DEFINE m == Msg("sum", 0, Empty)
    <3>1. m \in Messages /\ m.k = Items[4] /\ m.k # "data"
      BY MessagesTyped DEF Msg, Items
    <3>2. (Write(m) \/ WriteFlush(m)) /\ UNCHANGED <<rpc, rpos, sfile>>
      BY <1>7 DEF SWriteSum
    <3> HIDE DEF m
    <3>3. InFlight(4 + 1)'
      BY <1>1, <1>s, <2>1, <3>1, <3>2, InFlightWrite
    <3> QED
      BY <3>3
  <2>3. Transferring'
    BY <1>7, <2>1, <2>2 DEF SWriteSum, Transferring
  <2> QED
    BY <1>7, <1>r, <1>p, <2>3 DEF SWriteSum
<1>8. CASE SFinal
  <2>1. Goodbye /\ spc = "final" /\ wire = <<>> /\ Len(wire) = 0 /\ rpc \in {"bye", "exit"}
        /\ sphase = MaxPhase + 1
    BY <1>p, <1>8 DEF SFinal, Goodbye, Leaving
  <2>2. Len(wire') = 1 /\ wire'[1] = Done /\ avail' = 1 /\ wire' # <<>>
    BY <1>1, <1>8, <2>1, WriteFacts, MessagesTyped DEF SFinal, WriteFlush
  <2>3. Goodbye'
    BY <1>8, <2>1, <2>2 DEF SFinal, Goodbye, Leaving
  <2> QED
    BY <1>8, <1>r, <2>1, <2>3 DEF SFinal
<1>9. CASE SStats
  <2>1. Goodbye /\ spc = "stats" /\ rpc \in {"bye", "stats", "exit"} /\ sphase = MaxPhase + 1
    BY <1>p, <1>9 DEF SStats, Goodbye, Leaving
  <2>2. /\ Len(wire) \in Nat /\ Len(wire') = Len(wire) + 1 /\ wire' # <<>>
        /\ wire'[Len(wire) + 1] = Msg("stats", 0, Empty)
        /\ \A i \in 1..Len(wire) : wire'[i] = wire[i]
        /\ avail' = Len(wire')
    BY <1>1, <1>9, WriteFacts, MessagesTyped DEF SStats, WriteFlush
  <2>3. rpc = "bye" => wire'[1] = Done /\ (~Push => Len(wire') > 1 /\ wire'[2].k = "stats")
    <3>1. rpc = "bye" => wire # <<>> /\ wire[1] = Done /\ (~Push => Len(wire) = 1)
      BY <2>1 DEF Goodbye
    <3>2. wire # <<>> => 1 \in 1..Len(wire)
      BY <1>1, StreamTyped DEF TypeOK
    <3> QED
      BY <2>2, <3>1, <3>2 DEF Msg
  <2>4. rpc = "stats" => wire'[1].k = "stats"
    <3>1. rpc = "stats" => Len(wire) = 0
      BY <2>1 DEF Goodbye
    <3> QED
      BY <2>2, <3>1 DEF Msg
  <2>5. Goodbye'
    BY <1>9, <2>1, <2>2, <2>3, <2>4 DEF SStats, Goodbye, Leaving
  <2> QED
    BY <1>9, <1>r, <2>1, <2>5 DEF SStats
<1>10. CASE SReadBye \/ SReadBye2 \/ (SEof /\ spc' # spc)
  <2>1. Goodbye /\ spc \in {"bye", "bye2"} /\ rpc \in {"bye", "stats", "exit"}
        /\ sphase = MaxPhase + 1 /\ avail = Len(wire) /\ wire \in Seq(Messages)
    BY <1>1, <1>p, <1>10 DEF SReadBye, SReadBye2, SEof, Goodbye, TypeOK
  <2>2. \A i \in 1..Len(r2s') : r2s'[i] = Done
    <3>1. r2s' = r2s \/ SRead("done")
      BY <1>10 DEF SReadBye, SReadBye2, SEof
    <3> QED
      BY <1>1, <2>1, <3>1, SReadFacts DEF Goodbye
  <2>3. spc' \in {"bye2", "exit"} /\ UNCHANGED <<dst, rpc, rpos, rphase, rgot, sphase>>
    BY <1>10 DEF SReadBye, SReadBye2, SEof
  <2>4. UNCHANGED <<wire, avail>> \/ WriteFlush(Done)
    BY <1>10 DEF SReadBye, SReadBye2, SEof
  <2>5. /\ avail' = Len(wire')
        /\ wire # <<>> => wire' # <<>> /\ wire'[1] = wire[1]
        /\ Len(wire) > 1 => Len(wire') > 1 /\ wire'[2] = wire[2]
    <3>1. CASE UNCHANGED <<wire, avail>>
      BY <2>1, <3>1
    <3>2. CASE WriteFlush(Done)
      <4>1. Len(wire) \in Nat /\ Len(wire') = Len(wire) + 1 /\ wire' # <<>>
            /\ \A i \in 1..Len(wire) : wire'[i] = wire[i]
        BY <1>1, <3>2, WriteFacts, MessagesTyped
      <4>2. wire # <<>> => 1 \in 1..Len(wire)
        BY <2>1, StreamTyped
      <4> QED
        BY <3>2, <4>1, <4>2 DEF WriteFlush
    <3> QED
      BY <2>4, <3>1, <3>2
  <2>6. Goodbye'
    BY <2>1, <2>2, <2>3, <2>5 DEF Goodbye, Leaving
  <2> QED
    BY <1>r, <2>1, <2>3, <2>6
<1>11. CASE SEpipe \/ (SEof /\ spc' = spc)
  <2>1. UNCHANGED <<want, dst, rpc, rpos, rphase, rgot, spc, sphase, sfile, spay, r2s, wire, avail>>
    BY <1>11 DEF SEpipe, SEof, SWaits, chans
  <2> QED
    BY <1>1, <2>1 DEF LockStep, Quiescent, Transferring, InFlight, RStage, Boundary, Goodbye,
       RightFile, OwnContents
<1> QED
  BY <1>2, <1>3, <1>4, <1>5, <1>6, <1>7, <1>8, <1>9, <1>10, <1>11 DEF Sender

\* A transfer of a readable file never becomes a skipped one.
LEMMA NoSkipStep == LockInv /\ [Next]_vars => NoSkip'
<1> SUFFICES ASSUME LockInv, [Next]_vars, ~CanVanish
             PROVE  gone' = {} /\ (spc' \in {"head", "data", "sum"} => spay' # Empty)
  BY DEF NoSkip
<1> USE DEF env, rvars, svars, chans
<1>1. /\ gone = {} /\ (spc \in {"head", "data", "sum"} => spay # Empty)
      /\ Counters /\ TypeOK
  BY DEF LockInv, NoSkip, TypeInv
<1>2. CASE Receiver
  BY <1>1, <1>2 DEF Receiver, RSkipFile, RRequest, RReadNdx, RReadHead, RReadData, RReadSum,
     RInstall, RInstallFail, RPhaseEnd, RReadEcho, RReadBye, RReadStats,
     REof, REpipe
<1>3. CASE SReadSums
  <2>1. sfile \in Files /\ spay' = <<sfile, ver[sfile]>>
    BY <1>1, <1>3 DEF SReadSums, Counters
  <2>2. sfile # 0
    BY <2>1, SessionAssumption DEF Files
  <2>3. gone' = {} /\ spay' # Empty
    BY <1>1, <1>3, <2>1, <2>2 DEF SReadSums, Empty
  <2> QED
    BY <2>3
<1>4. CASE Sender /\ ~SReadSums
  BY <1>1, <1>4 DEF Sender, SReadDone, SReadReq, SWriteHead, SWriteData, SWriteSum,
     SFinal, SStats, SReadBye, SReadBye2, SEof, SEpipe
<1>5. CASE Environment
  BY <1>1, <1>5 DEF Environment, Break, Change, Vanish
<1>6. CASE UNCHANGED vars
  BY <1>1, <1>6 DEF vars
<1> QED
  BY <1>2, <1>3, <1>4, <1>5, <1>6 DEF Next, Terminated

\* Every step keeps the lock-step.
LEMMA LockNext ==
    ASSUME ~(Compress /\ CanVanish)
    PROVE  LockInv /\ [Next]_vars => LockInv'
<1> SUFFICES ASSUME LockInv, [Next]_vars PROVE LockStep'
  BY TypeStep, NoSkipStep DEF LockInv
<1>1. CASE Receiver
  BY <1>1, LockReceiver
<1>2. CASE Sender
  BY <1>2, LockSender
<1>3. CASE Environment \/ UNCHANGED vars
  <2>1. UNCHANGED <<want, dst, rpc, rpos, rphase, rgot, spc, sphase, sfile, spay, r2s, wire, avail>>
    BY <1>3 DEF Environment, Break, Change, Vanish, env, rvars, svars, chans, vars
  <2> QED
    BY <2>1 DEF LockInv, LockStep, Quiescent, Transferring, InFlight, RStage, Boundary, Goodbye,
       RightFile, OwnContents
<1> QED
  BY <1>1, <1>2, <1>3 DEF Next, Terminated

\* The sender and the receiver stay in lock-step in every session, unless an
\* unreadable file is answered on a compressed stream (Sender::run against
\* run_server_receiver): what is on the wire is exactly what the sender has
\* written and the receiver still has to read for the file in hand.
THEOREM LockStepHolds ==
    ASSUME ~(Compress /\ CanVanish)
    PROVE  Spec => []LockStep
<1>1. LockInv => LockStep
  BY DEF LockInv
<1> QED
  BY <1>1, LockInit, LockNext, PTL DEF Spec

\* No side ever parses one wire item as another.
THEOREM AlignedHolds ==
    ASSUME ~(Compress /\ CanVanish)
    PROVE  Spec => []Aligned
<1>1. LockInv => Aligned
  <2> SUFFICES ASSUME LockInv PROVE Aligned
    OBVIOUS
  <2>1. TypeOK /\ LockStep
    BY SenderPlace DEF LockInv, TypeInv
  <2>2. Len(wire) \in Nat /\ avail \in 0..Len(wire) /\ Len(r2s) \in Nat
        /\ (r2s # <<>> => 1 \in 1..Len(r2s))
    BY <2>1, StreamTyped DEF TypeOK
  <2>3. ASSUME rpc \in RWaits, avail > 0 PROVE wire[1].k = Expects[rpc]
    <3>0. 1 \in 1..Len(wire) /\ wire # <<>>
      BY <2>2, <2>3
    <3>1. CASE rpc \in {"ndx", "head", "data", "sum"}
      <4>1. \E n \in 2..5 : InFlight(n)
        BY <2>1, <3>0, <3>1 DEF LockStep, Transferring
      <4>2. wire[1].k = Items[RStage + 1 - 1]
        BY <3>0, <4>1 DEF InFlight
      <4>3. wire[1].k = Items[RStage]
        BY <4>2, StageRange
      <4> QED
        BY <3>1, <4>3 DEF RStage, Items, Expects
    <3>2. CASE rpc = "echo"
      BY <2>1, <3>0, <3>2 DEF LockStep, Boundary, Expects, Done, Msg
    <3>3. CASE rpc = "bye"
      BY <2>1, <3>0, <3>3 DEF LockStep, Goodbye, Expects, Done, Msg
    <3>4. CASE rpc = "stats"
      BY <2>1, <3>0, <3>4 DEF LockStep, Goodbye, Expects
    <3> QED
      BY <2>3, <3>1, <3>2, <3>3, <3>4 DEF RWaits
  <2>4. ASSUME r2s # <<>>
        PROVE  /\ spc = "idle" => r2s[1].k \in {"req", "done"}
               /\ spc = "sums" => r2s[1].k = "sums"
               /\ spc \in {"bye", "bye2"} => r2s[1].k = "done"
    <3>1. rpc \in {"scan", "write", "ndx", "head", "data", "sum", "echo", "bye", "stats", "exit"}
      BY <2>1 DEF TypeOK, RWaits
    <3>2. CASE rpc \in {"scan", "write", "ndx", "head", "data", "sum"}
      BY <2>1, <2>4, <3>2 DEF LockStep, Quiescent, Transferring, Sums, Msg
    <3>3. CASE rpc = "echo"
      BY <2>1, <2>4, <3>3 DEF LockStep, Boundary, Done, Msg
    <3>4. CASE rpc \in {"bye", "stats", "exit"}
      BY <2>1, <2>2, <2>4, <3>4 DEF LockStep, Goodbye, Leaving, Done, Msg
    <3> QED
      BY <3>1, <3>2, <3>3, <3>4
  <2>5. spc \notin {"bye", "bye2", "idle", "sums"} \/ spc \in {"bye", "bye2", "idle", "sums"}
    OBVIOUS
  <2> QED
    BY <2>3, <2>4, <2>5 DEF Aligned
<1> QED
  BY <1>1, LockInit, LockNext, PTL DEF Spec

\* Although the receiver ignores the echoed index, data never reaches the
\* wrong file.
THEOREM RightFileHolds ==
    ASSUME ~(Compress /\ CanVanish)
    PROVE  Spec => []RightFile
<1>1. LockInv => RightFile
  BY DEF LockInv, LockStep
<1> QED
  BY <1>1, LockInit, LockNext, PTL DEF Spec

\* The phase counters of the two sides never drift apart.
THEOREM PhasesAgreeHolds ==
    ASSUME ~(Compress /\ CanVanish)
    PROVE  Spec => []PhasesAgree
<1>1. LockInv => PhasesAgree
  <2> SUFFICES ASSUME LockInv PROVE PhasesAgree
    OBVIOUS
  <2>1. TypeOK /\ LockStep
    BY DEF LockInv, TypeInv
  <2>2. rpc \in {"scan", "write", "ndx", "head", "data", "sum", "echo", "bye", "stats", "exit"}
    BY <2>1 DEF TypeOK, RWaits
  <2>3. CASE rpc \in {"scan", "write", "ndx", "head", "data", "sum"}
    BY <2>1, <2>3 DEF LockStep, Quiescent, Transferring, PhasesAgree, MaxPhase
  <2>4. CASE rpc = "echo"
    BY <2>1, <2>4 DEF LockStep, Boundary, PhasesAgree, TypeOK, MaxPhase
  <2>5. CASE rpc \in {"bye", "stats", "exit"}
    BY <2>1, <2>5 DEF LockStep, Goodbye, PhasesAgree, MaxPhase
  <2> QED
    BY <2>2, <2>3, <2>4, <2>5
<1> QED
  BY <1>1, LockInit, LockNext, PTL DEF Spec

-----------------------------------------------------------------------------
(* Absence of mutual waiting rests on what the sender has flushed whenever *)
(* it goes back to waiting for a request.                                  *)

Flushed ==
    /\ BufCap = 0 => avail = Len(wire)
    /\ ~CanVanish /\ spc = "idle" => avail = Len(wire)

FlushInv == LockInv /\ Flushed

\* Whoever waits has been flushed to: every step keeps FlushInv.
LEMMA FlushedStep ==
    ASSUME FlushInv, [Next]_vars
    PROVE  Flushed'
<1> USE SessionAssumption DEF env, rvars, svars, chans
<1>1. TypeOK /\ Flushed /\ NoSkip /\ wire \in Seq(Messages) /\ Len(wire) \in Nat
  <2>1. wire \in Seq(Messages)
    BY DEF FlushInv, LockInv, TypeInv, TypeOK
  <2> QED
    BY <2>1, StreamTyped DEF FlushInv, LockInv, TypeInv
<1>w. \A m \in Messages : Write(m) \/ WriteFlush(m) =>
          /\ Len(wire') = Len(wire) + 1
          /\ BufCap = 0 => avail' = Len(wire')
  BY <1>1, WriteFacts DEF Write, WriteFlush, Flushed
<1>f. \A m \in Messages : WriteFlush(m) => avail' = Len(wire')
  BY <1>1, WriteFacts DEF WriteFlush
<1>u. UNCHANGED <<wire, avail>> /\ (spc' = spc \/ spc' # "idle") => Flushed'
  BY <1>1 DEF Flushed
<1>2. CASE \E k \in {"ndx", "head", "data", "sum", "done", "stats"} : RRead(k) /\ UNCHANGED spc
  BY <1>1, <1>2, RReadFacts DEF Flushed
<1>3. CASE \/ RSkipFile \/ RRequest \/ RPhaseEnd \/ REof
           \/ RInstall \/ RInstallFail \/ REpipe
  BY <1>3, <1>u DEF RSkipFile, RRequest, RPhaseEnd, REof, RInstall, RInstallFail, REpipe
<1>4. CASE SReadDone
  BY <1>4, <1>u, <1>w, <1>f, MessagesTyped DEF SReadDone, Flushed
<1>5. CASE SReadReq
  <2>1. r2s[1].f \in Files
    BY <1>1, <1>5, SReadTyped DEF SReadReq, SRead, Messages
  <2> QED
    BY <1>5, <2>1, <1>w, MessagesTyped DEF SReadReq, Flushed
<1>6. CASE SReadSums \/ SReadBye2 \/ SEpipe
  BY <1>6, <1>u DEF SReadSums, SReadBye2, SEpipe, chans
<1>7. CASE SWriteHead \/ SWriteData
  <2>1. Msg("data", 0, spay) \in Messages
    BY <1>1, MessagesTyped DEF TypeOK
  <2>2. \E m \in Messages : Write(m)
    BY <1>7, <2>1, MessagesTyped DEF SWriteHead, SWriteData
  <2> QED
    BY <1>7, <2>2, <1>w DEF SWriteHead, SWriteData, Flushed
<1>8. CASE SWriteSum
  <2>1. ~CanVanish => spay # Empty
    BY <1>1, <1>8 DEF SWriteSum, NoSkip
  <2> QED
    BY <1>8, <2>1, <1>w, <1>f, MessagesTyped DEF SWriteSum, Flushed
<1>9. CASE SFinal \/ SStats
  BY <1>9, <1>w, <1>f, MessagesTyped DEF SFinal, SStats, Flushed
<1>10. CASE SReadBye \/ SEof
  BY <1>10, <1>u, <1>w, <1>f, MessagesTyped DEF SReadBye, SEof, Flushed
<1>11. CASE Environment \/ UNCHANGED vars
  BY <1>11, <1>u DEF Environment, Break, Change, Vanish, vars
<1>12. CASE Receiver
  BY <1>12, <1>2, <1>3 DEF Receiver, RReadNdx, RReadHead, RReadData, RReadSum,
     RReadEcho, RReadBye, RReadStats
<1> QED
  BY <1>4, <1>5, <1>6, <1>7, <1>8, <1>9, <1>10, <1>11, <1>12 DEF Next, Terminated, Sender

\* If source files stay readable, or the sender's stream is not buffered, the
\* two programs never wait for one another with nothing in flight.
THEOREM NoMutualWaitHolds ==
    ASSUME ~(Compress /\ CanVanish), ~CanVanish \/ BufCap = 0
    PROVE  Spec => []NoMutualWait
<1>1. Init => FlushInv
  BY LockInit DEF Init, FlushInv, Flushed
<1>2. FlushInv /\ [Next]_vars => FlushInv'
  BY LockNext, FlushedStep DEF FlushInv
<1>3. FlushInv => NoMutualWait
  <2> SUFFICES ASSUME FlushInv, rpc \in RWaits, avail = 0, ~SHalted, spc \in SWaits, r2s = <<>>
               PROVE  FALSE
    BY DEF NoMutualWait
  <2>1. TypeOK /\ LockStep /\ Flushed
    BY DEF FlushInv, LockInv, TypeInv
  <2>2. wire \in Seq(Messages) /\ Len(wire) \in Nat /\ Len(r2s) = 0
        /\ (Len(wire) = 0 => wire = <<>>)
    BY <2>1, StreamTyped DEF TypeOK
  <2>3. CASE rpc \in {"ndx", "head", "data", "sum"}
    <3>1. spc = "idle" /\ InFlight(5)
      BY <2>1, <2>2, <2>3 DEF LockStep, Transferring, SWaits
    <3>2. avail = Len(wire)
      BY <2>1, <3>1 DEF Flushed
    <3> QED
      BY <3>1, <3>2, StageRange DEF InFlight
  <2>4. CASE rpc = "echo"
    BY <2>1, <2>2, <2>4 DEF LockStep, Boundary
  <2>5. CASE rpc \in {"bye", "stats"}
    BY <2>1, <2>2, <2>5 DEF LockStep, Goodbye, SWaits, Leaving
  <2> QED
    BY <2>3, <2>4, <2>5 DEF RWaits
<1> QED
  BY <1>1, <1>2, <1>3, PTL DEF Spec

-----------------------------------------------------------------------------
(* The session implements FileSync.                                        *)

\* Once the receiver has left its loop it has passed every file.
ListDone == rpc \in {"echo", "bye", "stats", "exit"} => rpos = NFiles + 1

SyncInv == LockInv /\ ListDone

\* Past the scan, the whole list has been served.
LEMMA ListDoneStep ==
    ASSUME SyncInv, [Next]_vars
    PROVE  ListDone'
<1> USE DEF env, rvars, svars, chans
<1>1. ListDone
  BY DEF SyncInv
<1>2. CASE Receiver
  BY <1>1, <1>2 DEF Receiver, RSkipFile, RRequest, RReadNdx, RReadHead, RReadData, RReadSum,
     RInstall, RInstallFail, RPhaseEnd, RReadEcho, RReadBye, RReadStats,
     REof, REpipe, RWaits, ListDone
<1>3. CASE ~Receiver
  <2>1. UNCHANGED <<rpc, rpos>>
    BY <1>3 DEF Next, Sender, Environment, Terminated, SReadDone, SReadReq, SReadSums,
       SWriteHead, SWriteData, SWriteSum, SFinal, SStats, SReadBye, SReadBye2,
       SEof, SEpipe, Break, Change, Vanish, vars
  <2> QED
    BY <1>1, <2>1 DEF ListDone
<1> QED
  BY <1>2, <1>3

\* The refinement mapping of Session!Sync.
Left == {f \in want : f >= rpos}
Outcome == IF rfail THEN "error" ELSE IF rpc = "exit" THEN "ok" ELSE "running"

\* Every step is a step of FileSync, or leaves its variables alone.
LEMMA SyncStep ==
    ASSUME SyncInv, [Next]_vars
    PROVE  [Sync!Next]_(Sync!vars)
<1> USE SessionAssumption DEF env, rvars, svars, chans
<1>1. TypeOK /\ Counters /\ LockStep /\ ListDone
  BY DEF SyncInv, LockInv, TypeInv
<1>u. dst' = dst /\ Left' = Left /\ Outcome' = Outcome => UNCHANGED Sync!vars
  BY DEF Sync!vars, Left, Outcome
<1>a. ASSUME dst' = dst, Left' = Left, Outcome = "running", Outcome' = "error"
      PROVE  Sync!Next
  BY <1>a DEF Sync!Next, Sync!Abort, Left, Outcome
<1>k. ASSUME dst' = dst, Left' = Left, Left = {}, Outcome = "running", Outcome' = "ok"
      PROVE  Sync!Next
  BY <1>k DEF Sync!Next, Sync!Succeed, Left, Outcome
<1>i. rpos \in Int /\ \A f \in want : f \in Int /\ f <= NFiles
  BY <1>1 DEF TypeOK, Files
<1>e. rpc \in {"echo", "bye", "stats", "exit"} => Left = {}
  BY <1>1, <1>i DEF ListDone, Left
<1>2. CASE RSkipFile
  <2>1. Left' = Left
    <3>1. want' = want /\ rpos' = rpos + 1 /\ rpos \notin want
      BY <1>2 DEF RSkipFile
    <3>2. \A f \in want : f >= rpos <=> f >= rpos + 1
      BY <1>i, <3>1
    <3> QED
      BY <3>1, <3>2 DEF Left
  <2> QED
    BY <1>2, <1>u, <2>1 DEF RSkipFile, Outcome
<1>3. CASE RRequest \/ RReadNdx \/ RReadHead \/ RReadData \/ RReadSum \/ RPhaseEnd \/ RReadEcho
  <2>1. UNCHANGED <<dst, want, rpos, rfail>> /\ rpc # "exit" /\ rpc' # "exit"
    BY <1>3 DEF RRequest, RReadNdx, RReadHead, RReadData, RReadSum, RPhaseEnd, RReadEcho
  <2> QED
    BY <1>u, <2>1 DEF Left, Outcome
<1>4. CASE RInstall \/ RInstallFail
  <2>1. rpos \in want /\ rpos \in Files /\ rgot \in OwnContents(rpos) /\ rpc = "write" /\ ~rfail
        /\ want' = want
    BY <1>1, <1>4 DEF RInstall, RInstallFail, LockStep, Counters
  <2>2. Outcome = "running"
    BY <2>1 DEF Outcome
  <2>3. PICK r \in 1..NFiles : r = rpos
    BY <2>1 DEF Files
  <2>4. r \in Left /\ \A g \in Left : r <= g
    BY <1>i, <2>1, <2>3 DEF Left
  <2>5. ASSUME Install PROVE Sync!Overwrite(r)
    <3>1. rgot \in {<<r, v>> : v \in 0..MaxVer} \cup {Empty}
      BY <2>1, <2>3 DEF OwnContents
    <3>2. \E c \in {<<r, v>> : v \in 0..MaxVer} \cup {Empty} : dst' = [dst EXCEPT ![r] = c]
      BY <2>3, <2>5, <3>1 DEF Install
    <3> QED
      BY <2>4, <3>2 DEF Sync!Overwrite, Left
  <2>6. CASE RInstall
    <3>1. Install /\ rpos' = rpos + 1 /\ rpc' = "scan" /\ rfail' = rfail
      BY <2>6 DEF RInstall
    <3>2. \A f \in want : f >= rpos + 1 <=> f >= rpos /\ f # rpos
      BY <1>i
    <3>3. Left' = Left \ {r}
      BY <2>1, <2>3, <3>1, <3>2 DEF Left
    <3>4. Outcome' = "running"
      BY <2>1, <3>1 DEF Outcome
    <3>5. Sync!Replace(r)
      BY <2>2, <2>5, <3>1, <3>3, <3>4 DEF Sync!Replace, Left, Outcome
    <3> QED
      BY <3>5 DEF Sync!Next
  <2>7. CASE RInstallFail
    <3>1. (Install \/ dst' = dst) /\ rpos' = rpos /\ rfail'
      BY <2>7 DEF RInstallFail
    <3>2. Left' = Left /\ Outcome' = "error"
      BY <2>1, <3>1 DEF Left, Outcome
    <3>3. Sync!Abort
      BY <2>2, <2>5, <3>1, <3>2 DEF Sync!Abort, Left, Outcome
    <3> QED
      BY <3>3 DEF Sync!Next
  <2> QED
    BY <1>4, <2>6, <2>7
<1>5. CASE RReadBye \/ RReadStats
  <2>1. UNCHANGED <<dst, want, rpos, rfail>> /\ rpc \in {"bye", "stats"}
        /\ rpc' \in {"stats", "exit"} /\ ~rfail
    BY <1>5 DEF RReadBye, RReadStats, RRead, AfterBye
  <2>2. Left' = Left /\ Outcome = "running"
    BY <2>1 DEF Left, Outcome
  <2>3. CASE rpc' = "exit"
    BY <1>k, <1>e, <2>1, <2>2, <2>3 DEF Outcome
  <2>4. CASE rpc' = "stats"
    BY <1>u, <2>1, <2>2, <2>4 DEF Outcome
  <2> QED
    BY <2>1, <2>3, <2>4
<1>6. CASE REpipe
  <2>1. UNCHANGED <<dst, want, rpos, rpc>> /\ ~rfail /\ rfail' /\ rpc # "exit"
    BY <1>6 DEF REpipe, RWaits
  <2> QED
    BY <1>a, <2>1 DEF Left, Outcome
<1>7. CASE REof
  <2>1. UNCHANGED <<dst, want, rpos>> /\ ~rfail /\ rpc # "exit"
    BY <1>7 DEF REof, RWaits
  <2>2. Left' = Left /\ Outcome = "running"
    BY <2>1 DEF Left, Outcome
  <2>3. CASE rfail'
    BY <1>a, <2>1, <2>2, <2>3 DEF Outcome
  <2>4. CASE ~rfail'
    <3>1. rpc \in {"bye", "stats"} /\ rpc' = "exit"
      BY <1>7, <2>4 DEF REof
    <3> QED
      BY <1>k, <1>e, <2>1, <2>2, <2>4, <3>1 DEF Outcome
  <2> QED
    BY <2>3, <2>4
<1>8. CASE ~Receiver
  <2>1. UNCHANGED <<dst, want, rpc, rpos, rfail>>
    BY <1>8 DEF Next, Sender, Environment, Terminated, SReadDone, SReadReq, SReadSums,
       SWriteHead, SWriteData, SWriteSum, SFinal, SStats, SReadBye, SReadBye2,
       SEof, SEpipe, Break, Change, Vanish, vars
  <2> QED
    BY <1>u, <2>1 DEF Left, Outcome
<1> QED
  BY <1>2, <1>3, <1>4, <1>5, <1>6, <1>7, <1>8 DEF Receiver

\* Whatever the interleaving, the changes of the source and the loss of the
\* connection, what a session does to the destination tree is a behaviour of
\* FileSync: whole files, in list order, each from its own source, and
\* success only after the last.
THEOREM SessionImplementsFileSync ==
    ASSUME ~(Compress /\ CanVanish)
    PROVE  Spec => ImplementsFileSync
<1>1. Init => SyncInv
  BY LockInit DEF Init, SyncInv, ListDone
<1>2. SyncInv /\ [Next]_vars => SyncInv'
  BY LockNext, ListDoneStep DEF SyncInv
<1>3. Init => Sync!Init
  BY SessionAssumption DEF Init, Sync!Init, Old, Files
<1>4. SyncInv /\ [Next]_vars => [Sync!Next]_(Sync!vars)
  BY SyncStep
<1> QED
  BY <1>1, <1>2, <1>3, <1>4, PTL DEF Spec, ImplementsFileSync, Sync!Spec

-----------------------------------------------------------------------------
(* A session that succeeds is complete.                                    *)

\* A content that the source file has had by now, or nothing when it is gone.
Fresh(f, c) == c \in {f} \X (0..ver[f]) \/ (f \in gone /\ c = Empty)

\* What is in place: the selected files before the receiver's position are
\* replaced, the others are as the session found them.
InPlace ==
    ~rfail => \A f \in Files :
                IF f \in want /\ f < rpos THEN Fresh(f, dst[f]) ELSE dst[f] = Old

\* What the sender has read, what is on the wire and what the receiver holds.
ReadFresh == spc \in {"head", "data"} => Fresh(rpos, spay)
SentFresh == rpc \in {"ndx", "head", "data"} =>
               \A i \in 1..Len(wire) : wire[i].k = "data" => Fresh(rpos, wire[i].c)
HeldFresh == rpc \in {"sum", "write"} => Fresh(rpos, rgot)

\* From the sender's read to the destination a content stays one of its file.
Delivered == InPlace /\ ReadFresh /\ SentFresh /\ HeldFresh

DeliverInv == SyncInv /\ Delivered

\* The sources only move on.
LEMMA FreshKept ==
    ASSUME TypeOK, [Next]_vars, NEW f \in Files, NEW c, Fresh(f, c)
    PROVE  Fresh(f, c)'
<1> USE DEF env, rvars, svars, chans
<1>1. ver[f] \in Nat /\ (ver'[f] = ver[f] \/ ver'[f] = ver[f] + 1)
  <2>1. ver \in [Files -> 0..MaxVer]
    BY DEF TypeOK
  <2>2. ver' = ver \/ \E g \in Files : ver' = [ver EXCEPT ![g] = @ + 1]
    BY DEF Next, Receiver, Sender, Environment, Terminated, RSkipFile, RRequest, RReadNdx,
       RReadHead, RReadData, RReadSum, RInstall, RInstallFail, RPhaseEnd, RReadEcho, RReadBye,
       RReadStats, REof, REpipe, SReadDone, SReadReq, SReadSums, SWriteHead, SWriteData,
       SWriteSum, SFinal, SStats, SReadBye, SReadBye2, SEof, SEpipe, Break, Change, Vanish, vars
  <2> QED
    BY <2>1, <2>2, SessionAssumption
<1>2. gone \subseteq gone'
  BY DEF Next, Receiver, Sender, Environment, Terminated, RSkipFile, RRequest, RReadNdx,
     RReadHead, RReadData, RReadSum, RInstall, RInstallFail, RPhaseEnd, RReadEcho, RReadBye,
     RReadStats, REof, REpipe, SReadDone, SReadReq, SReadSums, SWriteHead, SWriteData,
     SWriteSum, SFinal, SStats, SReadBye, SReadBye2, SEof, SEpipe, Break, Change, Vanish, vars
<1>3. 0..ver[f] \subseteq 0..(ver'[f])
  BY <1>1
<1> QED
  BY <1>2, <1>3 DEF Fresh

\* Where a content is under way, the file it is for is in the list.
LEMMA UnderWay ==
    ASSUME LockInv
    PROVE  /\ rpc \in {"ndx", "head", "data", "sum", "write"} => rpos \in want /\ rpos \in Files
           /\ spc \in {"sums", "head", "data", "sum"} =>
                /\ sfile = rpos /\ rpos \in Files /\ rpc \in {"ndx", "head", "data", "sum"}
<1>1. TypeOK /\ LockStep
  BY DEF LockInv, TypeInv
<1>2. rpc \in {"ndx", "head", "data", "sum", "write"} => rpos \in want /\ rpos \in Files
  BY <1>1 DEF LockStep, Transferring, TypeOK
<1>3. ASSUME spc \in {"sums", "head", "data", "sum"}
      PROVE  Transferring /\ rpc \in {"ndx", "head", "data", "sum"}
  BY <1>1, <1>3, SenderPlace
<1>4. Transferring /\ spc \in {"sums", "head", "data", "sum"} => sfile = rpos
  BY DEF Transferring, InFlight
<1> QED
  BY <1>2, <1>3, <1>4

\* The same for every content at once.
LEMMA FreshStays ==
    ASSUME TypeOK, [Next]_vars
    PROVE  \A f \in Files : \A c :
             Fresh(f, c) => c \in {f} \X (0..ver'[f]) \/ (f \in gone' /\ c = Empty)
  BY FreshKept DEF Fresh

\* What is in place stays; the receiver adds the file at its position.
LEMMA InPlaceStep ==
    ASSUME DeliverInv, [Next]_vars
    PROVE  InPlace'
<1> USE SessionAssumption DEF env, rvars, svars, chans
<1>1. TypeOK /\ LockInv /\ InPlace /\ HeldFresh /\ rpos \in Int /\ Files \subseteq Int
      /\ dst \in [Files -> Contents]
  BY SMTT(40) DEF DeliverInv, SyncInv, LockInv, TypeInv, Delivered, TypeOK, Files
<1>2. \A f \in Files : \A c :
        Fresh(f, c) => c \in {f} \X (0..ver'[f]) \/ (f \in gone' /\ c = Empty)
  BY <1>1, FreshStays
<1>3. CASE UNCHANGED <<dst, rpos, want, rfail>>
  BY <1>1, <1>2, <1>3 DEF InPlace, Fresh
<1>4. CASE rfail'
  BY <1>4 DEF InPlace
<1>5. CASE RSkipFile
  <2>1. \A f \in Files : f \in want => (f < rpos <=> f < rpos + 1)
    BY <1>1, <1>5 DEF RSkipFile
  <2>2. UNCHANGED <<dst, want, rfail>> /\ rpos' = rpos + 1
    BY <1>5 DEF RSkipFile
  <2> QED
    BY <1>1, <1>2, <2>1, <2>2 DEF InPlace, Fresh
<1>6. CASE RInstall
  <2>1. dst' = [dst EXCEPT ![rpos] = rgot] /\ UNCHANGED <<want, rfail>> /\ rpos' = rpos + 1
        /\ rpc = "write"
    BY <1>6 DEF RInstall, Install
  <2>2. rpos \in want /\ rpos \in Files /\ Fresh(rpos, rgot)
    BY <1>1, <2>1, UnderWay DEF HeldFresh
  <2>3. dst'[rpos] = rgot /\ \A f \in Files \ {rpos} : dst'[f] = dst[f]
    BY <1>1, <2>1, <2>2
  <2>4. \A f \in Files \ {rpos} : f < rpos <=> f < rpos + 1
    BY <1>1
  <2>5. rpos < rpos + 1
    BY <1>1
  <2> QED
    BY <1>1, <1>2, <2>1, <2>2, <2>3, <2>4, <2>5 DEF InPlace, Fresh
<1> QED
  BY <1>3, <1>4, <1>5, <1>6
  DEF Next, Receiver, Sender, Environment, Terminated, RRequest, RReadNdx,
      RReadHead, RReadData, RReadSum, RInstallFail, RPhaseEnd, RReadEcho, RReadBye,
      RReadStats, REof, REpipe, SReadDone, SReadReq, SReadSums, SWriteHead, SWriteData,
      SWriteSum, SFinal, SStats, SReadBye, SReadBye2, SEof, SEpipe, Break, Change, Vanish, vars

\* The sender reads the file whose request it serves, in the version of the moment.
LEMMA ReadFreshStep ==
    ASSUME DeliverInv, [Next]_vars
    PROVE  ReadFresh'
<1> USE SessionAssumption DEF env, rvars, svars, chans
<1>1. TypeOK /\ LockInv /\ ReadFresh
  BY DEF DeliverInv, SyncInv, LockInv, TypeInv, Delivered
<1>2. \A f \in Files : \A c :
        Fresh(f, c) => c \in {f} \X (0..ver'[f]) \/ (f \in gone' /\ c = Empty)
  BY <1>1, FreshStays
<1>3. spc \in {"sums", "head", "data", "sum"} =>
        sfile = rpos /\ rpos \in Files /\ rpc \in {"ndx", "head", "data", "sum"}
  BY <1>1, UnderWay
<1>4. CASE spc' \notin {"head", "data"}
  BY <1>4 DEF ReadFresh
<1>5. CASE SReadSums
  <2>1. spc = "sums" /\ rpos' = rpos /\ ver' = ver /\ gone' = gone
        /\ spay' = IF sfile \in gone THEN Empty ELSE <<sfile, ver[sfile]>>
    BY <1>5 DEF SReadSums
  <2>2. ver[rpos] \in 0..ver[rpos]
    BY <1>1, <1>3, <2>1 DEF TypeOK
  <2> QED
    BY <1>3, <2>1, <2>2 DEF ReadFresh, Fresh
<1>6. CASE spc \in {"head", "data"} /\ UNCHANGED <<spay, rpos>>
  BY <1>1, <1>2, <1>3, <1>6 DEF ReadFresh, Fresh
<1>7. CASE spc' \in {"head", "data"} /\ Sender /\ ~SReadSums
  <2>1. spc \in {"head", "data"} /\ UNCHANGED <<spay, rpos>>
    BY <1>7 DEF Sender, SReadDone, SReadReq, SWriteHead, SWriteData,
       SWriteSum, SFinal, SStats, SReadBye, SReadBye2, SEof, SEpipe
  <2> QED
    BY <1>6, <2>1
<1>8. CASE spc' \in {"head", "data"} /\ ~Sender
  <2>1. UNCHANGED <<spc, spay>>
    BY <1>8 DEF Next, Receiver, Environment, Terminated, RSkipFile, RRequest, RReadNdx,
      RReadHead, RReadData, RReadSum, RInstall, RInstallFail, RPhaseEnd, RReadEcho, RReadBye,
      RReadStats, REof, REpipe, Break, Change, Vanish, vars
  <2>2. rpc \in {"ndx", "head", "data", "sum"}
    BY <1>3, <1>8, <2>1
  <2>3. rpos' = rpos
    BY <1>8, <2>2 DEF Next, Receiver, Environment, Terminated, RSkipFile, RRequest, RReadNdx,
      RReadHead, RReadData, RReadSum, RInstall, RInstallFail, RPhaseEnd, RReadEcho, RReadBye,
      RReadStats, REof, REpipe, Break, Change, Vanish, vars
  <2> QED
    BY <1>6, <1>8, <2>1, <2>3
<1> QED
  BY <1>4, <1>5, <1>7, <1>8

\* The token stream on the wire carries what the sender has read.
LEMMA SentFreshStep ==
    ASSUME DeliverInv, [Next]_vars
    PROVE  SentFresh'
<1> USE SessionAssumption DEF env, rvars, svars, chans
<1>1. TypeOK /\ LockInv /\ LockStep /\ ReadFresh /\ SentFresh
  BY DEF DeliverInv, SyncInv, LockInv, TypeInv, Delivered
<1>2. \A f \in Files : \A c :
        Fresh(f, c) => c \in {f} \X (0..ver'[f]) \/ (f \in gone' /\ c = Empty)
  BY <1>1, FreshStays
<1>3. /\ rpc \in {"ndx", "head", "data", "sum", "write"} => rpos \in Files
      /\ spc \in {"sums", "head", "data", "sum"} =>
           rpos \in Files /\ rpc \in {"ndx", "head", "data", "sum"}
  BY <1>1, UnderWay
<1>l. wire \in Seq(Messages) /\ Len(wire) \in Nat
  BY <1>1, StreamTyped DEF TypeOK
<1> SUFFICES ASSUME rpc' \in {"ndx", "head", "data"}, NEW i \in 1..Len(wire'),
                    wire'[i].k = "data"
             PROVE  Fresh(rpos, wire[i].c)'
  BY DEF SentFresh
<1>4. ASSUME rpc \in {"ndx", "head", "data"}, rpos' = rpos, NEW j \in 1..Len(wire),
             wire'[i] = wire[j]
      PROVE  Fresh(rpos, wire[i].c)'
  <2>1. Fresh(rpos, wire[j].c)
    BY <1>1, <1>4 DEF SentFresh
  <2> QED
    BY <1>2, <1>3, <1>4, <2>1 DEF Fresh
<1>5. CASE \E k \in {"ndx", "head", "data", "sum", "done", "stats"} :
             RRead(k) /\ rpc \in {"ndx", "head", "data"} /\ rpos' = rpos
  <2>1. i + 1 \in 1..Len(wire) /\ wire'[i] = wire[i + 1]
    BY <1>1, <1>5, RReadFacts
  <2> QED
    BY <1>4, <1>5, <2>1
<1>6. CASE UNCHANGED <<rpc, rpos, wire>>
  BY <1>4, <1>6
<1>7. CASE RRequest
  <2>1. wire = <<>> /\ Len(wire) = 0 /\ wire' = wire
    BY <1>1, <1>7 DEF RRequest, LockStep, Quiescent
  <2> QED
    BY <2>1
<1>8. ASSUME NEW m \in Messages, Write(m) \/ WriteFlush(m), m.k = "data" => m.c = spay,
             m.k = "data" => spc = "data", UNCHANGED <<rpc, rpos, spay>>
      PROVE  Fresh(rpos, wire[i].c)'
  <2>1. Len(wire') = Len(wire) + 1 /\ wire'[Len(wire) + 1] = m
        /\ \A j \in 1..Len(wire) : wire'[j] = wire[j]
    BY <1>1, <1>8, WriteFacts
  <2>2. CASE i \in 1..Len(wire)
    BY <1>4, <1>8, <2>1, <2>2
  <2>3. CASE i = Len(wire) + 1
    <3>1. wire'[i] = m /\ m.c = spay /\ spc = "data"
      BY <1>8, <2>1, <2>3
    <3>2. Fresh(rpos, spay) /\ rpos \in Files
      BY <1>1, <1>3, <3>1 DEF ReadFresh
    <3> QED
      BY <1>2, <1>8, <3>1, <3>2 DEF Fresh
  <2> QED
    BY <1>l, <2>1, <2>2, <2>3
<1>9. CASE SWriteData
  <2>1. \A k \in {"data", "eof4"} :
          Msg(k, 0, spay) \in Messages /\ Msg(k, 0, spay).c = spay
    BY <1>1, MessagesTyped DEF TypeOK, Msg
  <2>2. PICK k \in {"data", "eof4"} : Write(Msg(k, 0, spay))
    BY <1>9 DEF SWriteData
  <2> DEFINE m == Msg(k, 0, spay)
  <2>3. m \in Messages /\ m.c = spay /\ Write(m)
    BY <2>1, <2>2
  <2> HIDE DEF m
  <2> QED
    BY <1>8, <1>9, <2>3 DEF SWriteData
<1>10. CASE SReadReq \/ SWriteHead \/ SWriteSum \/ SReadDone \/ SFinal \/ SStats \/ SReadBye \/ SEof
  <2>1. UNCHANGED <<rpc, rpos, spay>>
    BY <1>10 DEF SReadReq, SWriteHead, SWriteSum, SReadDone, SFinal, SStats, SReadBye, SEof
  <2>2. CASE UNCHANGED wire
    BY <1>6, <2>1, <2>2
  <2>3. CASE \E m \in Messages : m.k # "data" /\ (Write(m) \/ WriteFlush(m))
    BY <1>8, <2>1, <2>3
  <2>4. CASE SReadReq
    <3>1. r2s[1].f \in Files
      BY <1>1, <2>4, SReadTyped DEF SReadReq, SRead, Messages
    <3>2. Msg("ndx", r2s[1].f, Empty) \in Messages /\ Msg("ndx", r2s[1].f, Empty).k # "data"
      BY <3>1, MessagesTyped DEF Msg
    <3> QED
      BY <2>3, <2>4, <3>2 DEF SReadReq
  <2>5. Done.k # "data" /\ Msg("head", 0, Empty).k # "data" /\ Msg("sum", 0, Empty).k # "data"
        /\ Msg("stats", 0, Empty).k # "data"
    BY DEF Done, Msg
  <2> QED
    BY <1>10, <2>2, <2>3, <2>4, <2>5, MessagesTyped
    DEF SWriteHead, SWriteSum, SReadDone, SFinal, SStats, SReadBye, SEof
<1>11. CASE SReadSums \/ SReadBye2 \/ SEpipe
  BY <1>6, <1>11 DEF SReadSums, SReadBye2, SEpipe
<1>12. CASE Environment \/ UNCHANGED vars
  BY <1>6, <1>12 DEF Environment, Break, Change, Vanish, vars
<1>13. CASE RReadNdx \/ RReadHead \/ RReadData \/ RReadSum \/ RReadEcho \/ RReadBye \/ RReadStats
  BY <1>5, <1>13 DEF RReadNdx, RReadHead, RReadData, RReadSum, RReadEcho, RReadBye, RReadStats,
     AfterBye
<1>14. CASE RSkipFile \/ RInstall \/ RInstallFail \/ RPhaseEnd \/ REof \/ REpipe
  BY <1>6, <1>14 DEF RSkipFile, RInstall, RInstallFail, RPhaseEnd, REof, REpipe
<1> QED
  BY <1>7, <1>9, <1>10, <1>11, <1>12, <1>13, <1>14 DEF Next, Terminated, Sender, Receiver

\* The receiver holds what it took from the wire.
LEMMA HeldFreshStep ==
    ASSUME DeliverInv, [Next]_vars
    PROVE  HeldFresh'
<1> USE SessionAssumption DEF env, rvars, svars, chans
<1>1. TypeOK /\ LockInv /\ SentFresh /\ HeldFresh
  BY DEF DeliverInv, SyncInv, LockInv, TypeInv, Delivered
<1>2. \A f \in Files : \A c :
        Fresh(f, c) => c \in {f} \X (0..ver'[f]) \/ (f \in gone' /\ c = Empty)
  BY <1>1, FreshStays
<1>3. rpc \in {"ndx", "head", "data", "sum", "write"} => rpos \in Files
  BY <1>1, UnderWay
<1>4. CASE RReadData
  <2>1. rpc = "data" /\ RRead("data") /\ rgot' = wire[1].c /\ rpos' = rpos
    BY <1>4 DEF RReadData
  <2>2. 1 \in 1..Len(wire) /\ wire[1].k = "data"
    BY <1>1, <2>1, RReadFacts
  <2>3. Fresh(rpos, wire[1].c)
    BY <1>1, <2>1, <2>2 DEF SentFresh
  <2> QED
    BY <1>2, <1>3, <2>1, <2>3 DEF HeldFresh, Fresh
<1>5. CASE UNCHANGED <<rpos, rgot>> /\ rpc \in {"sum", "write"}
  BY <1>1, <1>2, <1>3, <1>5 DEF HeldFresh, Fresh
<1>6. CASE rpc' \notin {"sum", "write"}
  BY <1>6 DEF HeldFresh
<1>7. CASE Receiver /\ ~RReadData
  BY <1>5, <1>6, <1>7 DEF Receiver, RSkipFile, RRequest, RReadNdx,
      RReadHead, RReadSum, RInstall, RInstallFail, RPhaseEnd, RReadEcho, RReadBye,
      RReadStats, REof, REpipe, AfterBye
<1>8. CASE ~Receiver
  BY <1>5, <1>6, <1>8 DEF Next, Sender, Environment, Terminated, SReadDone, SReadReq, SReadSums,
     SWriteHead, SWriteData, SWriteSum, SFinal, SStats, SReadBye, SReadBye2,
     SEof, SEpipe, Break, Change, Vanish, vars
<1> QED
  BY <1>4, <1>7, <1>8

\* A receiver that returns without an error has replaced every selected file
\* by a version its source had during the session, or by nothing if the source
\* had become unreadable, and has left the other files alone
\* (receiver.rs:232-614), unless an unreadable file meets a compressed stream.
THEOREM CompleteHolds ==
    ASSUME ~(Compress /\ CanVanish)
    PROVE  Spec => []Complete
<1>1. Init => DeliverInv
  <2> SUFFICES ASSUME Init PROVE DeliverInv
    OBVIOUS
  <2>1. SyncInv
    BY LockInit DEF Init, SyncInv, ListDone
  <2>2. \A f \in Files : ~(f < rpos)
    BY DEF Init, Files
  <2> QED
    BY <2>1, <2>2 DEF Init, DeliverInv, Delivered, InPlace, ReadFresh, SentFresh, HeldFresh
<1>2. DeliverInv /\ [Next]_vars => DeliverInv'
  BY LockNext, ListDoneStep, InPlaceStep, ReadFreshStep, SentFreshStep, HeldFreshStep
  DEF DeliverInv, SyncInv, Delivered
<1>3. DeliverInv => Complete
  <2> SUFFICES ASSUME DeliverInv, ~rfail, rpc = "exit", NEW f \in Files
               PROVE  IF f \in want
                      THEN dst[f] \in {f} \X (0..ver[f]) \/ (f \in gone /\ dst[f] = Empty)
                      ELSE dst[f] = Old
    BY DEF Complete
  <2>1. rpos = NFiles + 1
    BY DEF DeliverInv, SyncInv, ListDone
  <2>2. f < rpos
    BY <2>1, SessionAssumption DEF Files
  <2> QED
    BY <2>2 DEF DeliverInv, Delivered, InPlace, Fresh
<1> QED
  BY <1>1, <1>2, <1>3, PTL DEF Spec
=============================================================================
