--------------------------- MODULE DestTreeProofs ---------------------------
(* Proofs about DestTree: what a run that is killed anywhere can leave     *)
(* behind, and why the next run repairs it.                                *)
EXTENDS DestTree, TLAPS

-----------------------------------------------------------------------------
(* The inductive invariant.                                                *)

\* The names of a file.
Names(f) == {dst[f], snap[f], ldtmp[f]}

\* Names of different hard-link groups never share an inode.
Apart == \A f, g \in Files : Leader[f] # Leader[g] => Names(f) \cap Names(g) \subseteq {None}

\* The time stamps of source files lie in the past.
Times == \A f \in Files : list[f] <= src[f] /\ src[f] <= 2 * clock

\* A modification time a source file could have means the content is at least
\* as new: this is what the quick check relies on.
HonestInode(i, f) ==
    ino[i].mt \in Versions =>
        ino[i].c \in Versions /\ ino[i].mt <= ino[i].c /\ ino[i].c <= src[f]

Honest ==
    \A f \in Files : Leader[f] = f => \A i \in Names(f) \ {None} : HonestInode(i, f)

\* No name refers to a torn file without --inplace, and to one that fs::copy has left
\* only in a hard-link group.
Whole ==
    ~inplace => \A f \in Files : \A i \in Names(f) \ {None} :
        ino[i].c # Torn /\ (ino[i].c = Cut => Grouped(f))

Installing == {"create", "fill", "rename", "truncate", "overwrite", "meta"}

\* The file a run is at.
Step ==
    /\ pc \in {"linked", "check", "relink", "copy"} \cup Installing => pos \in Files
    /\ pc \in {"linked", "check"} \cup Installing => Leader[pos] = pos
    /\ pc \in Installing => got \in Versions /\ list[pos] <= got /\ got <= src[pos]
    /\ pc \in {"create", "fill", "rename"} => ~inplace
    /\ pc \in {"truncate", "overwrite"} => inplace
    /\ pc = "linked" => ldtmp[pos] # None /\ SameStat(ldtmp[pos], pos)
    /\ pc \in {"fill", "rename"} => tmp # None /\ \A f \in Files : tmp \notin Names(f)
    /\ pc \notin {"fill", "rename"} => tmp = None
    /\ pc = "rename" => ino[tmp] = Inode(got, ino[tmp].mt) /\ ino[tmp].mt \notin Versions
    /\ pc \in {"overwrite", "meta"} => dst[pos] # None
    /\ pc = "meta" => ino[dst[pos]].c = got
    /\ pc = "meta" /\ ~inplace => \A f \in Files : snap[f] # dst[pos]
    /\ pc \in {"relink", "copy"} => Leader[pos] # pos
    /\ pc = "copy" => /\ dst[pos] # None /\ dst[Leader[pos]] # None
                       /\ ino[dst[pos]].c = Cut

\* The files the scan has done with.
Settled(f) ==
    \/ Leader[f] # f
    \/ "max_size" \in opts /\ Size[list[f]] \notin Limits
    \/ {"ignore_existing", "update"} \cap opts # {}
    \/ /\ Exists(f) /\ ino[dst[f]].mt = ListTime(f)
       /\ \/ ino[dst[f]].c \in list[f]..src[f]
          \/ "times" \notin opts /\ SameSize(dst[f], f)

\* The copy onto follower g emptied leader f.
EmptiedBy(g, f) ==
    Exists(f) /\ ino[dst[f]].c = Cut /\ g # f /\ Leader[g] = f /\ dst[g] = dst[f]

Spoilt(f) ==
    \E g \in Files : EmptiedBy(g, f) /\ (pc = "done" \/ g < pos \/ (g = pos /\ pc = "copy"))

Scanned ==
    /\ pc \in {"scan", "linked", "check"} \cup Installing =>
         \A f \in Files : f < pos => Settled(f)
    /\ pc \in {"follow", "relink", "copy", "done"} =>
         \A f \in Files : Settled(f) \/ Spoilt(f)

TreeInv == TypeOK /\ Apart /\ Times /\ Honest /\ Whole /\ Step /\ Scanned

-----------------------------------------------------------------------------
(* Facts about stamps.                                                     *)

\* Even and odd stamps differ: what the receiver has just written never
\* carries a time stamp of a source file.
LEMMA Stamping ==
    ASSUME clock \in 0..MaxClock
    PROVE  Now \in Stamps /\ Now \notin Versions /\ Now # Epoch
  BY TreeAssumption DEF Now, Stamps, Versions, Epoch

\* Versions are stamps.
LEMMA VersionsAreStamps ==
    /\ Versions \subseteq Stamps /\ Versions \subseteq Nat /\ 0 \in Versions
    /\ Epoch \in Stamps \ Versions
    /\ Torn \notin Versions /\ Other \notin Versions /\ Cut \notin Versions /\ Cut # Torn
  BY TreeAssumption DEF Stamps, Versions, Epoch, Torn, Other, Cut

\* A list time is a stamp, and a version with -t only.
LEMMA ListTimes ==
    ASSUME TypeOK, NEW f \in Files
    PROVE  /\ ListTime(f) \in Stamps
           /\ "times" \in opts => ListTime(f) = list[f] /\ list[f] \in Versions
           /\ "times" \notin opts => ListTime(f) \notin Versions
  BY VersionsAreStamps DEF TypeOK, ListTime

\* The initial tree.
LEMMA TreeInit == Init => TreeInv
<1> SUFFICES ASSUME Init PROVE TreeInv OBVIOUS
<1> USE TreeAssumption
<1>1. TypeOK
  <2>1. ino \in [Inodes -> [c : Contents, mt : Stamps]]
    <3>1. {Inode(0, 0), Inode(0, Epoch), Inode(Other, 1)} \subseteq [c : Contents, mt : Stamps]
      BY VersionsAreStamps DEF Inode, Contents, Stamps
    <3> QED BY <3>1 DEF Init
  <2> QED BY <2>1, VersionsAreStamps DEF Init, TypeOK, Files, Inodes
<1>2. Apart
  <2> SUFFICES ASSUME NEW f \in Files, NEW g \in Files, Leader[f] # Leader[g]
               PROVE  Names(f) \cap Names(g) \subseteq {None}
    BY DEF Apart
  <2>1. dst[f] \in {None, f, Leader[f]} /\ dst[g] \in {None, g, Leader[g]} BY DEF Init
  <2>2. snap[f] \in {None, NFiles + f} /\ snap[g] \in {None, NFiles + g} BY DEF Init
  <2>3. ldtmp[f] = None /\ ldtmp[g] = None BY DEF Init
  <2>4. f # g /\ f # Leader[g] /\ Leader[f] # g OBVIOUS
  <2> QED BY <2>1, <2>2, <2>3, <2>4 DEF Names, None, Files
<1>3. Times BY DEF Init, Times
<1>4. Honest
  <2>1. \A i \in Inodes : ino[i].mt \in Versions => ino[i].mt = 0 /\ ino[i].c = 0
    BY DEF Init, Inode, Versions, Epoch
  <2> QED BY <1>1, <2>1, VersionsAreStamps DEF Honest, HonestInode, Names, Init, TypeOK
<1>5. Whole
  <2>1. \A i \in Inodes : ino[i].c # Torn /\ ino[i].c # Cut
    BY DEF Init, Inode, Torn, Other, Cut
  <2> QED BY <1>1, <2>1 DEF Whole, Names, TypeOK
<1>6. Step BY DEF Init, Step, Installing
<1>7. Scanned BY DEF Init, Scanned, Installing
<1> QED BY <1>1, <1>2, <1>3, <1>4, <1>5, <1>6, <1>7 DEF TreeInv

-----------------------------------------------------------------------------
(* What steps of each kind preserve.                                       *)

\* A file that is settled stays so while its inode, the list and the options
\* do not change and the source only gets newer.
LEMMA StaysSettled ==
    ASSUME TypeOK, TypeOK', NEW f \in Files, Settled(f),
           list' = list, opts' = opts, src[f] <= src'[f],
           dst'[f] = dst[f], dst[f] # None => ino'[dst[f]] = ino[dst[f]]
    PROVE  Settled(f)'
<1>1. src[f] \in Nat /\ src'[f] \in Nat /\ list[f] \in Nat BY VersionsAreStamps DEF TypeOK
<1>2. CASE /\ Exists(f) /\ ino[dst[f]].mt = ListTime(f)
           /\ \/ ino[dst[f]].c \in list[f]..src[f]
              \/ "times" \notin opts /\ SameSize(dst[f], f)
  <2>1. ino'[dst'[f]] = ino[dst[f]] BY <1>2 DEF Exists
  <2>2. Exists(f)' BY <1>2 DEF Exists
  <2>3. CASE ino[dst[f]].c \in list[f]..src[f]
    <3>1. ino[dst[f]].c \in list[f]..src'[f] BY <1>1, <2>3
    <3> QED BY <1>2, <2>1, <2>2, <3>1 DEF Settled, ListTime
  <2>4. CASE "times" \notin opts /\ SameSize(dst[f], f)
    BY <1>2, <2>1, <2>2, <2>4 DEF Settled, ListTime, SameSize, Length
  <2> QED BY <1>2, <2>3, <2>4
<1> QED BY <1>2 DEF Settled

\* Steps that leave the tree alone.
LEMMA Quiet ==
    ASSUME TreeInv, TypeOK', UNCHANGED <<clock, src, list, ino, dst, snap, ldtmp, inplace, opts>>
    PROVE  /\ Apart' /\ Times' /\ Honest' /\ Whole'
           /\ \A f \in Files : Settled(f) => Settled(f)'
           /\ \A f, g \in Files : EmptiedBy(g, f) => EmptiedBy(g, f)'
<1>1. Apart' /\ Times' /\ Whole' BY DEF TreeInv, Apart, Times, Whole, Names
<1>2. Honest' BY DEF TreeInv, Honest, HonestInode, Names
<1>3. \A f \in Files : Settled(f) => Settled(f)'
  BY DEF Settled, Exists, ListTime, SameSize
<1>4. \A f, g \in Files : EmptiedBy(g, f) => EmptiedBy(g, f)'
  BY DEF EmptiedBy, Exists
<1> QED BY <1>1, <1>2, <1>3, <1>4

\* Steps that write one inode k, no file but g having a name for it.
LEMMA OneInode ==
    ASSUME TreeInv, TypeOK', UNCHANGED <<clock, src, list, opts, inplace, snap, ldtmp>>,
           NEW k \in Inodes, \A i \in Inodes : i # k => ino'[i] = ino[i],
           NEW g \in Files, \A f \in Files : f # g => dst'[f] = dst[f],
           \A f \in Files : Leader[f] # Leader[g] => k \notin Names(f)
    PROVE  /\ Times'
           /\ \A f \in Files : Leader[f] # Leader[g] =>
                (Leader[f] = f => \A i \in Names(f)' \ {None} : HonestInode(i, f)')
           /\ \A f \in Files : Leader[f] = f /\ f # Leader[g] /\ Settled(f) => Settled(f)'
<1> USE TreeAssumption
<1>1. Times' BY DEF TreeInv, Times
<1>2. ASSUME NEW f \in Files, Leader[f] # Leader[g], Leader[f] = f,
             NEW i \in Names(f)', i # None
      PROVE  HonestInode(i, f)'
  <2>1. Names(f)' = Names(f) BY <1>2 DEF Names
  <2>2. i \in Inodes /\ i # k BY <1>2, <2>1 DEF TreeInv, TypeOK, Names
  <2>3. HonestInode(i, f) BY <1>2, <2>1 DEF TreeInv, Honest
  <2>4. ino'[i] = ino[i] BY <2>2
  <2> QED BY <2>3, <2>4 DEF HonestInode
<1>3. ASSUME NEW f \in Files, Leader[f] = f, f # Leader[g], Settled(f)
      PROVE  Settled(f)'
  <2>1. f # g /\ Leader[f] # Leader[g] BY <1>3
  <2>2. dst'[f] = dst[f] /\ dst[f] # k BY <2>1 DEF Names
  <2>3. dst[f] # None => ino'[dst[f]] = ino[dst[f]] BY <2>2 DEF TreeInv, TypeOK
  <2>4. TypeOK /\ src[f] \in Nat BY VersionsAreStamps DEF TreeInv, TypeOK
  <2> QED BY <1>3, <2>2, <2>3, <2>4, StaysSettled
<1> QED BY <1>1, <1>2, <1>3

\* Steps that write an inode without a name.
Unnamed(k) ==
    /\ \A f \in Files : k \notin Names(f)
    /\ \A i \in Inodes : i # k => ino'[i] = ino[i]

\* Such a step changes nothing a name leads to.
LEMMA UnnamedInode ==
    ASSUME TreeInv, TypeOK', UNCHANGED <<clock, src, list, opts, inplace, dst, snap, ldtmp>>,
           NEW k \in Inodes, Unnamed(k)
    PROVE  /\ Apart' /\ Times' /\ Honest' /\ Whole'
           /\ \A f \in Files : Settled(f) => Settled(f)'
<1>1. \A f \in Files : Names(f)' = Names(f) /\ \A i \in Names(f) \ {None} : ino'[i] = ino[i]
  BY DEF TreeInv, TypeOK, Names, Unnamed
<1>2. Apart' /\ Times' BY <1>1 DEF TreeInv, Apart, Times
<1>3. Honest' BY <1>1 DEF TreeInv, Honest, HonestInode
<1>4. Whole' BY <1>1 DEF TreeInv, Whole
<1>5. ASSUME NEW f \in Files, Settled(f) PROVE Settled(f)'
  <2>1. dst'[f] = dst[f] /\ (dst[f] # None => ino'[dst[f]] = ino[dst[f]])
    BY <1>1 DEF Names
  <2>2. TypeOK /\ src[f] \in Nat BY VersionsAreStamps DEF TreeInv, TypeOK
  <2> QED BY <1>5, <2>1, <2>2, StaysSettled
<1> QED BY <1>2, <1>3, <1>4, <1>5

\* A file gets a name for an inode that no other group has a name for.
LEMMA GrowName ==
    ASSUME Apart, NEW k, k # None, NEW g \in Files,
           \A f \in Files : Leader[f] # Leader[g] => k \notin Names(f),
           \A f \in Files : f # g => Names(f)' = Names(f),
           Names(g)' \subseteq Names(g) \cup {k}
    PROVE  Apart'
<1> SUFFICES ASSUME NEW f \in Files, NEW h \in Files, Leader[f] # Leader[h]
             PROVE  Names(f)' \cap Names(h)' \subseteq {None}
  BY DEF Apart
<1>1. Names(f) \cap Names(h) \subseteq {None} BY DEF Apart
<1>2. CASE f = g BY <1>1, <1>2
<1>3. CASE h = g BY <1>1, <1>3
<1>4. CASE f # g /\ h # g BY <1>1, <1>4
<1> QED BY <1>2, <1>3, <1>4

\* Names that lead to the same inodes as before, or to those of the leader's names.
LEMMA WholeStays ==
    ASSUME Whole, UNCHANGED <<ino, inplace>>,
           \A f \in Files : Leader[f] \in Files /\ Leader[Leader[f]] = Leader[f],
           \A f \in Files : Names(f)' \subseteq Names(f) \cup Names(Leader[f]) \cup {None}
    PROVE  Whole'
<1> SUFFICES ASSUME ~inplace, NEW f \in Files, NEW i \in Names(f)', i # None
             PROVE  ino[i].c # Torn /\ (ino[i].c = Cut => Grouped(f))
  BY DEF Whole, Grouped
<1>1. Grouped(Leader[f]) => Grouped(f) BY DEF Grouped
<1>2. PICK g \in {f, Leader[f]} : i \in Names(g) OBVIOUS
<1>3. ino[i].c # Torn /\ (ino[i].c = Cut => Grouped(g)) BY <1>2 DEF Whole
<1> QED BY <1>1, <1>3

\* The quick check and the --link-dest check are not deceived when times are sent.
LEMMA HonestStat ==
    ASSUME TypeOK, Honest, "times" \in opts, NEW f \in Files, Leader[f] = f,
           NEW i \in Names(f) \ {None}, SameStat(i, f)
    PROVE  ino[i].c \in list[f]..src[f]
<1>1. ino[i].mt = list[f] /\ list[f] \in Versions BY ListTimes DEF SameStat
<1>2. HonestInode(i, f) BY DEF Honest
<1>3. /\ ino[i].c \in Nat /\ list[f] \in Nat /\ src[f] \in Nat
      /\ list[f] <= ino[i].c /\ ino[i].c <= src[f]
  BY <1>1, <1>2, VersionsAreStamps DEF HonestInode, TypeOK
<1> QED BY <1>3

\* The two steps of the copy that replaces a failed link.  Inode k takes on content c,
\* first none and then the leader's.
Copying(k, c) ==
    /\ pos \in Files /\ Leader[pos] # pos /\ dst[Leader[pos]] # None
    /\ \/ pc = "relink" /\ c = Cut /\ pc' = "copy" /\ pos' = pos
       \/ /\ pc = "copy" /\ dst[pos] = k /\ c = ino[dst[Leader[pos]]].c
          /\ pc' = "follow" /\ pos' = pos + 1
    /\ dst[pos] # None => k = dst[pos]
    /\ \A f \in Files : Leader[f] # Leader[pos] => k \notin Names(f)
    /\ dst[pos] = None => \A f \in Files : k \notin Names(f)
    /\ ~inplace => c # Torn
    /\ dst[Leader[pos]] = k => c = Cut
    /\ dst' = [dst EXCEPT ![pos] = k]
    /\ ino' = [ino EXCEPT ![k] = Inode(c, Now)]
    /\ UNCHANGED <<clock, src, list, snap, ldtmp, tmp, got, opts, inplace, runs>>

LEMMA CopySteps ==
    ASSUME TreeInv, OpenCopy \/ CopyLeader
    PROVE  \E k \in Inodes, c \in Contents : Copying(k, c)
<1>0. /\ TypeOK /\ Apart /\ Whole /\ Step /\ Cut # Torn /\ Cut \in Contents
      /\ dst \in [Files -> Inodes \cup {None}] /\ None \notin Inodes
      /\ Leader \in [Files -> Files]
  BY VersionsAreStamps, TreeAssumption DEF TreeInv, TypeOK, Contents, Inodes, None
<1>a. ASSUME NEW k, pos \in Files, dst[pos] = k, k # None
      PROVE  \A f \in Files : Leader[f] # Leader[pos] => k \notin Names(f)
  <2>1. k \in Names(pos) BY <1>a DEF Names
  <2> QED BY <1>0, <1>a, <2>1 DEF Apart
<1>1. CASE OpenCopy
  <2>1. PICK k \in Inodes : /\ IF Exists(pos) THEN k = dst[pos] ELSE Fresh(k)
                            /\ dst' = [dst EXCEPT ![pos] = k]
                            /\ ino' = [ino EXCEPT ![k] = Inode(Cut, Now)]
    BY <1>1 DEF OpenCopy
  <2>2. /\ pc = "relink" /\ pos \in Files /\ Leader[pos] # pos /\ pc' = "copy" /\ pos' = pos
        /\ dst[Leader[pos]] # None
        /\ UNCHANGED <<clock, src, list, snap, ldtmp, tmp, got, opts, inplace, runs>>
    BY <1>0, <1>1 DEF OpenCopy, Run, At, Exists, Step
  <2>3. dst[pos] # None => k = dst[pos] BY <2>1 DEF Exists
  <2>4. dst[pos] = None => \A f \in Files : k \notin Names(f)
    BY <2>1 DEF Exists, Fresh, Free, Names
  <2>5. \A f \in Files : Leader[f] # Leader[pos] => k \notin Names(f)
    BY <1>0, <1>a, <2>2, <2>3, <2>4
  <2> QED BY <1>0, <2>1, <2>2, <2>3, <2>4, <2>5 DEF Copying
<1>2. CASE CopyLeader
  <2> DEFINE k == dst[pos]
             c == ino[dst[Leader[pos]]].c
  <2>1. /\ pc = "copy" /\ pos \in Files /\ Leader[pos] # pos /\ Leader[pos] \in Files
        /\ pc' = "follow" /\ pos' = pos + 1
        /\ dst[Leader[pos]] # None /\ k # None /\ ino[k].c = Cut
        /\ ino' = [ino EXCEPT ![k] = Inode(c, Now)] /\ dst' = dst
        /\ UNCHANGED <<clock, src, list, snap, ldtmp, tmp, got, opts, inplace, runs>>
    BY <1>0, <1>2 DEF CopyLeader, NextFile, Run, At, Step
  <2>2. k \in Inodes /\ dst[Leader[pos]] \in Inodes /\ dst' = [dst EXCEPT ![pos] = k]
    BY <1>0, <2>1
  <2>3. c \in Contents BY <1>0, <2>2 DEF TypeOK
  <2>4. ~inplace => c # Torn
    <3>1. dst[Leader[pos]] \in Names(Leader[pos]) BY DEF Names
    <3> QED BY <1>0, <2>1, <3>1 DEF Whole
  <2>5. \A f \in Files : Leader[f] # Leader[pos] => k \notin Names(f) BY <1>a, <2>1
  <2> QED BY <2>1, <2>2, <2>3, <2>4, <2>5 DEF Copying
<1> QED BY <1>1, <1>2

\* The copy keeps the invariant.
LEMMA CopyKeeps ==
    ASSUME TreeInv, NEW k \in Inodes, NEW c \in Contents, Copying(k, c)
    PROVE  TreeInv'
<1> USE TreeAssumption
<1>0. /\ TypeOK /\ Apart /\ Times /\ Honest /\ Whole /\ Step /\ Scanned
      /\ \A f \in Files : Leader[f] \in Files /\ Leader[Leader[f]] = Leader[f]
      /\ NFiles \in Nat /\ pos \in Nat
  BY DEF TreeInv, TypeOK
<1>1. /\ pos \in Files /\ Leader[pos] # pos /\ dst[Leader[pos]] # None
      /\ pc \in {"relink", "copy"} /\ pc' \in {"copy", "follow"} /\ pos' \in {pos, pos + 1}
      /\ \A f \in Files : Leader[f] # Leader[pos] => k \notin Names(f)
      /\ UNCHANGED <<clock, src, list, snap, ldtmp, tmp, got, opts, inplace, runs>>
  BY DEF Copying
<1>2. /\ ino'[k] = Inode(c, Now) /\ ino'[k].c = c /\ Now \in Stamps /\ Now \notin Versions
      /\ k # None /\ \A i \in Inodes : i # k => ino'[i] = ino[i]
      /\ dst'[pos] = k /\ \A f \in Files : f # pos => dst'[f] = dst[f]
  BY <1>0, <1>1, Stamping DEF Copying, TypeOK, Inodes, None, Inode
<1>3. TypeOK'
  <2>1. Inode(c, Now) \in [c : Contents, mt : Stamps] BY <1>2 DEF Inode
  <2>2. pos' \in 1..(NFiles + 1) BY <1>0, <1>1 DEF Files
  <2>3. ino' \in [Inodes -> [c : Contents, mt : Stamps]] BY <1>0, <2>1 DEF TypeOK, Copying
  <2>4. dst' \in [Files -> Inodes \cup {None}] BY <1>0 DEF TypeOK, Copying
  <2> QED BY <1>0, <1>1, <2>2, <2>3, <2>4 DEF TypeOK
<1>4. /\ Times'
      /\ \A f \in Files : Leader[f] # Leader[pos] =>
           (Leader[f] = f => \A i \in Names(f)' \ {None} : HonestInode(i, f)')
      /\ \A f \in Files : Leader[f] = f /\ f # Leader[pos] /\ Settled(f) => Settled(f)'
  <2>1. UNCHANGED <<clock, src, list, opts, inplace, snap, ldtmp>> BY <1>1
  <2> QED BY <1>1, <1>2, <1>3, <2>1, OneInode
<1>5. Apart'
  <2>1. PICK q \in Files : q = pos BY <1>1
  <2>2. \A f \in Files : f # q => Names(f)' = Names(f) BY <1>1, <1>2, <2>1 DEF Names
  <2>3. Names(q)' \subseteq Names(q) \cup {k} BY <1>1, <1>2, <2>1 DEF Names
  <2>4. \A f \in Files : Leader[f] # Leader[q] => k \notin Names(f) BY <1>1, <2>1
  <2>5. Apart /\ k # None BY <1>0, <1>2
  <2> HIDE TreeAssumption
  <2> QED BY <2>2, <2>3, <2>4, <2>5, GrowName
<1>6. \A f \in Files : \A i \in Names(f)' \ {None} :
        i = k \/ (i \in Names(f) /\ i \in Inodes /\ ino'[i] = ino[i])
  BY <1>0, <1>1, <1>2 DEF Names, TypeOK
<1>7. Honest'
  <2> SUFFICES ASSUME NEW f \in Files, Leader[f] = f, NEW i \in Names(f)', i # None
               PROVE  HonestInode(i, f)'
    BY DEF Honest
  <2>1. CASE i = k BY <1>2, <2>1 DEF HonestInode, Inode
  <2>2. CASE i # k
    <3>1. HonestInode(i, f) /\ ino'[i] = ino[i] BY <1>0, <1>6, <2>2 DEF Honest
    <3> QED BY <1>1, <3>1 DEF HonestInode
  <2> QED BY <2>1, <2>2
<1>8. Whole'
  <2> SUFFICES ASSUME ~inplace, NEW f \in Files, NEW i \in Names(f)', i # None
               PROVE  ino'[i].c # Torn /\ (ino'[i].c = Cut => Grouped(f))
    BY <1>1 DEF Whole, Grouped
  <2>1. CASE i = k
    <3>1. c # Torn BY DEF Copying
    <3>2. Leader[f] = Leader[pos]
      <4>1. CASE f = pos BY <4>1
      <4>2. CASE f # pos
        <5>1. k \in Names(f) BY <1>1, <1>2, <2>1, <4>2 DEF Names
        <5> QED BY <1>1, <5>1
      <4> QED BY <4>1, <4>2
    <3>3. Grouped(f) BY <1>1, <3>2 DEF Grouped
    <3> QED BY <1>2, <2>1, <3>1, <3>3
  <2>2. CASE i # k BY <1>0, <1>6, <2>2 DEF Whole
  <2> QED BY <2>1, <2>2
<1>9. Step'
  <2>1. pc' = "copy" => dst'[pos] # None /\ dst'[Leader[pos]] # None /\ ino'[dst'[pos]].c = Cut
    BY <1>0, <1>1, <1>2 DEF Copying
  <2>2. pc' = "copy" => pos' = pos BY DEF Copying
  <2> QED BY <1>0, <1>1, <2>1, <2>2 DEF Step, Installing
<1>10. Scanned'
  <2>1. \A f \in Files : Settled(f) \/ Spoilt(f) BY <1>0, <1>1 DEF Scanned
  <2>2. \A g \in Files : g < pos \/ (g = pos /\ pc = "copy") => g < pos' \/ (g = pos' /\ pc' = "copy")
    BY <1>0, <1>1 DEF Copying, Files
  <2>3. pos < pos' \/ (pos = pos' /\ pc' = "copy")
    BY <1>0, <1>1 DEF Copying, Files
  <2>4. ASSUME NEW f \in Files PROVE Settled(f)' \/ Spoilt(f)'
    <3>1. CASE Leader[f] # f BY <3>1 DEF Settled
    <3>2. CASE Leader[f] = f /\ dst[f] = k
      <4>1. k \in Names(f) BY <3>2 DEF Names
      <4>2. f = Leader[pos] /\ f # pos BY <1>1, <3>2, <4>1
      <4>3. c = Cut BY <3>2, <4>2 DEF Copying
      <4>4. dst'[f] = k /\ ino'[dst'[f]].c = Cut BY <1>2, <3>2, <4>2, <4>3
      <4>5. PICK q \in Files : q = pos BY <1>1
      <4>6. EmptiedBy(q, f)' BY <1>2, <4>2, <4>4, <4>5 DEF EmptiedBy, Exists
      <4>7. q < pos' \/ (q = pos' /\ pc' = "copy") BY <2>3, <4>5
      <4> QED BY <4>6, <4>7 DEF Spoilt
    <3>3. CASE Leader[f] = f /\ dst[f] # k
      <4>1. /\ f # pos /\ dst'[f] = dst[f]
            /\ dst[f] # None => ino'[dst[f]] = ino[dst[f]]
        BY <1>0, <1>1, <1>2, <3>3 DEF TypeOK
      <4>2. CASE Settled(f)
        <5>1. src[f] \in Nat /\ src' = src BY <1>0, <1>1, VersionsAreStamps DEF TypeOK
        <5>2. src[f] <= src'[f] BY <5>1
        <5>3. list' = list /\ opts' = opts BY <1>1
        <5>4. Settled(f)' BY <1>0, <1>3, <4>1, <4>2, <5>2, <5>3, StaysSettled
        <5> QED BY <5>4
      <4>3. CASE Spoilt(f)
        <5>1. PICK g \in Files : EmptiedBy(g, f) /\ (g < pos \/ (g = pos /\ pc = "copy"))
          BY <1>1, <4>3 DEF Spoilt
        <5>2. g # pos
          <6>1. CASE pc = "copy" /\ g = pos BY <3>3, <5>1, <6>1 DEF EmptiedBy, Copying
          <6> QED BY <1>0, <5>1, <6>1 DEF Files
        <5>3. EmptiedBy(g, f)' BY <1>2, <4>1, <5>1, <5>2 DEF EmptiedBy, Exists
        <5> QED BY <2>2, <5>1, <5>3 DEF Spoilt
      <4> QED BY <2>1, <4>2, <4>3
    <3> QED BY <3>1, <3>2, <3>3
  <2> QED BY <1>1, <2>4 DEF Scanned, Installing
<1> QED BY <1>3, <1>4, <1>5, <1>7, <1>8, <1>9, <1>10 DEF TreeInv

\* Every step keeps the invariant.
LEMMA TreeStep == TreeInv /\ [Next]_vars => TreeInv'
<1> SUFFICES ASSUME TreeInv, [Next]_vars PROVE TreeInv' OBVIOUS
<1> USE TreeAssumption
<1>0. /\ TypeOK /\ Apart /\ Times /\ Honest /\ Whole /\ Step /\ Scanned
      /\ NFiles \in Nat /\ pos \in Nat
  BY DEF TreeInv, TypeOK
<1>q. \A f \in Files : f < pos + 1 <=> f < pos \/ f = pos
  BY <1>0 DEF Files
<1>1. CASE SkipFile
  <2>1. /\ pc = "scan" /\ pos \in Files /\ Skipped(pos) /\ pc' = "scan" /\ pos' = pos + 1 /\ got' = got
        /\ UNCHANGED <<clock, src, list, ino, dst, snap, ldtmp, tmp, inplace, opts, runs>>
    BY <1>1 DEF SkipFile, Run, At, NextFile, tree
  <2>2. TypeOK' BY <1>0, <2>1 DEF TypeOK, Files
  <2>3. Apart' /\ Times' /\ Honest' /\ Whole' /\ \A f \in Files : Settled(f) => Settled(f)'
    BY <2>1, <2>2, Quiet
  <2>4. Step' BY <1>0, <2>1 DEF Step, Installing, Names
  <2>5. Scanned'
    <3>1. \A f \in Files : f < pos => Settled(f) BY <1>0, <2>1 DEF Scanned, Installing
    <3>2. Settled(pos)
      <4>1. CASE "ignore_existing" \in opts \/ "update" \in opts
        <5>1. {"ignore_existing", "update"} \cap opts # {} BY <4>1
        <5> QED BY <5>1 DEF Settled
      <4> QED BY <2>1, <4>1 DEF Skipped, Settled
    <3> QED BY <1>q, <2>1, <2>3, <3>1, <3>2 DEF Scanned, Installing
  <2> QED BY <2>2, <2>3, <2>4, <2>5 DEF TreeInv
<1>2. CASE NoCandidate
  <2>1. /\ pc = "scan" /\ pos \in Files /\ ~Skipped(pos) /\ pc' = "check" /\ pos' = pos /\ got' = got
        /\ UNCHANGED <<clock, src, list, ino, dst, snap, ldtmp, tmp, inplace, opts, runs>>
    BY <1>2 DEF NoCandidate, Run, At, NextFile, tree
  <2>2. TypeOK' BY <1>0, <2>1 DEF TypeOK, Files
  <2>3. Apart' /\ Times' /\ Honest' /\ Whole' /\ \A f \in Files : Settled(f) => Settled(f)'
    BY <2>1, <2>2, Quiet
  <2>4. Step' BY <1>0, <2>1 DEF Step, Installing, Names, Skipped
  <2>5. Scanned'
    BY <1>0, <2>1, <2>3 DEF Scanned, Installing
  <2> QED BY <2>2, <2>3, <2>4, <2>5 DEF TreeInv
<1>3. CASE QuickCheck
  <2>1. /\ pc = "check" /\ pos \in Files /\ Unchanged(pos) /\ pc' = "scan" /\ pos' = pos + 1 /\ got' = got
        /\ UNCHANGED <<clock, src, list, ino, dst, snap, ldtmp, tmp, inplace, opts, runs>>
    BY <1>3 DEF QuickCheck, Run, At, NextFile, tree
  <2>2. TypeOK' BY <1>0, <2>1 DEF TypeOK, Files
  <2>3. Apart' /\ Times' /\ Honest' /\ Whole' /\ \A f \in Files : Settled(f) => Settled(f)'
    BY <2>1, <2>2, Quiet
  <2>4. Step' BY <1>0, <2>1 DEF Step, Installing, Names
  <2>5. Scanned'
    <3>1. \A f \in Files : f < pos => Settled(f) BY <1>0, <2>1 DEF Scanned, Installing
    <3>2. Settled(pos)
      <4>1. /\ Exists(pos) /\ SameStat(dst[pos], pos) /\ Leader[pos] = pos
            /\ dst[pos] \in Names(pos) \ {None}
        BY <1>0, <2>1 DEF Unchanged, Step, Installing, Names, Exists
      <4>2. CASE "times" \notin opts BY <4>1, <4>2 DEF SameStat, Settled
      <4>3. CASE "times" \in opts
        <5>1. ino[dst[pos]].c \in list[pos]..src[pos]
          BY <1>0, <2>1, <4>1, <4>3, HonestStat
        <5> QED BY <4>1, <5>1 DEF SameStat, Settled
      <4> QED BY <4>2, <4>3
    <3> QED BY <1>q, <2>1, <2>3, <3>1, <3>2 DEF Scanned, Installing
  <2> QED BY <2>2, <2>3, <2>4, <2>5 DEF TreeInv
<1>4. CASE Fetch
  <2>1. /\ pc = "check" /\ pos \in Files /\ got' = src[pos] /\ pos' = pos /\ pc' = IF inplace THEN "truncate" ELSE "create"
        /\ UNCHANGED <<clock, src, list, ino, dst, snap, ldtmp, tmp, inplace, opts, runs>>
    BY <1>4 DEF Fetch, Run, At, NextFile, tree
  <2>2. TypeOK' BY <1>0, <2>1 DEF TypeOK, Files
  <2>3. Apart' /\ Times' /\ Honest' /\ Whole' /\ \A f \in Files : Settled(f) => Settled(f)'
    BY <2>1, <2>2, Quiet
  <2>4. Step' 
    <3>1. /\ src[pos] \in Versions /\ list[pos] <= src[pos] /\ src[pos] <= src[pos]
          /\ Leader[pos] = pos
      BY <1>0, <2>1, VersionsAreStamps DEF TypeOK, Times, Step
    <3> QED BY <1>0, <2>1, <3>1 DEF Step, Installing, Names
  <2>5. Scanned'
    BY <1>0, <2>1, <2>3 DEF Scanned, Installing
  <2> QED BY <2>2, <2>3, <2>4, <2>5 DEF TreeInv
<1>5. CASE EndScan
  <2>1. /\ pc = "scan" /\ pos = NFiles + 1 /\ pos' = 1 /\ pc' = "follow" /\ got' = got
        /\ UNCHANGED <<clock, src, list, ino, dst, snap, ldtmp, tmp, inplace, opts, runs>>
    BY <1>5 DEF EndScan, Run, At, NextFile, tree
  <2>2. TypeOK' BY <1>0, <2>1 DEF TypeOK, Files
  <2>3. Apart' /\ Times' /\ Honest' /\ Whole' /\ \A f \in Files : Settled(f) => Settled(f)'
    BY <2>1, <2>2, Quiet
  <2>4. Step' BY <1>0, <2>1 DEF Step, Installing, Names
  <2>5. Scanned'
    <3>1. \A f \in Files : f < pos BY <2>1 DEF Files
    <3>2. \A f \in Files : Settled(f) BY <1>0, <2>1, <3>1 DEF Scanned
    <3> QED BY <2>1, <2>3, <3>2 DEF Scanned, Installing
  <2> QED BY <2>2, <2>3, <2>4, <2>5 DEF TreeInv
<1>6. CASE NoFollower
  <2>1. /\ pc = "follow" /\ pos \in Files /\ pc' = "follow" /\ pos' = pos + 1 /\ got' = got
        /\ UNCHANGED <<clock, src, list, ino, dst, snap, ldtmp, tmp, inplace, opts, runs>>
    BY <1>6 DEF NoFollower, Run, At, NextFile, tree
  <2>2. TypeOK' BY <1>0, <2>1 DEF TypeOK, Files
  <2>3. /\ Apart' /\ Times' /\ Honest' /\ Whole'
        /\ \A f \in Files : Settled(f) => Settled(f)'
        /\ \A f, g \in Files : EmptiedBy(g, f) => EmptiedBy(g, f)'
    BY <2>1, <2>2, Quiet
  <2>4. Step' BY <1>0, <2>1 DEF Step, Installing, Names
  <2>5. Scanned'
    <3>1. \A f \in Files : Settled(f) \/ Spoilt(f) BY <1>0, <2>1 DEF Scanned
    <3>2. \A f \in Files : Spoilt(f) => Spoilt(f)'
      BY <1>q, <2>1, <2>3 DEF Spoilt
    <3> QED BY <2>1, <2>3, <3>1, <3>2 DEF Scanned, Installing
  <2> QED BY <2>2, <2>3, <2>4, <2>5 DEF TreeInv
<1>7. CASE NoLink
  <2>1. /\ pc \in {"relink", "copy"} /\ pos \in Files /\ pc' = "follow" /\ pos' = pos + 1 /\ got' = got
        /\ UNCHANGED <<clock, src, list, ino, dst, snap, ldtmp, tmp, inplace, opts, runs>>
    BY <1>0, <1>7 DEF NoLink, Run, NextFile, Step, tree
  <2>2. TypeOK' BY <1>0, <2>1 DEF TypeOK, Files
  <2>3. /\ Apart' /\ Times' /\ Honest' /\ Whole'
        /\ \A f \in Files : Settled(f) => Settled(f)'
        /\ \A f, g \in Files : EmptiedBy(g, f) => EmptiedBy(g, f)'
    BY <2>1, <2>2, Quiet
  <2>4. Step' BY <1>0, <2>1 DEF Step, Installing, Names
  <2>5. Scanned'
    <3>1. \A f \in Files : Settled(f) \/ Spoilt(f) BY <1>0, <2>1 DEF Scanned
    <3>2. \A f \in Files : Spoilt(f) => Spoilt(f)'
      BY <1>q, <2>1, <2>3 DEF Spoilt
    <3> QED BY <2>1, <2>3, <3>1, <3>2 DEF Scanned, Installing
  <2> QED BY <2>2, <2>3, <2>4, <2>5 DEF TreeInv
<1>8. CASE Finish
  <2>1. /\ pc = "follow" /\ pc' = "done" /\ pos' = pos /\ got' = got
        /\ UNCHANGED <<clock, src, list, ino, dst, snap, ldtmp, tmp, inplace, opts, runs>>
    BY <1>8 DEF Finish, Run, At, NextFile, tree
  <2>2. TypeOK' BY <1>0, <2>1 DEF TypeOK, Files
  <2>3. /\ Apart' /\ Times' /\ Honest' /\ Whole'
        /\ \A f \in Files : Settled(f) => Settled(f)'
        /\ \A f, g \in Files : EmptiedBy(g, f) => EmptiedBy(g, f)'
    BY <2>1, <2>2, Quiet
  <2>4. Step' BY <1>0, <2>1 DEF Step, Installing, Names
  <2>5. Scanned'
    <3>1. \A f \in Files : Settled(f) \/ Spoilt(f) BY <1>0, <2>1 DEF Scanned
    <3>2. \A f \in Files : Spoilt(f) => Spoilt(f)'
      BY <1>q, <2>1, <2>3 DEF Spoilt
    <3> QED BY <2>1, <2>3, <3>1, <3>2 DEF Scanned, Installing
  <2> QED BY <2>2, <2>3, <2>4, <2>5 DEF TreeInv
<1>9. CASE Start
  <2>1. /\ pc \in {"idle", "done"} /\ runs < MaxRuns /\ runs' = runs + 1 /\ opts' \in OptionSets
        /\ list' = src /\ pos' = 1 /\ pc' = "scan" /\ got' = got
        /\ UNCHANGED <<clock, src, ino, dst, snap, ldtmp, tmp, inplace>>
    BY <1>9 DEF Start, tree
  <2>2. TypeOK' BY <1>0, <2>1 DEF TypeOK
  <2>3. Apart' /\ Honest' /\ Whole'
    BY <1>0, <2>1 DEF Apart, Honest, HonestInode, Whole, Names
  <2>4. Times'
    <3>1. \A f \in Files : src[f] \in Nat BY <1>0, VersionsAreStamps DEF TypeOK
    <3> QED BY <1>0, <2>1, <3>1 DEF Times
  <2>5. Step' BY <1>0, <2>1 DEF Step, Installing
  <2>6. Scanned'
    <3>1. \A f \in Files : ~(f < 1) BY DEF Files
    <3> QED BY <2>1, <3>1 DEF Scanned, Installing
  <2> QED BY <2>2, <2>3, <2>4, <2>5, <2>6 DEF TreeInv
<1>10. CASE Kill
  <2>1. /\ pc' = "idle" /\ tmp' = None /\ pos' = 1 /\ got' = Torn /\ opts' = {}
        /\ UNCHANGED <<clock, src, list, ino, dst, snap, ldtmp, inplace, runs>>
    BY <1>10 DEF Kill
  <2>2. TypeOK' BY <1>0, <2>1 DEF TypeOK
  <2>3. Apart' /\ Times' /\ Honest' /\ Whole'
    BY <1>0, <2>1 DEF Apart, Times, Honest, HonestInode, Whole, Names
  <2>4. Step' /\ Scanned' BY <2>1 DEF Step, Scanned, Installing
  <2> QED BY <2>2, <2>3, <2>4 DEF TreeInv
<1>11. CASE \E h \in Files : Change(h)
  <2>0. PICK h \in Files : Change(h) BY <1>11
  <2>1. /\ clock < MaxClock /\ clock' = clock + 1 /\ src' = [src EXCEPT ![h] = 2 * (clock + 1)]
        /\ UNCHANGED <<list, ino, dst, snap, ldtmp, tmp, pc, pos, got, opts, inplace, runs>>
    BY <2>0 DEF Change, tree
  <2>2. clock \in Nat /\ clock + 1 \in 0..MaxClock BY <1>0, <2>1 DEF TypeOK
  <2>3. 2 * (clock + 1) \in Versions BY <2>2 DEF Versions
  <2>4. TypeOK' BY <1>0, <2>1, <2>2, <2>3 DEF TypeOK
  <2>5. \A f \in Files : /\ src[f] \in Nat /\ src'[f] \in Nat /\ list[f] \in Nat
                         /\ src[f] <= src'[f] /\ src'[f] <= 2 * clock'
    <3>1. \A f \in Files : src[f] \in Nat /\ src[f] <= 2 * clock /\ list[f] \in Nat
      BY <1>0, VersionsAreStamps DEF TypeOK, Times
    <3>2. \A f \in Files : src'[f] = IF f = h THEN 2 * (clock + 1) ELSE src[f]
      BY <1>0, <2>1 DEF TypeOK
    <3> QED BY <2>1, <2>2, <3>1, <3>2
  <2>6. Times' BY <1>0, <2>1, <2>5 DEF Times
  <2>7. Apart' /\ Whole' BY <1>0, <2>1 DEF Apart, Whole, Names
  <2>8. Honest'
    <3> SUFFICES ASSUME NEW f \in Files, Leader[f] = f, NEW i \in Names(f) \ {None}
                 PROVE  HonestInode(i, f)'
      BY <2>1 DEF Honest, Names
    <3>1. HonestInode(i, f) /\ ino'[i] = ino[i] BY <1>0, <2>1 DEF Honest
    <3>2. i \in Inodes BY <1>0 DEF TypeOK, Names
    <3>3. ino[i].c \in Versions => ino[i].c \in Nat BY VersionsAreStamps
    <3> QED BY <2>5, <3>1, <3>3 DEF HonestInode
  <2>9. Step'
    <3>1. pc \in Installing => got <= src'[pos]
      <4> SUFFICES ASSUME pc \in Installing PROVE got <= src'[pos] OBVIOUS
      <4>1. got \in Versions /\ got <= src[pos] /\ pos \in Files BY <1>0 DEF Step
      <4> QED BY <2>5, <4>1, VersionsAreStamps
    <3>2. pc = "linked" => SameStat(ldtmp[pos], pos)'
      BY <1>0, <2>1 DEF Step, SameStat, SameSize, ListTime
    <3> QED BY <1>0, <2>1, <3>1, <3>2 DEF Step, Installing, Names
  <2>10. \A f \in Files : Settled(f) => Settled(f)'
    BY <1>0, <2>1, <2>4, <2>5, StaysSettled
  <2>11. Scanned'
    <3>1. \A f \in Files : Spoilt(f) => Spoilt(f)' BY <2>1 DEF Spoilt, EmptiedBy, Exists
    <3> QED BY <1>0, <2>1, <2>10, <3>1 DEF Scanned
  <2> QED BY <2>4, <2>6, <2>7, <2>8, <2>9, <2>11 DEF TreeInv
<1>12. CASE LinkTmp
  <2>1. /\ pc = "scan" /\ pos \in Files /\ ~Skipped(pos) /\ Linkable(pos) /\ pos' = pos /\ got' = got
        /\ \/ ldtmp' = [ldtmp EXCEPT ![pos] = snap[pos]] /\ pc' = "linked"
           \/ ldtmp' = [ldtmp EXCEPT ![pos] = None] /\ pc' = "check"
        /\ UNCHANGED <<clock, src, list, ino, dst, snap, tmp, inplace, opts, runs>>
    BY <1>12 DEF LinkTmp, Run, At
  <2>2. TypeOK' BY <1>0, <2>1 DEF TypeOK
  <2>3. /\ \A f \in Files : Names(f)' \subseteq Names(f) \cup {None}
        /\ ldtmp'[pos] = None \/ ldtmp'[pos] = snap[pos]
        /\ pc' = "linked" => ldtmp'[pos] = snap[pos]
    BY <1>0, <2>1 DEF TypeOK, Names
  <2>4. Apart' /\ Times' /\ Whole'
    BY <1>0, <2>1, <2>3 DEF Apart, Times, Whole
  <2>5. Honest' BY <1>0, <2>1, <2>3 DEF Honest, HonestInode
  <2>6. Step'
    <3>1. Leader[pos] = pos BY <2>1 DEF Skipped
    <3>2. pc' = "linked" => ldtmp'[pos] # None /\ SameStat(ldtmp[pos], pos)'
      BY <2>1, <2>3 DEF Linkable, SameStat, SameSize, ListTime
    <3> QED BY <1>0, <2>1, <3>1, <3>2 DEF Step, Installing
  <2>7. \A f \in Files : Settled(f) => Settled(f)'
    BY <2>1 DEF Settled, Exists, ListTime, SameSize
  <2>8. Scanned' BY <1>0, <2>1, <2>7 DEF Scanned, Installing
  <2> QED BY <2>2, <2>4, <2>5, <2>6, <2>8 DEF TreeInv
<1>13. CASE LinkName
  <2>1. /\ pc = "linked" /\ pos \in Files /\ Leader[pos] = pos /\ ldtmp[pos] # None
        /\ UNCHANGED <<clock, src, list, ino, snap, tmp, got, inplace, opts, runs>>
        /\ \/ Rename(pos) /\ pc' = "scan" /\ pos' = pos + 1
           \/ ldtmp' = [ldtmp EXCEPT ![pos] = None] /\ pc' = "check" /\ dst' = dst /\ pos' = pos
    BY <1>0, <1>13 DEF LinkName, Run, At, NextFile, Step
  <2>2. /\ dst' \in [Files -> Inodes \cup {None}] /\ ldtmp' \in [Files -> Inodes \cup {None}]
        /\ \A f \in Files : Names(f)' \subseteq Names(f) \cup {None}
        /\ \A f \in Files : f # pos => dst'[f] = dst[f]
        /\ pc' = "scan" => dst'[pos] = ldtmp[pos]
        /\ pc' = "check" => dst' = dst
    <3>1. CASE pc' = "scan" /\ dst[pos] = ldtmp[pos]
      BY <1>0, <2>1, <3>1 DEF TypeOK, Rename, Names
    <3>2. CASE pc' = "scan" /\ dst[pos] # ldtmp[pos]
      BY <1>0, <2>1, <3>2 DEF TypeOK, Rename, Names
    <3>3. CASE pc' = "check"
      BY <1>0, <2>1, <3>3 DEF TypeOK, Names
    <3> QED BY <2>1, <3>1, <3>2, <3>3
  <2>3. TypeOK'
    <3>1. pos' \in 1..(NFiles + 1) /\ pc' \in {"scan", "check"} BY <1>0, <2>1 DEF Files
    <3> QED BY <1>0, <2>1, <2>2, <3>1 DEF TypeOK
  <2>4. Apart' /\ Times' /\ Whole'
    BY <1>0, <2>1, <2>2 DEF Apart, Times, Whole
  <2>5. Honest' BY <1>0, <2>1, <2>2 DEF Honest, HonestInode
  <2>6. Step' BY <1>0, <2>1 DEF Step, Installing
  <2>7. \A f \in Files : f # pos \/ pc' = "check" => (Settled(f) => Settled(f)')
    BY <2>1, <2>2 DEF Settled, Exists, ListTime, SameSize
  <2>8. ASSUME pc' = "scan", NEW p \in Files, p = pos PROVE Settled(p)'
    <3>1. SameStat(ldtmp[pos], pos) /\ ldtmp[pos] \in Names(pos) \ {None}
      BY <1>0, <2>1 DEF Step, Names
    <3>2. dst'[p] = ldtmp[p] /\ UNCHANGED <<ino, list, src, opts>> BY <2>1, <2>2, <2>8
    <3>3. CASE "times" \notin opts
      BY <2>8, <3>1, <3>2, <3>3 DEF SameStat, SameSize, ListTime, Settled, Exists
    <3>4. CASE "times" \in opts
      <4>1. ino[ldtmp[pos]].c \in list[pos]..src[pos]
        BY <1>0, <2>1, <3>1, <3>4, HonestStat
      <4> QED BY <2>8, <3>1, <3>2, <4>1 DEF SameStat, ListTime, Settled, Exists
    <3> QED BY <3>3, <3>4
  <2>9. Scanned'
    <3>1. \A f \in Files : f < pos => Settled(f) /\ f # pos
      BY <1>0, <2>1 DEF Scanned, Installing, Files
    <3> QED BY <1>q, <2>1, <2>7, <2>8, <3>1 DEF Scanned, Installing
  <2> QED BY <2>3, <2>4, <2>5, <2>6, <2>9 DEF TreeInv
<1>14. CASE CreateTmp
  <2>1. PICK k \in Inodes : Fresh(k) /\ tmp' = k /\ ino' = [ino EXCEPT ![k] = Inode(Torn, Now)]
    BY <1>14 DEF CreateTmp
  <2>2. /\ pc = "create" /\ pos \in Files /\ pc' = "fill" /\ pos' = pos /\ got' = got
        /\ UNCHANGED <<clock, src, list, dst, snap, ldtmp, inplace, opts, runs>>
    BY <1>14 DEF CreateTmp, Run, At
  <2>3. \A f \in Files : k \notin Names(f) BY <2>1 DEF Fresh, Free, Names
  <2>4. TypeOK'
    BY <1>0, <2>1, <2>2, Stamping DEF TypeOK, Inode, Contents
  <2>5. Unnamed(k) BY <1>0, <2>1, <2>2, <2>3 DEF Unnamed, TypeOK
  <2>6. Apart' /\ Times' /\ Honest' /\ Whole' /\ \A f \in Files : Settled(f) => Settled(f)'
    BY <2>2, <2>4, <2>5, UnnamedInode
  <2>7. Step'
    <3>1. k # None /\ \A f \in Files : k \notin Names(f)' BY <2>2, <2>3 DEF Inodes, None, Names
    <3> QED BY <1>0, <2>1, <2>2, <3>1 DEF Step, Installing
  <2>8. Scanned' BY <1>0, <2>2, <2>6 DEF Scanned, Installing
  <2> QED BY <2>4, <2>6, <2>7, <2>8 DEF TreeInv
<1>15. CASE FillTmp
  <2>1. /\ pc = "fill" /\ pos \in Files /\ pc' = "rename" /\ pos' = pos /\ got' = got
        /\ ino' = [ino EXCEPT ![tmp] = Inode(got, Now)]
        /\ UNCHANGED <<clock, src, list, dst, snap, ldtmp, tmp, inplace, opts, runs>>
    BY <1>15 DEF FillTmp, Run, At
  <2>2. /\ tmp \in Inodes /\ tmp # None /\ got \in Versions
        /\ \A f \in Files : tmp \notin Names(f)
    BY <1>0, <2>1 DEF Step, Installing, TypeOK
  <2>3. /\ ino'[tmp] = Inode(got, Now) /\ Now \in Stamps /\ Now \notin Versions
        /\ \A i \in Inodes : i # tmp => ino'[i] = ino[i]
    BY <1>0, <2>1, <2>2, Stamping DEF TypeOK
  <2>4. TypeOK'
    BY <1>0, <2>1, <2>2, <2>3 DEF TypeOK, Inode, Contents
  <2>5. Unnamed(tmp) BY <2>2, <2>3 DEF Unnamed
  <2>6. Apart' /\ Times' /\ Honest' /\ Whole' /\ \A f \in Files : Settled(f) => Settled(f)'
    BY <2>1, <2>2, <2>4, <2>5, UnnamedInode
  <2>7. Step'
    <3>1. ino'[tmp] = Inode(got, ino'[tmp].mt) /\ ino'[tmp].mt \notin Versions
      BY <2>3 DEF Inode
    <3>2. \A f \in Files : tmp \notin Names(f)' BY <2>1, <2>2 DEF Names
    <3> QED BY <1>0, <2>1, <2>2, <3>1, <3>2 DEF Step, Installing
  <2>8. Scanned' BY <1>0, <2>1, <2>6 DEF Scanned, Installing
  <2> QED BY <2>4, <2>6, <2>7, <2>8 DEF TreeInv
<1>16. CASE RenameTmp
  <2>1. /\ pc = "rename" /\ pos \in Files /\ pc' = "meta" /\ pos' = pos /\ got' = got
        /\ dst' = [dst EXCEPT ![pos] = tmp] /\ tmp' = None
        /\ UNCHANGED <<clock, src, list, ino, snap, ldtmp, inplace, opts, runs>>
    BY <1>16 DEF RenameTmp, Run, At
  <2>2. /\ tmp \in Inodes /\ tmp # None /\ got \in Versions /\ ~inplace /\ Leader[pos] = pos
        /\ \A f \in Files : tmp \notin Names(f)
        /\ ino[tmp] = Inode(got, ino[tmp].mt) /\ ino[tmp].mt \notin Versions
    BY <1>0, <2>1 DEF Step, Installing, TypeOK
  <2>3. ino[tmp].c = got /\ got # Torn /\ got # Cut
    BY <2>2, VersionsAreStamps DEF Inode
  <2>4. /\ dst'[pos] = tmp /\ \A f \in Files : f # pos => dst'[f] = dst[f]
        /\ \A f \in Files : Names(f)' \subseteq Names(f) \cup (IF f = pos THEN {tmp} ELSE {})
    BY <1>0, <2>1 DEF TypeOK, Names
  <2>5. TypeOK' BY <1>0, <2>1, <2>2 DEF TypeOK
  <2>6. Apart'
    <3> SUFFICES ASSUME NEW f \in Files, NEW g \in Files, Leader[f] # Leader[g]
                 PROVE  Names(f)' \cap Names(g)' \subseteq {None}
      BY DEF Apart
    <3>1. Names(f) \cap Names(g) \subseteq {None} BY <1>0 DEF Apart
    <3>2. ~(f = pos /\ g = pos) OBVIOUS
    <3> QED BY <2>2, <2>4, <3>1, <3>2
  <2>7. Times' /\ Whole'
    <3>1. Times' BY <1>0, <2>1 DEF Times
    <3>2. Whole' BY <1>0, <2>1, <2>2, <2>3, <2>4 DEF Whole
    <3> QED BY <3>1, <3>2
  <2>8. Honest'
    <3>1. \A f \in Files, i \in Inodes : i = tmp => HonestInode(i, f)'
      BY <2>1, <2>2 DEF HonestInode
    <3>2. \A f \in Files, i \in Inodes : HonestInode(i, f) => HonestInode(i, f)'
      BY <2>1 DEF HonestInode
    <3>3. \A f \in Files : Names(f) \subseteq Inodes \cup {None} BY <1>0 DEF TypeOK, Names
    <3> QED BY <1>0, <2>1, <2>2, <2>4, <3>1, <3>2, <3>3 DEF Honest
  <2>9. Step'
    <3>1. \A f \in Files : snap'[f] # dst'[pos]
      BY <2>1, <2>2, <2>4 DEF Names
    <3> QED BY <1>0, <2>1, <2>2, <2>3, <2>4, <3>1 DEF Step, Installing
  <2>10. \A f \in Files : f # pos => (Settled(f) => Settled(f)')
    BY <2>1, <2>4 DEF Settled, Exists, ListTime, SameSize
  <2>11. Scanned'
    <3>1. \A f \in Files : f < pos => f # pos BY <1>0 DEF Files
    <3> QED BY <1>0, <2>1, <2>10, <3>1 DEF Scanned, Installing
  <2> QED BY <2>5, <2>6, <2>7, <2>8, <2>9, <2>11 DEF TreeInv
<1>17. CASE Truncate
  <2>1. PICK k \in Inodes : /\ IF Exists(pos) THEN k = dst[pos] ELSE Fresh(k)
                            /\ dst' = [dst EXCEPT ![pos] = k]
                            /\ ino' = [ino EXCEPT ![k] = Inode(Torn, Now)]
    BY <1>17 DEF Truncate
  <2>2. /\ pc = "truncate" /\ pos \in Files /\ pc' = "overwrite" /\ pos' = pos /\ got' = got
        /\ UNCHANGED <<clock, src, list, snap, ldtmp, tmp, inplace, opts, runs>>
    BY <1>17 DEF Truncate, Run, At
  <2>3. inplace /\ Leader[pos] = pos /\ got \in Versions
    BY <1>0, <2>2 DEF Step, Installing
  <2>4. /\ ino'[k] = Inode(Torn, Now) /\ Now \in Stamps /\ Now \notin Versions /\ k # None
        /\ \A i \in Inodes : i # k => ino'[i] = ino[i]
        /\ dst'[pos] = k /\ \A f \in Files : f # pos => dst'[f] = dst[f]
    BY <1>0, <2>1, <2>2, Stamping DEF TypeOK, Inodes, None
  <2>5. \A f \in Files : Leader[f] # Leader[pos] => k \notin Names(f)
    <3>1. CASE Exists(pos)
      <4>1. k \in Names(pos) /\ k # None BY <2>1, <2>4, <3>1 DEF Names
      <4> QED BY <1>0, <2>2, <4>1 DEF Apart
    <3>2. CASE ~Exists(pos) BY <2>1, <3>2 DEF Fresh, Free, Names
    <3> QED BY <3>1, <3>2
  <2>6. TypeOK'
    <3>1. Inode(Torn, Now) \in [c : Contents, mt : Stamps] BY <2>4 DEF Inode, Contents
    <3> QED BY <1>0, <2>1, <2>2, <3>1 DEF TypeOK
  <2>7. /\ Times'
        /\ \A f \in Files : Leader[f] # Leader[pos] =>
             (Leader[f] = f => \A i \in Names(f)' \ {None} : HonestInode(i, f)')
        /\ \A f \in Files : Leader[f] = f /\ f # Leader[pos] /\ Settled(f) => Settled(f)'
    <3>1. UNCHANGED <<clock, src, list, opts, inplace, snap, ldtmp>> BY <2>2
    <3> QED BY <2>2, <2>4, <2>5, <2>6, <3>1, OneInode
  <2>8. Apart'
    <3>1. PICK q \in Files : q = pos BY <2>2
    <3>2. \A f \in Files : f # q => Names(f)' = Names(f) BY <2>2, <2>4, <3>1 DEF Names
    <3>3. Names(q)' \subseteq Names(q) \cup {k} BY <2>2, <2>4, <3>1 DEF Names
    <3>4. \A f \in Files : Leader[f] # Leader[q] => k \notin Names(f) BY <2>5, <3>1
    <3>5. Apart /\ k # None BY <1>0, <2>4
    <3> HIDE TreeAssumption
    <3> QED BY <3>2, <3>3, <3>4, <3>5, GrowName
  <2>9. Honest'
    <3> SUFFICES ASSUME NEW f \in Files, Leader[f] = f, NEW i \in Names(f)', i # None
                 PROVE  HonestInode(i, f)'
      BY DEF Honest
    <3>1. CASE Leader[f] # Leader[pos] BY <2>7, <3>1
    <3>2. CASE i = k BY <2>4, <3>2 DEF HonestInode, Inode
    <3>3. CASE f = pos /\ i # k
      <4>1. i \in Names(f) /\ i \in Inodes BY <1>0, <2>2, <2>4, <3>3 DEF Names, TypeOK
      <4>2. HonestInode(i, f) /\ ino'[i] = ino[i] BY <1>0, <2>4, <3>3, <4>1 DEF Honest
      <4> QED BY <2>2, <4>2 DEF HonestInode
    <3> QED BY <2>3, <3>1, <3>2, <3>3
  <2>10. Whole' BY <2>2, <2>3 DEF Whole
  <2>11. Step' BY <1>0, <2>2, <2>3, <2>4 DEF Step, Installing
  <2>12. Scanned'
    <3>1. \A f \in Files : f < pos => Settled(f) BY <1>0, <2>2 DEF Scanned, Installing
    <3>2. \A f \in Files : f < pos => Settled(f)'
      <4> SUFFICES ASSUME NEW f \in Files, f < pos PROVE Settled(f)' OBVIOUS
      <4>1. f # Leader[pos] BY <1>0, <2>3
      <4>2. CASE Leader[f] = f BY <2>7, <3>1, <4>1, <4>2
      <4>3. CASE Leader[f] # f BY <4>3 DEF Settled
      <4> QED BY <4>2, <4>3
    <3> QED BY <2>2, <3>2 DEF Scanned, Installing
  <2> QED BY <2>6, <2>7, <2>8, <2>9, <2>10, <2>11, <2>12 DEF TreeInv
<1>18. CASE Overwrite
  <2>1. /\ pc = "overwrite" /\ pos \in Files /\ pc' = "meta" /\ pos' = pos /\ got' = got
        /\ ino' = [ino EXCEPT ![dst[pos]] = Inode(got, Now)]
        /\ UNCHANGED <<clock, src, list, dst, snap, ldtmp, tmp, inplace, opts, runs>>
    BY <1>18 DEF Overwrite, Run, At
  <2>2. inplace /\ Leader[pos] = pos /\ got \in Versions /\ dst[pos] \in Inodes /\ dst[pos] # None
    BY <1>0, <2>1 DEF Step, Installing, TypeOK
  <2>3. /\ ino'[dst[pos]] = Inode(got, Now) /\ Now \in Stamps /\ Now \notin Versions
        /\ \A i \in Inodes : i # dst[pos] => ino'[i] = ino[i]
    BY <1>0, <2>1, <2>2, Stamping DEF TypeOK
  <2>4. \A f \in Files : Leader[f] # Leader[pos] => dst[pos] \notin Names(f)
    <3>1. dst[pos] \in Names(pos) BY DEF Names
    <3> QED BY <1>0, <2>1, <2>2, <3>1 DEF Apart
  <2>5. TypeOK'
    <3>1. Inode(got, Now) \in [c : Contents, mt : Stamps] BY <2>2, <2>3 DEF Inode, Contents
    <3> QED BY <1>0, <2>1, <2>2, <3>1 DEF TypeOK
  <2>6. /\ Times'
        /\ \A f \in Files : Leader[f] # Leader[pos] =>
             (Leader[f] = f => \A i \in Names(f)' \ {None} : HonestInode(i, f)')
        /\ \A f \in Files : Leader[f] = f /\ f # Leader[pos] /\ Settled(f) => Settled(f)'
    BY <2>1, <2>2, <2>3, <2>4, <2>5, OneInode
  <2>7. Apart' BY <1>0, <2>1 DEF Apart, Names
  <2>8. Honest'
    <3> SUFFICES ASSUME NEW f \in Files, Leader[f] = f, NEW i \in Names(f)', i # None
                 PROVE  HonestInode(i, f)'
      BY DEF Honest
    <3>1. CASE Leader[f] # Leader[pos] BY <2>6, <3>1
    <3>2. CASE i = dst[pos] BY <2>3, <3>2 DEF HonestInode, Inode
    <3>3. CASE f = pos /\ i # dst[pos]
      <4>1. i \in Names(f) /\ i \in Inodes BY <1>0, <2>1, <3>3 DEF Names, TypeOK
      <4>2. HonestInode(i, f) /\ ino'[i] = ino[i] BY <1>0, <2>3, <3>3, <4>1 DEF Honest
      <4> QED BY <2>1, <4>2 DEF HonestInode
    <3> QED BY <2>2, <3>1, <3>2, <3>3
  <2>9. Whole' BY <2>1, <2>2 DEF Whole
  <2>10. Step'
    <3>1. ino'[dst[pos]].c = got BY <2>3 DEF Inode
    <3> QED BY <1>0, <2>1, <2>2, <3>1 DEF Step, Installing
  <2>11. Scanned'
    <3>1. \A f \in Files : f < pos => Settled(f) BY <1>0, <2>1 DEF Scanned, Installing
    <3>2. \A f \in Files : f < pos => Settled(f)'
      <4> SUFFICES ASSUME NEW f \in Files, f < pos PROVE Settled(f)' OBVIOUS
      <4>1. f # Leader[pos] BY <1>0, <2>2
      <4>2. CASE Leader[f] = f BY <2>6, <3>1, <4>1, <4>2
      <4>3. CASE Leader[f] # f BY <4>3 DEF Settled
      <4> QED BY <4>2, <4>3
    <3> QED BY <2>1, <3>2 DEF Scanned, Installing
  <2> QED BY <2>5, <2>6, <2>7, <2>8, <2>9, <2>10, <2>11 DEF TreeInv
<1>19. CASE SetTime
  <2>1. /\ pc = "meta" /\ pos \in Files /\ pc' = "scan" /\ pos' = pos + 1 /\ got' = Torn
        /\ ino' = [ino EXCEPT ![dst[pos]].mt = ListTime(pos)]
        /\ UNCHANGED <<clock, src, list, dst, snap, ldtmp, tmp, inplace, opts, runs>>
    BY <1>19 DEF SetTime, Run, At, NextFile
  <2>2. /\ Leader[pos] = pos /\ got \in Versions /\ dst[pos] \in Inodes /\ dst[pos] # None
        /\ ino[dst[pos]].c = got /\ list[pos] <= got /\ got <= src[pos]
        /\ list[pos] \in Versions /\ ListTime(pos) \in Stamps
        /\ ListTime(pos) \in Versions => ListTime(pos) = list[pos]
    BY <1>0, <2>1, ListTimes DEF Step, Installing, TypeOK
  <2>3. /\ ino'[dst[pos]] = Inode(got, ListTime(pos))
        /\ \A i \in Inodes : i # dst[pos] => ino'[i] = ino[i]
    BY <1>0, <2>1, <2>2 DEF TypeOK, Inode
  <2>4. \A f \in Files : Leader[f] # Leader[pos] => dst[pos] \notin Names(f)
    <3>1. dst[pos] \in Names(pos) BY DEF Names
    <3> QED BY <1>0, <2>1, <2>2, <3>1 DEF Apart
  <2>5. TypeOK'
    <3>1. Inode(got, ListTime(pos)) \in [c : Contents, mt : Stamps]
      BY <2>2, VersionsAreStamps DEF Inode, Contents
    <3>2. ino' \in [Inodes -> [c : Contents, mt : Stamps]]
      BY <1>0, <2>1, <2>2, <2>3, <3>1 DEF TypeOK
    <3>3. pos' \in 1..(NFiles + 1) BY <1>0, <2>1 DEF Files
    <3> QED BY <1>0, <2>1, <3>2, <3>3 DEF TypeOK
  <2>6. /\ Times'
        /\ \A f \in Files : Leader[f] # Leader[pos] =>
             (Leader[f] = f => \A i \in Names(f)' \ {None} : HonestInode(i, f)')
        /\ \A f \in Files : Leader[f] = f /\ f # Leader[pos] /\ Settled(f) => Settled(f)'
    BY <2>1, <2>2, <2>3, <2>4, <2>5, OneInode
  <2>7. Apart' BY <1>0, <2>1 DEF Apart, Names
  <2>8. Honest'
    <3> SUFFICES ASSUME NEW f \in Files, Leader[f] = f, NEW i \in Names(f)', i # None
                 PROVE  HonestInode(i, f)'
      BY DEF Honest
    <3>1. CASE Leader[f] # Leader[pos] BY <2>6, <3>1
    <3>2. CASE f = pos /\ i = dst[pos]
      BY <2>1, <2>2, <2>3, <3>2 DEF HonestInode, Inode
    <3>3. CASE f = pos /\ i # dst[pos]
      <4>1. i \in Names(f) /\ i \in Inodes BY <1>0, <2>1, <3>3 DEF Names, TypeOK
      <4>2. HonestInode(i, f) /\ ino'[i] = ino[i] BY <1>0, <2>3, <3>3, <4>1 DEF Honest
      <4> QED BY <2>1, <4>2 DEF HonestInode
    <3> QED BY <2>2, <3>1, <3>2, <3>3
  <2>9. Whole'
    <3>1. \A i \in Inodes : ino'[i].c = ino[i].c
      BY <2>2, <2>3 DEF Inode
    <3>2. \A f \in Files : Names(f) \subseteq Inodes \cup {None} /\ Names(f)' = Names(f)
      BY <1>0, <2>1 DEF TypeOK, Names
    <3> QED BY <1>0, <2>1, <3>1, <3>2 DEF Whole
  <2>10. Step' BY <1>0, <2>1 DEF Step, Installing
  <2>11. ASSUME NEW p \in Files, p = pos PROVE Settled(p)'
    <3>1. got \in Nat /\ list[pos] \in Nat /\ src[pos] \in Nat
      BY <1>0, <2>1, <2>2, VersionsAreStamps DEF TypeOK
    <3>2. /\ dst'[p] = dst[pos] /\ list' = list /\ src' = src /\ ListTime(p)' = ListTime(pos)
          /\ ino'[dst[pos]].c = got /\ ino'[dst[pos]].mt = ListTime(pos)
      BY <2>1, <2>3, <2>11 DEF Inode, ListTime
    <3> QED BY <2>2, <2>11, <3>1, <3>2 DEF Settled, Exists
  <2>12. Scanned'
    <3>1. \A f \in Files : f < pos => Settled(f) BY <1>0, <2>1 DEF Scanned, Installing
    <3>2. \A f \in Files : f < pos => Settled(f)'
      <4> SUFFICES ASSUME NEW f \in Files, f < pos PROVE Settled(f)' OBVIOUS
      <4>1. f # Leader[pos] BY <1>0, <2>2
      <4>2. CASE Leader[f] = f BY <2>6, <3>1, <4>1, <4>2
      <4>3. CASE Leader[f] # f BY <4>3 DEF Settled
      <4> QED BY <4>2, <4>3
    <3> QED BY <1>q, <2>1, <2>11, <3>2 DEF Scanned, Installing
  <2> QED BY <2>5, <2>6, <2>7, <2>8, <2>9, <2>10, <2>12 DEF TreeInv
<1>20. CASE Unlink
  <2>1. /\ pc = "follow" /\ pos \in Files /\ Leader[pos] # pos /\ pc' = "relink" /\ pos' = pos
        /\ got' = got /\ (dst' = dst \/ dst' = [dst EXCEPT ![pos] = None])
        /\ UNCHANGED <<clock, src, list, ino, snap, ldtmp, tmp, inplace, opts, runs>>
    BY <1>20 DEF Unlink, Run, At
  <2>2. TypeOK' BY <1>0, <2>1 DEF TypeOK, Files
  <2>3. /\ \A f \in Files : f # pos => dst'[f] = dst[f] /\ Names(f)' = Names(f)
        /\ \A f \in Files : Names(f)' \subseteq Names(f) \cup Names(Leader[f]) \cup {None}
        /\ \A f \in Files : Leader[f] \in Files /\ Leader[Leader[f]] = Leader[f]
    BY <1>0, <2>1 DEF TypeOK, Names
  <2>4. Apart'
    <3> SUFFICES ASSUME NEW f \in Files, NEW g \in Files, Leader[f] # Leader[g]
                 PROVE  Names(f)' \cap Names(g)' \subseteq {None}
      BY DEF Apart
    <3>1. /\ Names(f) \cap Names(g) \subseteq {None}
          /\ Names(Leader[f]) \cap Names(g) \subseteq {None}
          /\ Names(f) \cap Names(Leader[g]) \subseteq {None}
          /\ Names(Leader[f]) \cap Names(Leader[g]) \subseteq {None}
      BY <1>0, <2>3 DEF Apart
    <3> QED BY <2>3, <3>1
  <2>5. Times' /\ Whole'
    <3>1. Times' BY <1>0, <2>1 DEF Times
    <3>2. Whole' BY <1>0, <2>1, <2>3, WholeStays
    <3> QED BY <3>1, <3>2
  <2>6. Honest' BY <1>0, <2>1, <2>3 DEF Honest, HonestInode
  <2>7. Step' BY <1>0, <2>1 DEF Step, Installing
  <2>8. \A f \in Files : Settled(f) => Settled(f)'
    BY <2>1, <2>3 DEF Settled, Exists, ListTime, SameSize
  <2>9. Scanned'
    <3>1. \A f \in Files : Settled(f) \/ Spoilt(f) BY <1>0, <2>1 DEF Scanned
    <3>2. ASSUME NEW f \in Files, Spoilt(f) PROVE Spoilt(f)'
      <4>1. PICK g \in Files : EmptiedBy(g, f) /\ g < pos BY <2>1, <3>2 DEF Spoilt
      <4>2. g # pos /\ f # pos BY <1>0, <2>1, <2>3, <4>1 DEF EmptiedBy, Files
      <4>3. EmptiedBy(g, f)' BY <2>1, <2>3, <4>1, <4>2 DEF EmptiedBy, Exists
      <4>4. g < pos' BY <1>q, <2>1, <4>1
      <4> QED BY <4>3, <4>4 DEF Spoilt
    <3> QED BY <2>1, <2>8, <3>1, <3>2 DEF Scanned, Installing
  <2> QED BY <2>2, <2>4, <2>5, <2>6, <2>7, <2>9 DEF TreeInv
<1>21. CASE Relink
  <2>1. /\ pc = "relink" /\ pos \in Files /\ Leader[pos] # pos /\ pc' = "follow" /\ pos' = pos + 1
        /\ dst' = [dst EXCEPT ![pos] = dst[Leader[pos]]] /\ got' = got
        /\ UNCHANGED <<clock, src, list, ino, snap, ldtmp, tmp, inplace, opts, runs>>
    BY <1>0, <1>21 DEF Relink, Run, At, NextFile, Step
  <2>2. TypeOK' BY <1>0, <2>1 DEF TypeOK, Files
  <2>3. /\ \A f \in Files : f # pos => dst'[f] = dst[f] /\ Names(f)' = Names(f)
        /\ \A f \in Files : Names(f)' \subseteq Names(f) \cup Names(Leader[f]) \cup {None}
        /\ \A f \in Files : Leader[f] \in Files /\ Leader[Leader[f]] = Leader[f]
    BY <1>0, <2>1 DEF TypeOK, Names
  <2>4. Apart'
    <3> SUFFICES ASSUME NEW f \in Files, NEW g \in Files, Leader[f] # Leader[g]
                 PROVE  Names(f)' \cap Names(g)' \subseteq {None}
      BY DEF Apart
    <3>1. /\ Names(f) \cap Names(g) \subseteq {None}
          /\ Names(Leader[f]) \cap Names(g) \subseteq {None}
          /\ Names(f) \cap Names(Leader[g]) \subseteq {None}
          /\ Names(Leader[f]) \cap Names(Leader[g]) \subseteq {None}
      BY <1>0, <2>3 DEF Apart
    <3> QED BY <2>3, <3>1
  <2>5. Times' /\ Whole'
    <3>1. Times' BY <1>0, <2>1 DEF Times
    <3>2. Whole' BY <1>0, <2>1, <2>3, WholeStays
    <3> QED BY <3>1, <3>2
  <2>6. Honest' BY <1>0, <2>1, <2>3 DEF Honest, HonestInode
  <2>7. Step' BY <1>0, <2>1 DEF Step, Installing
  <2>8. \A f \in Files : Settled(f) => Settled(f)'
    BY <2>1, <2>3 DEF Settled, Exists, ListTime, SameSize
  <2>9. Scanned'
    <3>1. \A f \in Files : Settled(f) \/ Spoilt(f) BY <1>0, <2>1 DEF Scanned
    <3>2. ASSUME NEW f \in Files, Spoilt(f) PROVE Spoilt(f)'
      <4>1. PICK g \in Files : EmptiedBy(g, f) /\ g < pos BY <2>1, <3>2 DEF Spoilt
      <4>2. g # pos /\ f # pos BY <1>0, <2>1, <2>3, <4>1 DEF EmptiedBy, Files
      <4>3. EmptiedBy(g, f)' BY <2>1, <2>3, <4>1, <4>2 DEF EmptiedBy, Exists
      <4>4. g < pos' BY <1>q, <2>1, <4>1
      <4> QED BY <4>3, <4>4 DEF Spoilt
    <3> QED BY <2>1, <2>8, <3>1, <3>2 DEF Scanned, Installing
  <2> QED BY <2>2, <2>4, <2>5, <2>6, <2>7, <2>9 DEF TreeInv
<1>22. CASE OpenCopy \/ CopyLeader
  <2>1. PICK k \in Inodes, c \in Contents : Copying(k, c) BY <1>22, CopySteps
  <2> QED BY <2>1, CopyKeeps
<1>23. CASE UNCHANGED vars
  <2>1. UNCHANGED <<clock, src, list, ino, dst, snap, ldtmp, tmp, pc, pos, got, opts, inplace, runs>>
    BY <1>23 DEF vars
  <2>2. TypeOK' BY <1>0, <2>1 DEF TypeOK
  <2>3. /\ Apart' /\ Times' /\ Honest' /\ Whole'
        /\ \A f \in Files : Settled(f) => Settled(f)'
        /\ \A f, g \in Files : EmptiedBy(g, f) => EmptiedBy(g, f)'
    BY <2>1, <2>2, Quiet
  <2>4. Step' BY <1>0, <2>1 DEF Step, Names, SameStat, SameSize, ListTime, Length
  <2>5. Scanned'
    <3>1. \A f \in Files : Spoilt(f) => Spoilt(f)' BY <2>1, <2>3 DEF Spoilt
    <3> QED BY <1>0, <2>1, <2>3, <3>1 DEF Scanned
  <2> QED BY <2>2, <2>3, <2>4, <2>5 DEF TreeInv
<1> QED
  BY <1>1, <1>2, <1>3, <1>4, <1>5, <1>6, <1>7, <1>8, <1>9, <1>10,
     <1>11, <1>12, <1>13, <1>14, <1>15, <1>16, <1>17, <1>18, <1>19, <1>20, <1>21, <1>22, <1>23
     DEF Next

-----------------------------------------------------------------------------
(* The theorems.                                                           *)

\* The invariant holds throughout.
THEOREM TreeInvariant == Spec => []TreeInv
  BY TreeInit, TreeStep, PTL DEF Spec

\* Positions stay within the list and names lead to inodes.
THEOREM TreeTypeCorrect == Spec => []TypeOK
<1>1. TreeInv => TypeOK BY DEF TreeInv
<1> QED BY <1>1, TreeInvariant, PTL

\* Without --inplace a kill never leaves a destination file cut off, for any number of
\* files, runs and changes (temporary file and rename), but for a file of a hard-link group
\* onto which fs::copy was writing (receiver.rs:562).
THEOREM NoTornFileHolds == Spec => []NoTornFile
<1>1. TreeInv => NoTornFile
  BY DEF TreeInv, Whole, NoTornFile, Names, Exists
<1> QED BY <1>1, TreeInvariant, PTL

\* A run that returns has given every file it was free to replace the listed time and,
\* with -t, a listed or newer version, whatever the runs before it left behind (quick check,
\* --link-dest); without -t the size is right.  Only a leader can be emptied afterwards, by
\* the copy onto one of its followers.
THEOREM UpToDateHolds == Spec => []UpToDate
<1>1. TreeInv => UpToDate
  BY DEF TreeInv, Scanned, Settled, Spoilt, EmptiedBy, Emptied, UpToDate
<1> QED BY <1>1, TreeInvariant, PTL

\* Without --inplace no step but the two of a copy changes a file of the --link-dest
\* directory, and they only when the follower is a link to it.
SharedCopy(f) == pc \in {"relink", "copy"} /\ Leader[pos] # pos /\ dst[pos] = snap[f]

LEMMA SnapshotStep ==
    ASSUME TreeInv, [Next]_vars, ~inplace, NEW f \in Files, snap[f] # None
    PROVE  ino'[snap[f]] = ino[snap[f]] \/ SharedCopy(f)
<1>0. TypeOK /\ Step /\ snap[f] \in Inodes /\ snap[f] \in Names(f)
  BY DEF TreeInv, TypeOK, Names
<1>1. CASE ino' = ino BY <1>1
<1>2. CASE CreateTmp
  <2>1. PICK k \in Inodes : Fresh(k) /\ ino' = [ino EXCEPT ![k] = Inode(Torn, Now)]
    BY <1>2 DEF CreateTmp
  <2>2. k # snap[f] BY <2>1 DEF Fresh, Free
  <2> QED BY <1>0, <2>1, <2>2 DEF TypeOK
<1>3. CASE FillTmp
  <2>1. tmp # snap[f] BY <1>0, <1>3 DEF FillTmp, At, Step
  <2> QED BY <1>0, <1>3, <2>1 DEF FillTmp, TypeOK
<1>4. CASE Truncate \/ Overwrite
  BY <1>0, <1>4 DEF Truncate, Overwrite, At, Step
<1>5. CASE SetTime
  <2>1. dst[pos] # snap[f] BY <1>0, <1>5 DEF SetTime, At, Step
  <2> QED BY <1>0, <1>5, <2>1 DEF SetTime, TypeOK
<1>6. CASE OpenCopy \/ CopyLeader
  <2>1. PICK k \in Inodes, c \in Contents : Copying(k, c) BY <1>6, CopySteps
  <2>2. CASE k = snap[f]
    <3>1. dst[pos] = k BY <1>0, <2>1, <2>2 DEF Copying
    <3> QED BY <2>1, <2>2, <3>1 DEF Copying, SharedCopy
  <2>3. CASE k # snap[f] BY <1>0, <2>1, <2>3 DEF Copying, TypeOK
  <2> QED BY <2>2, <2>3
<1>7. Next => \/ ino' = ino \/ CreateTmp \/ FillTmp \/ Truncate \/ Overwrite \/ SetTime
              \/ OpenCopy \/ CopyLeader
  BY DEF Next, Start, SkipFile, NoCandidate, LinkTmp, LinkName, QuickCheck, Fetch, RenameTmp,
         EndScan, NoFollower, Unlink, Relink, NoLink, Finish, Kill, Change, tree
<1>8. UNCHANGED vars => ino' = ino BY DEF vars
<1> QED BY <1>1, <1>2, <1>3, <1>4, <1>5, <1>6, <1>7, <1>8

\* The --link-dest directory is safe from runs without --inplace, although they share
\* inodes with it, but for the copy onto a follower that could not be removed and is a link
\* to one of its files.
THEOREM SnapshotIntactHolds == Spec => SnapshotIntact
<1>1. TreeInv /\ [Next]_vars =>
        [~inplace => \A f \in Files : snap[f] # None =>
           \/ ino'[snap[f]] = ino[snap[f]]
           \/ pc \in {"relink", "copy"} /\ Leader[pos] # pos /\ dst[pos] = snap[f]]_vars
  BY SnapshotStep DEF SharedCopy
<1> QED BY <1>1, TreeInvariant, PTL DEF Spec, SnapshotIntact

-----------------------------------------------------------------------------
(* Files never go back.                                                    *)

\* No name of a file leads to a version its source has not had yet.
Bounded ==
    \A f \in Files : Leader[f] = f =>
        \A i \in Names(f) \ {None} : ino[i].c \in Versions => ino[i].c <= src[f]

\* The scan has not replaced file f yet.
Ahead(f) ==
    \/ pc \in {"scan", "linked", "check"} \cup Installing /\ f > pos
    \/ pc \in {"scan", "linked", "check", "create", "fill", "rename", "truncate"} /\ f = pos

\* What such a file holds is no newer than the list: the list is the source of
\* the moment the run began.
Behind ==
    \A f \in Files : Leader[f] = f /\ Ahead(f) /\ Exists(f) /\ ino[dst[f]].c \in Versions =>
        ino[dst[f]].c <= list[f]

\* Between its two writes a file replaced in place is torn.
InTheMiddle == pc = "overwrite" => ino[dst[pos]].c = Torn

OrderInv == TreeInv /\ Bounded /\ Behind /\ InTheMiddle

\* A step that leaves the names of a leader and their contents alone.
Kept(f) ==
    /\ dst'[f] = dst[f]
    /\ Names(f)' \subseteq Names(f) \cup {None}
    /\ \A i \in Names(f) \ {None} : ino'[i].c = ino[i].c

\* The four steps that do not: file f takes on inode k, or k takes on a content.
Replaced(f, k) ==
    /\ f = pos /\ k \in Inodes /\ dst'[f] = k
    /\ UNCHANGED <<src, list>>
    /\ Names(f)' \subseteq Names(f) \cup {k, None}
    /\ \A i \in Names(f) \ {None, k} : ino'[i].c = ino[i].c
    /\ \/ pc = "linked" /\ k = ldtmp[f] /\ ino' = ino /\ pc' = "scan" /\ pos' = pos + 1
       \/ pc = "rename" /\ k = tmp /\ ino' = ino /\ pc' = "meta" /\ pos' = pos
       \/ pc = "truncate" /\ ino'[k].c = Torn /\ pc' = "overwrite" /\ pos' = pos
       \/ pc = "overwrite" /\ k = dst[f] /\ ino'[k].c = got /\ pc' = "meta" /\ pos' = pos

\* The copy onto a follower that shares an inode with its leader: the inode is emptied or
\* takes on the leader's content.
Shared(f) ==
    /\ dst'[f] = dst[f] /\ Names(f)' = Names(f) /\ pc' \in {"copy", "follow"}
    /\ \A i \in Names(f) \ {None} :
         \/ ino'[i].c \in {ino[i].c, Cut}
         \/ dst[f] # None /\ i # dst[f] /\ ino'[i].c = ino[dst[f]].c

\* Every step does one of the three to each leader.
LEMMA LeaderFrame ==
    ASSUME TreeInv, [Next]_vars, NEW f \in Files, Leader[f] = f
    PROVE  Kept(f) \/ Shared(f) \/ \E k \in Inodes : Replaced(f, k)
<1> USE TreeAssumption
<1>0. /\ TypeOK /\ Apart /\ Step
      /\ Names(f) \subseteq Inodes \cup {None} /\ ino \in [Inodes -> [c : Contents, mt : Stamps]]
      /\ dst \in [Files -> Inodes \cup {None}] /\ ldtmp \in [Files -> Inodes \cup {None}]
  BY DEF TreeInv, TypeOK, Names
<1>a. ASSUME UNCHANGED <<ino, dst, snap, ldtmp>> PROVE Kept(f)
  BY <1>a DEF Kept, Names
<1>b. ASSUME UNCHANGED <<ino, snap, ldtmp>>, dst'[f] = dst[f] PROVE Kept(f)
  BY <1>b DEF Kept, Names
<1>c. ASSUME UNCHANGED <<snap, ldtmp>>, dst'[f] = dst[f], NEW k \in Inodes,
             k \notin Names(f), \A i \in Inodes : i # k => ino'[i] = ino[i]
      PROVE  Kept(f)
  BY <1>0, <1>c DEF Kept, Names
<1>1. CASE UNCHANGED vars
  BY <1>1, <1>a DEF vars
<1>2. CASE \/ Start \/ SkipFile \/ NoCandidate \/ QuickCheck \/ Fetch \/ EndScan \/ NoFollower
           \/ NoLink \/ Finish \/ Kill \/ \E g \in Files : Change(g)
  BY <1>2, <1>a DEF Start, SkipFile, NoCandidate, QuickCheck, Fetch, EndScan, NoFollower,
     NoLink, Finish, Kill, Change, tree
<1>3. CASE LinkTmp
  <2>1. UNCHANGED <<ino, dst, snap>> /\ pos \in Files
        /\ (ldtmp' = [ldtmp EXCEPT ![pos] = snap[pos]] \/ ldtmp' = [ldtmp EXCEPT ![pos] = None])
    BY <1>3 DEF LinkTmp, At
  <2>2. ldtmp'[f] \in {ldtmp[f], snap[f], None}
    BY <1>0, <2>1
  <2> QED
    BY <2>1, <2>2 DEF Kept, Names
<1>4. CASE LinkName
  <2>1. UNCHANGED <<ino, snap, src, list>> /\ pos \in Files /\ pc = "linked"
    BY <1>4 DEF LinkName, At, Run
  <2>2. CASE ldtmp' = [ldtmp EXCEPT ![pos] = None] /\ dst' = dst
    BY <1>0, <2>1, <2>2 DEF Kept, Names
  <2>3. CASE Rename(pos) /\ NextFile("scan") /\ dst[pos] = ldtmp[pos]
    BY <1>b, <2>1, <2>3 DEF Rename
  <2>4. CASE Rename(pos) /\ NextFile("scan") /\ dst[pos] # ldtmp[pos]
    <3>1. /\ dst' = [dst EXCEPT ![pos] = ldtmp[pos]]
          /\ ldtmp' = [ldtmp EXCEPT ![pos] = None]
          /\ pc' = "scan" /\ pos' = pos + 1
      BY <2>4 DEF Rename, NextFile
    <3>2. CASE f # pos
      BY <1>0, <2>1, <3>1, <3>2 DEF Kept, Names
    <3>3. CASE f = pos
      <4>1. ldtmp[f] \in Inodes
        BY <1>0, <2>1, <3>3 DEF Step
      <4>2. dst'[f] = ldtmp[f] /\ ldtmp'[f] = None
        BY <1>0, <3>1, <3>3
      <4> QED
        BY <2>1, <3>1, <3>3, <4>1, <4>2 DEF Replaced, Names
    <3> QED
      BY <3>2, <3>3
  <2> QED
    BY <1>4, <2>2, <2>3, <2>4 DEF LinkName
<1>5. CASE CreateTmp
  <2>1. PICK k \in Inodes : Fresh(k) /\ ino' = [ino EXCEPT ![k] = Inode(Torn, Now)]
    BY <1>5 DEF CreateTmp
  <2>2. k \notin Names(f)
    BY <2>1 DEF Fresh, Free, Names
  <2> QED
    BY <1>0, <1>5, <1>c, <2>1, <2>2 DEF CreateTmp
<1>6. CASE FillTmp
  <2>1. tmp \in Inodes /\ tmp \notin Names(f)
    BY <1>0, <1>6 DEF FillTmp, At, Step, TypeOK
  <2> QED
    BY <1>0, <1>6, <1>c, <2>1 DEF FillTmp
<1>7. CASE RenameTmp
  <2>1. /\ pc = "rename" /\ pos \in Files /\ dst' = [dst EXCEPT ![pos] = tmp]
        /\ pc' = "meta" /\ pos' = pos /\ UNCHANGED <<ino, snap, ldtmp, src, list>>
    BY <1>7 DEF RenameTmp, At, Run
  <2>2. CASE f # pos
    BY <1>0, <1>b, <2>1, <2>2
  <2>3. CASE f = pos
    <3>1. tmp \in Inodes /\ dst'[f] = tmp
      BY <1>0, <2>1, <2>3 DEF Step, TypeOK
    <3> QED
      BY <2>1, <2>3, <3>1 DEF Replaced, Names
  <2> QED
    BY <2>2, <2>3
<1>8. CASE Truncate
  <2>1. PICK k \in Inodes : /\ IF Exists(pos) THEN k = dst[pos] ELSE Fresh(k)
                            /\ dst' = [dst EXCEPT ![pos] = k]
                            /\ ino' = [ino EXCEPT ![k] = Inode(Torn, Now)]
    BY <1>8 DEF Truncate
  <2>2. /\ pc = "truncate" /\ pos \in Files /\ pc' = "overwrite" /\ pos' = pos
        /\ UNCHANGED <<snap, ldtmp, src, list>>
    BY <1>8 DEF Truncate, At, Run
  <2>3. ino'[k].c = Torn /\ \A i \in Inodes : i # k => ino'[i] = ino[i]
    BY <1>0, <2>1 DEF Inode
  <2>4. CASE f # pos
    <3>1. Leader[pos] = pos /\ k # None
      BY <1>0, <2>2 DEF Step, Installing, Inodes, None
    <3>2. k \notin Names(f)
      <4>1. CASE Exists(pos)
        <5>1. k \in Names(pos)
          BY <2>1, <4>1 DEF Names
        <5> QED
          BY <1>0, <2>2, <2>4, <3>1, <5>1 DEF Apart
      <4>2. CASE ~Exists(pos)
        BY <2>1, <4>2 DEF Fresh, Free, Names
      <4> QED
        BY <4>1, <4>2
    <3> QED
      BY <1>0, <1>c, <2>1, <2>2, <2>3, <2>4, <3>2
  <2>5. CASE f = pos
    <3>1. dst'[f] = k
      BY <1>0, <2>1, <2>5
    <3>2. Names(f)' \subseteq Names(f) \cup {k, None}
      BY <2>2, <3>1 DEF Names
    <3>3. \A i \in Names(f) \ {None, k} : ino'[i].c = ino[i].c
      BY <1>0, <2>3
    <3> QED
      BY <2>2, <2>3, <2>5, <3>1, <3>2, <3>3 DEF Replaced
  <2> QED
    BY <2>4, <2>5
<1>9. CASE Overwrite
  <2>1. /\ pc = "overwrite" /\ pos \in Files /\ pc' = "meta" /\ pos' = pos
        /\ ino' = [ino EXCEPT ![dst[pos]] = Inode(got, Now)]
        /\ UNCHANGED <<dst, snap, ldtmp, src, list>>
    BY <1>9 DEF Overwrite, At, Run
  <2>2. dst[pos] \in Inodes /\ dst[pos] # None /\ Leader[pos] = pos
    BY <1>0, <2>1 DEF Step, Installing
  <2>3. ino'[dst[pos]].c = got /\ \A i \in Inodes : i # dst[pos] => ino'[i] = ino[i]
    BY <1>0, <2>1, <2>2 DEF Inode
  <2>4. CASE f # pos
    <3>1. dst[pos] \in Names(pos)
      BY DEF Names
    <3>2. dst[pos] \notin Names(f)
      BY <1>0, <2>1, <2>2, <2>4, <3>1 DEF Apart
    <3> QED
      BY <1>c, <2>1, <2>2, <2>3, <3>2
  <2>5. CASE f = pos
    <3>1. Names(f)' = Names(f)
      BY <2>1 DEF Names
    <3>2. \A i \in Names(f) \ {None, dst[pos]} : ino'[i].c = ino[i].c
      BY <1>0, <2>3
    <3> QED
      BY <2>1, <2>2, <2>3, <2>5, <3>1, <3>2 DEF Replaced
  <2> QED
    BY <2>4, <2>5
<1>10. CASE SetTime
  <2>1. ino' = [ino EXCEPT ![dst[pos]].mt = ListTime(pos)] /\ UNCHANGED <<dst, snap, ldtmp>>
        /\ dst[pos] \in Inodes
    BY <1>0, <1>10 DEF SetTime, At, Step
  <2>2. \A i \in Inodes : ino'[i].c = ino[i].c
    BY <1>0, <2>1
  <2> QED
    BY <1>0, <2>1, <2>2 DEF Kept, Names
<1>11. CASE Unlink \/ Relink
  <2>1. pos \in Files /\ Leader[pos] # pos /\ UNCHANGED <<ino, snap, ldtmp>>
        /\ (dst' = dst \/ \E x : dst' = [dst EXCEPT ![pos] = x])
    BY <1>0, <1>11 DEF Unlink, Relink, At, Step
  <2>2. dst'[f] = dst[f]
    BY <1>0, <2>1
  <2> QED
    BY <1>b, <2>1, <2>2
<1>12. CASE OpenCopy \/ CopyLeader
  <2>1. PICK k \in Inodes, c \in Contents : Copying(k, c)
    BY <1>12, CopySteps
  <2>2. /\ pos \in Files /\ Leader[pos] # pos /\ f # pos /\ UNCHANGED <<snap, ldtmp>>
        /\ dst'[f] = dst[f] /\ \A i \in Inodes : i # k => ino'[i] = ino[i]
        /\ ino'[k].c = c
    BY <1>0, <2>1 DEF Copying, Inode
  <2>3. CASE k \notin Names(f)
    BY <1>c, <2>2, <2>3
  <2>4. CASE k \in Names(f)
    <3>1. f = Leader[pos]
      BY <2>1, <2>4 DEF Copying
    <3>2. c = Cut \/ (dst[f] # None /\ k # dst[f] /\ c = ino[dst[f]].c)
      BY <2>1, <3>1 DEF Copying
    <3>3. Names(f)' = Names(f)
      BY <2>2 DEF Names
    <3>4. pc' \in {"copy", "follow"}
      BY <2>1 DEF Copying
    <3> QED
      BY <1>0, <2>2, <3>2, <3>3, <3>4 DEF Shared
  <2> QED
    BY <2>3, <2>4
<1> QED
  BY <1>1, <1>2, <1>3, <1>4, <1>5, <1>6, <1>7, <1>8, <1>9, <1>10, <1>11, <1>12 DEF Next


\* The list and the files not reached yet: only the start of a run changes them.
LEMMA AheadStep ==
    ASSUME TypeOK, [Next]_vars, NEW f \in Files, Ahead(f)'
    PROVE  list' = src \/ (list' = list /\ Ahead(f))
<1>1. f \in Int /\ pos \in Int
  BY DEF TypeOK, Files
<1>2. CASE UNCHANGED vars
  BY <1>2 DEF vars, Ahead
<1>3. CASE Start
  BY <1>3 DEF Start
<1>4. CASE \/ SkipFile \/ NoCandidate \/ LinkTmp \/ LinkName \/ QuickCheck \/ Fetch
           \/ CreateTmp \/ FillTmp \/ RenameTmp \/ Truncate \/ Overwrite \/ SetTime
  <2>1. list' = list /\ pc \in {"scan", "linked", "check"} \cup Installing /\ pos' \in {pos, pos + 1}
    BY <1>4 DEF SkipFile, NoCandidate, LinkTmp, LinkName, QuickCheck, Fetch, CreateTmp, FillTmp,
       RenameTmp, Truncate, Overwrite, SetTime, At, NextFile, Run, Installing
  <2>2. CASE f > pos
    BY <2>1, <2>2 DEF Ahead
  <2>3. CASE ~(f > pos)
    <3>1. f = pos /\ pos' = pos
      BY <1>1, <2>1, <2>3 DEF Ahead
    <3>2. pc' \in {"scan", "linked", "check", "create", "fill", "rename", "truncate"}
      BY <1>1, <3>1 DEF Ahead
    <3>3. pc \in {"scan", "linked", "check", "create", "fill", "rename", "truncate"}
      BY <1>1, <1>4, <3>1, <3>2 DEF SkipFile, NoCandidate, LinkTmp, LinkName, QuickCheck, Fetch,
         CreateTmp, FillTmp, RenameTmp, Truncate, Overwrite, SetTime, At, NextFile
    <3> QED
      BY <2>1, <3>1, <3>3 DEF Ahead
  <2> QED
    BY <2>2, <2>3
<1>5. CASE \/ EndScan \/ NoFollower \/ Unlink \/ Relink \/ OpenCopy \/ CopyLeader \/ NoLink
           \/ Finish \/ Kill
  <2>1. pc' \in {"follow", "relink", "copy", "done", "idle"}
    BY <1>5 DEF EndScan, NoFollower, Unlink, Relink, OpenCopy, CopyLeader, NoLink, Finish, Kill,
       NextFile
  <2> QED
    BY <2>1 DEF Ahead, Installing
<1>6. CASE \E g \in Files : Change(g)
  BY <1>6 DEF Change, Ahead
<1> QED
  BY <1>2, <1>3, <1>4, <1>5, <1>6 DEF Next

\* Source files only get newer.
LEMMA SourceStep ==
    ASSUME TreeInv, [Next]_vars, NEW f \in Files
    PROVE  src[f] \in Nat /\ src'[f] \in Nat /\ src[f] <= src'[f]
<1>1. TypeOK /\ Times /\ TypeOK'
  BY TreeStep DEF TreeInv
<1>2. src[f] \in Nat /\ src'[f] \in Nat /\ clock \in Nat /\ src[f] <= 2 * clock
  <2>1. src[f] \in Versions /\ src'[f] \in Versions /\ clock \in 0..MaxClock
    BY <1>1 DEF TypeOK
  <2>2. src[f] <= 2 * clock
    BY <1>1 DEF Times
  <2>3. clock \in Nat
    BY <2>1, TreeAssumption
  <2> QED
    BY <2>1, <2>2, <2>3, VersionsAreStamps
<1>3. CASE src' = src
  BY <1>2, <1>3
<1>4. CASE \E g \in Files : Change(g)
  BY <1>1, <1>2, <1>4 DEF Change, TypeOK
<1>5. Next => src' = src \/ \E g \in Files : Change(g)
  BY DEF Next, Start, SkipFile, NoCandidate, LinkTmp, LinkName, QuickCheck, Fetch, CreateTmp,
     FillTmp, RenameTmp, Truncate, Overwrite, SetTime, EndScan, NoFollower, Unlink, Relink,
     OpenCopy, CopyLeader, NoLink, Finish, Kill, Run, tree
<1>6. UNCHANGED vars => src' = src
  BY DEF vars
<1> QED
  BY <1>3, <1>4, <1>5, <1>6

\* What a file takes on is no newer than the source and no older than the list, but for a
\* link chosen without -t.
LEMMA ReplacedBy ==
    ASSUME TreeInv, Bounded, NEW f \in Files, NEW k \in Inodes, Replaced(f, k), Leader[f] = f,
           ino'[k].c \in Versions
    PROVE  /\ pc \in {"linked", "rename", "overwrite"}
           /\ ino'[k].c \in Nat /\ ino'[k].c <= src[f]
           /\ list[f] <= ino'[k].c \/ (pc = "linked" /\ "times" \notin opts)
<1>1. TypeOK /\ Honest /\ Step /\ list[f] \in Versions /\ f = pos
  BY DEF TreeInv, TypeOK, Replaced
<1>2. Torn \notin Versions /\ Versions \subseteq Nat
  BY VersionsAreStamps
<1>3. CASE pc = "linked" /\ k = ldtmp[f] /\ ino' = ino
  <2>1. k \in Names(f) \ {None} /\ SameStat(k, f)
    BY <1>1, <1>3 DEF Step, Names
  <2>2. ino[k].c <= src[f]
    BY <1>3, <2>1 DEF Bounded
  <2>3. CASE "times" \in opts
    <3>1. ino[k].c \in list[f]..src[f]
      BY <1>1, <2>1, <2>3, HonestStat
    <3>2. list[f] \in Nat /\ src[f] \in Nat
      BY <1>1, <1>2 DEF TypeOK
    <3> QED
      BY <1>2, <1>3, <3>1, <3>2
  <2> QED
    BY <1>2, <1>3, <2>2, <2>3
<1>4. CASE pc = "rename" /\ k = tmp /\ ino' = ino
  <2>1. ino[tmp].c = got /\ list[f] <= got /\ got <= src[f]
    BY <1>1, <1>4 DEF Step, Installing, Inode
  <2> QED
    BY <1>2, <1>4, <2>1
<1>5. CASE pc = "overwrite" /\ ino'[k].c = got
  <2>1. list[f] <= got /\ got <= src[f]
    BY <1>1, <1>5 DEF Step, Installing
  <2> QED
    BY <1>2, <1>5, <2>1
<1> QED
  BY <1>2, <1>3, <1>4, <1>5 DEF Replaced

\* The three facts are kept by every step.
LEMMA OrderStep == OrderInv /\ [Next]_vars => OrderInv'
<1> SUFFICES ASSUME OrderInv, [Next]_vars PROVE OrderInv'
  OBVIOUS
<1> USE TreeAssumption
<1>0. TreeInv /\ TreeInv' /\ TypeOK /\ TypeOK' /\ Bounded /\ Behind /\ InTheMiddle /\ Step /\ Step'
  BY TreeStep DEF OrderInv, TreeInv
<1>1. ASSUME NEW f \in Files, Leader[f] = f
      PROVE  /\ Kept(f) \/ Shared(f) \/ \E k \in Inodes : Replaced(f, k)
             /\ src[f] \in Nat /\ src'[f] \in Nat /\ src[f] <= src'[f]
             /\ Names(f) \subseteq Inodes \cup {None} /\ Names(f)' \subseteq Inodes \cup {None}
             /\ None \notin Inodes /\ Versions \subseteq Nat
  <2>1. Kept(f) \/ Shared(f) \/ \E k \in Inodes : Replaced(f, k)
    BY <1>0, <1>1, LeaderFrame
  <2>2. src[f] \in Nat /\ src'[f] \in Nat /\ src[f] <= src'[f]
    BY <1>0, SourceStep
  <2>3. Names(f) \subseteq Inodes \cup {None} /\ Names(f)' \subseteq Inodes \cup {None}
    BY <1>0 DEF TypeOK, Names
  <2>4. None \notin Inodes /\ Versions \subseteq Nat
    BY VersionsAreStamps DEF None, Inodes
  <2> QED
    BY <2>1, <2>2, <2>3, <2>4
<1>2. Bounded'
  <2> SUFFICES ASSUME NEW f \in Files, Leader[f] = f, NEW i \in Names(f)' \ {None},
                      ino'[i].c \in Versions
               PROVE  ino'[i].c <= src'[f]
    BY DEF Bounded
  <2>1. ASSUME i \in Names(f), ino'[i].c = ino[i].c PROVE ino'[i].c <= src'[f]
    BY <1>0, <1>1, <2>1 DEF Bounded
  <2>2. CASE Kept(f)
    BY <2>1, <2>2 DEF Kept
  <2>3. ASSUME NEW k \in Inodes, Replaced(f, k) PROVE ino'[i].c <= src'[f]
    <3>1. CASE i = k
      BY <1>0, <1>1, <2>3, <3>1, ReplacedBy
    <3>2. CASE i # k
      BY <2>1, <2>3, <3>2 DEF Replaced
    <3> QED
      BY <3>1, <3>2
  <2>4. CASE Shared(f)
    <3>1. /\ i \in Names(f) \ {None} /\ Cut \notin Versions
          /\ dst[f] # None => dst[f] \in Names(f) \ {None}
      BY <2>4, VersionsAreStamps DEF Shared, Names
    <3>2. \A j \in Names(f) \ {None} : ino[j].c \in Versions => ino[j].c <= src'[f]
      BY <1>0, <1>1 DEF Bounded
    <3> QED
      BY <2>4, <3>1, <3>2 DEF Shared
  <2> QED
    BY <1>1, <2>2, <2>3, <2>4
<1>3. Behind'
  <2> SUFFICES ASSUME NEW f \in Files, Leader[f] = f, Ahead(f)', Exists(f)',
                      ino'[dst'[f]].c \in Versions
               PROVE  ino'[dst'[f]].c <= list'[f]
    BY DEF Behind
  <2>1. list' = src \/ (list' = list /\ Ahead(f))
    BY <1>0, AheadStep
  <2>2. CASE Kept(f)
    <3>1. dst'[f] = dst[f] /\ dst[f] # None /\ dst[f] \in Names(f)
      BY <2>2 DEF Kept, Exists, Names
    <3>2. ino'[dst'[f]].c = ino[dst[f]].c
      BY <2>2, <3>1 DEF Kept
    <3>3. CASE list' = src
      BY <1>0, <3>1, <3>2, <3>3 DEF Bounded
    <3>4. CASE list' = list /\ Ahead(f)
      BY <1>0, <3>1, <3>2, <3>4 DEF Behind, Exists
    <3> QED
      BY <2>1, <3>3, <3>4
  <2>3. ASSUME NEW k \in Inodes, Replaced(f, k) PROVE FALSE
    <3>1. f = pos /\ (pos' = pos + 1 \/ (pos' = pos /\ pc' \in {"meta", "overwrite"}))
      BY <2>3 DEF Replaced
    <3>2. f \in Int
      BY DEF Files
    <3> QED
      BY <3>1, <3>2 DEF Ahead
  <2>4. CASE Shared(f)
    BY <2>4 DEF Shared, Ahead, Installing
  <2> QED
    BY <1>1, <2>2, <2>3, <2>4
<1>4. InTheMiddle'
  <2> SUFFICES ASSUME pc' = "overwrite" PROVE ino'[dst'[pos']].c = Torn
    BY DEF InTheMiddle
  <2>1. CASE Truncate
    <3>1. PICK k \in Inodes : /\ dst' = [dst EXCEPT ![pos] = k]
                              /\ ino' = [ino EXCEPT ![k] = Inode(Torn, Now)]
      BY <2>1 DEF Truncate
    <3>2. pos' = pos /\ pos \in Files
      BY <2>1 DEF Truncate, At
    <3>3. dst'[pos] = k /\ ino'[k].c = Torn
      BY <1>0, <3>1, <3>2 DEF TypeOK, Inode
    <3> QED
      BY <3>2, <3>3
  <2>2. CASE UNCHANGED <<pc, pos, ino, dst>>
    BY <1>0, <2>2 DEF InTheMiddle
  <2>3. Next => Truncate \/ UNCHANGED <<pc, pos, ino, dst>>
    BY DEF Next, Start, SkipFile, NoCandidate, LinkTmp, LinkName, QuickCheck, Fetch, CreateTmp,
       FillTmp, RenameTmp, Overwrite, SetTime, EndScan, NoFollower, Unlink, Relink,
       OpenCopy, CopyLeader, NoLink, Finish, Kill, Change, NextFile, tree
  <2> QED
    BY <2>1, <2>2, <2>3 DEF vars
<1> QED
  BY <1>0, <1>2, <1>3, <1>4 DEF OrderInv

\* A replacement never takes a file back.
LEMMA NeverBackStep ==
    ASSUME OrderInv, [Next]_vars, NEW f \in Files, Leader[f] = f, Exists(f), dst'[f] # None,
           ino[dst[f]].c \in Versions, ino'[dst'[f]].c \in Versions
    PROVE  ino[dst[f]].c <= ino'[dst'[f]].c \/ (pc = "linked" /\ pos = f /\ "times" \notin opts)
<1>0. TreeInv /\ Bounded /\ Behind /\ InTheMiddle /\ TypeOK
  BY DEF OrderInv, TreeInv
<1>1. dst[f] \in Names(f) \ {None} /\ Torn \notin Versions
      /\ list[f] \in Nat /\ ino[dst[f]].c \in Nat
  <2>1. dst[f] \in Names(f) \ {None}
    BY DEF Names, Exists
  <2>2. Torn \notin Versions /\ Versions \subseteq Nat
    BY VersionsAreStamps
  <2>3. list[f] \in Versions
    BY <1>0 DEF TypeOK
  <2> QED
    BY <2>1, <2>2, <2>3
<1>2. CASE Kept(f)
  BY <1>1, <1>2 DEF Kept
<1>4. CASE Shared(f)
  BY <1>1, <1>4, VersionsAreStamps DEF Shared
<1>3. ASSUME NEW k \in Inodes, Replaced(f, k)
      PROVE  ino[dst[f]].c <= ino'[dst'[f]].c \/ (pc = "linked" /\ pos = f /\ "times" \notin opts)
  <2>1. dst'[f] = k /\ f = pos
    BY <1>3 DEF Replaced
  <2>2. /\ pc \in {"linked", "rename", "overwrite"}
        /\ ino'[k].c \in Nat
        /\ list[f] <= ino'[k].c \/ (pc = "linked" /\ "times" \notin opts)
    BY <1>0, <1>3, <2>1, ReplacedBy
  <2>3. pc # "overwrite"
    BY <1>0, <1>1, <2>1 DEF InTheMiddle
  <2>4. Ahead(f)
    BY <2>1, <2>2, <2>3 DEF Ahead
  <2>5. ino[dst[f]].c <= list[f]
    BY <1>0, <2>4 DEF Behind
  <2> QED
    BY <1>1, <2>1, <2>2, <2>5
<1> QED
  BY <1>0, <1>2, <1>3, <1>4, LeaderFrame

\* No file ever goes back to an earlier version of its source, however runs are killed and
\* restarted, whatever options they had and whatever --link-dest offers, but for a link that
\* a run without -t makes: a run replaces a file only by what is at least as new as its list,
\* and the list is at least as new as anything in place (receiver.rs:294-371, 469-540).
THEOREM NeverBackHolds == Spec => NeverBack
<1>1. Init => OrderInv
  <2> SUFFICES ASSUME Init PROVE OrderInv
    OBVIOUS
  <2>1. TreeInv /\ TypeOK
    BY TreeInit DEF TreeInv
  <2>2. \A i \in Inodes : ino[i].c \in {0, Other}
    BY DEF Init, Inode
  <2>3. Bounded
    <3>1. \A f \in Files : src[f] = 0 /\ Names(f) \subseteq Inodes \cup {None}
      BY <2>1 DEF Init, Names, TypeOK
    <3> QED
      BY <2>2, <3>1, VersionsAreStamps DEF Bounded, Other
  <2> QED
    BY <2>1, <2>3 DEF Init, OrderInv, Behind, Ahead, Installing, InTheMiddle
<1>2. OrderInv /\ [Next]_vars =>
        [\A f \in Files : Leader[f] = f /\ Exists(f) /\ dst'[f] # None
           /\ ino[dst[f]].c \in Versions /\ ino'[dst'[f]].c \in Versions
              => \/ ino[dst[f]].c <= ino'[dst'[f]].c
                 \/ pc = "linked" /\ pos = f /\ "times" \notin opts]_vars
  BY NeverBackStep
<1> QED
  BY <1>1, <1>2, OrderStep, PTL DEF Spec, NeverBack

-----------------------------------------------------------------------------
(* Hard-link groups.                                                       *)

Agrees(f) ==
    Exists(Leader[f]) /\ ino[dst[Leader[f]]].c # Cut =>
        Exists(f) /\ ino[dst[f]].c = ino[dst[Leader[f]]].c

\* The followers the run has dealt with; one that shares an inode with the next follower
\* is empty while that is copied onto.
Followed ==
    /\ pc \in {"follow", "relink", "copy"} =>
         \A f \in Files : f < pos => Agrees(f) \/ (pc = "copy" /\ dst[f] = dst[pos])
    /\ pc = "done" => \A f \in Files : Agrees(f)

GroupInv == TreeInv /\ Followed
\* A step within the followers' loop keeps the followers already dealt with,
\* and a leader's name and content.
LEMMA AgreesKept ==
    ASSUME TypeOK, NEW f \in Files, Agrees(f),
           dst'[f] = dst[f], dst'[Leader[f]] = dst[Leader[f]],
           dst[f] # None => ino'[dst[f]].c = ino[dst[f]].c,
           dst[Leader[f]] # None => ino'[dst[Leader[f]]].c = ino[dst[Leader[f]]].c
    PROVE  Agrees(f)'
  BY DEF Agrees, Exists

\* Every step keeps the groups dealt with.
LEMMA FollowedStep ==
    ASSUME ~CopyFails, GroupInv, [Next]_vars
    PROVE  Followed'
<1> USE TreeAssumption
<1>0. TreeInv /\ TypeOK /\ Step /\ Followed
      /\ dst \in [Files -> Inodes \cup {None}] /\ ino \in [Inodes -> [c : Contents, mt : Stamps]]
      /\ \A f \in Files : Leader[f] \in Files /\ Leader[Leader[f]] = Leader[f]
  BY DEF GroupInv, TreeInv, TypeOK
<1>i. pos \in Int /\ \A f \in Files : f \in Int /\ f <= NFiles
  BY <1>0 DEF TypeOK, Files
<1>k. ASSUME UNCHANGED <<ino, dst>>, NEW f \in Files, Agrees(f) PROVE Agrees(f)'
  BY <1>0, <1>k, AgreesKept
<1>n. ASSUME pc \in {"follow", "relink", "copy"}, \A f \in Files : f < pos => Agrees(f)',
             \A f \in Files : f = pos => Agrees(f)', pos' = pos + 1, pc' = "follow"
      PROVE  Followed'
  <2>1. \A f \in Files : f < pos' => f < pos \/ f = pos
    BY <1>i, <1>n
  <2> QED
    BY <1>n, <2>1 DEF Followed
<1>1. CASE pc' \notin {"follow", "relink", "copy", "done"}
  BY <1>1 DEF Followed
<1>2. CASE UNCHANGED <<ino, dst, pc, pos>>
  BY <1>0, <1>2, <1>k DEF Followed
<1>3. CASE EndScan
  <2>1. pos' = 1 /\ pc' = "follow"
    BY <1>3 DEF EndScan
  <2>2. \A f \in Files : ~(f < 1)
    BY DEF Files
  <2> QED
    BY <2>1, <2>2 DEF Followed
<1>4. CASE NoFollower \/ NoLink
  <2>1. /\ pos \in Files /\ pc \in {"follow", "relink"} /\ UNCHANGED <<ino, dst>>
        /\ pos' = pos + 1 /\ pc' = "follow"
        /\ Leader[pos] = pos \/ ~Exists(Leader[pos])
    BY <1>0, <1>4 DEF NoFollower, NoLink, CannotCopy, At, NextFile, Step, tree
  <2>2. Agrees(pos)
    BY <2>1 DEF Agrees
  <2>3. \A f \in Files : f = pos => Agrees(f)'
    BY <1>k, <2>1, <2>2
  <2>4. \A f \in Files : f < pos => Agrees(f)'
    BY <1>0, <1>k, <2>1 DEF Followed
  <2> QED
    BY <1>n, <2>1, <2>3, <2>4
<1>5. CASE Unlink
  <2>1. /\ pos \in Files /\ Leader[pos] # pos /\ pc = "follow" /\ pc' = "relink" /\ pos' = pos
        /\ (dst' = dst \/ dst' = [dst EXCEPT ![pos] = None]) /\ ino' = ino
    BY <1>5 DEF Unlink, At
  <2>2. \A f \in Files : f < pos => f # pos /\ Leader[f] # pos
    BY <1>0, <1>i, <2>1
  <2>3. \A f \in Files : f # pos => dst'[f] = dst[f]
    BY <1>0, <2>1
  <2>4. \A f \in Files : f < pos => Agrees(f)'
    BY <1>0, <2>1, <2>2, <2>3, AgreesKept DEF Followed
  <2> QED
    BY <2>1, <2>4 DEF Followed
<1>6. CASE Relink
  <2>1. /\ pos \in Files /\ Leader[pos] # pos /\ pc = "relink" /\ pc' = "follow" /\ pos' = pos + 1
        /\ dst' = [dst EXCEPT ![pos] = dst[Leader[pos]]] /\ ino' = ino
    BY <1>0, <1>6 DEF Relink, At, NextFile, Step
  <2>2. \A f \in Files : f < pos => f # pos /\ Leader[f] # pos
    BY <1>0, <1>i, <2>1
  <2>3. dst'[pos] = dst[Leader[pos]] /\ \A f \in Files : f # pos => dst'[f] = dst[f]
    BY <1>0, <2>1
  <2>4. \A f \in Files : f < pos => Agrees(f)'
    BY <1>0, <2>1, <2>2, <2>3, AgreesKept DEF Followed
  <2>5. dst'[pos] = dst'[Leader[pos]]
    BY <1>0, <2>1, <2>3
  <2>6. \A f \in Files : f = pos => Agrees(f)'
    BY <2>5 DEF Agrees, Exists
  <2> QED
    BY <1>n, <2>1, <2>4, <2>6
<1>7. CASE OpenCopy \/ CopyLeader
  <2>1. PICK k \in Inodes, c \in Contents : Copying(k, c)
    BY <1>0, <1>7, CopySteps
  <2>2. /\ pos \in Files /\ Leader[pos] # pos /\ Leader[pos] \in Files /\ dst[Leader[pos]] # None
        /\ pc \in {"relink", "copy"} /\ k # None
        /\ \A f \in Files : Leader[f] # Leader[pos] => k \notin Names(f)
    BY <1>0, <2>1 DEF Copying, Inodes, None
  <2>3. \A f \in Files : f < pos => f # pos /\ Leader[f] # pos
    BY <1>0, <1>i, <2>2
  <2>4. dst'[pos] = k /\ \A f \in Files : f # pos => dst'[f] = dst[f]
    BY <1>0, <2>1, <2>2 DEF Copying
  <2>5. ino'[k].c = c /\ \A i \in Inodes : i # k => ino'[i] = ino[i]
    BY <1>0, <2>1 DEF Copying, Inode
  <2>6. ASSUME NEW f \in Files, f < pos, dst[f] # k, dst[Leader[f]] # k, Agrees(f)
        PROVE  Agrees(f)'
    <3>1. \A g \in {f, Leader[f]} : g \in Files /\ dst'[g] = dst[g] /\ dst[g] # k
      BY <1>0, <2>3, <2>4, <2>6
    <3>2. \A g \in {f, Leader[f]} : dst[g] # None => ino'[dst[g]] = ino[dst[g]]
      BY <1>0, <2>5, <3>1
    <3> QED
      BY <1>0, <2>6, <3>1, <3>2, AgreesKept
  <2>7. CASE pc = "relink"
    <3>1. c = Cut /\ pc' = "copy" /\ pos' = pos
      BY <2>1, <2>7 DEF Copying
    <3>2. ASSUME NEW f \in Files, f < pos
          PROVE  Agrees(f)' \/ dst'[f] = dst'[pos]
      <4>1. Agrees(f) /\ dst'[f] = dst[f] /\ dst'[Leader[f]] = dst[Leader[f]]
        BY <1>0, <2>3, <2>4, <2>7, <3>2 DEF Followed
      <4>2. CASE dst[f] = k
        BY <2>4, <4>1, <4>2
      <4>3. CASE dst[Leader[f]] = k
        BY <2>5, <3>1, <4>1, <4>3 DEF Agrees
      <4> QED
        BY <2>6, <3>2, <4>1, <4>2, <4>3
    <3> QED
      BY <3>1, <3>2 DEF Followed
  <2>8. CASE pc = "copy"
    <3>1. /\ dst[pos] = k /\ c = ino[dst[Leader[pos]]].c /\ pc' = "follow" /\ pos' = pos + 1
          /\ dst' = dst
      BY <1>0, <2>1, <2>2, <2>8 DEF Copying
    <3>2. ino'[dst[Leader[pos]]].c = c /\ ino'[dst[pos]].c = c
      BY <1>0, <2>2, <2>5, <3>1
    <3>3. \A f \in Files : f = pos => Agrees(f)'
      BY <2>2, <3>1, <3>2 DEF Agrees, Exists
    <3>4. ASSUME NEW f \in Files, f < pos PROVE Agrees(f)'
      <4>1. Agrees(f) \/ dst[f] = k
        BY <1>0, <2>8, <3>1, <3>4 DEF Followed
      <4>2. CASE dst[f] = k
        <5>1. Leader[f] = Leader[pos]
          BY <2>2, <4>2 DEF Names
        <5> QED
          BY <2>2, <3>1, <3>2, <4>2, <5>1 DEF Agrees, Exists
      <4>3. CASE dst[f] # k /\ dst[Leader[f]] = k
        <5>1. Leader[f] = Leader[pos] /\ Agrees(f)
          BY <1>0, <2>2, <4>1, <4>3 DEF Names
        <5>2. dst[f] # None => ino'[dst[f]] = ino[dst[f]]
          BY <1>0, <2>5, <4>3
        <5> QED
          BY <3>1, <3>2, <5>1, <5>2 DEF Agrees, Exists
      <4> QED
        BY <2>6, <3>4, <4>1, <4>2, <4>3
    <3> QED
      BY <1>n, <2>8, <3>1, <3>3, <3>4
  <2> QED
    BY <2>2, <2>7, <2>8
<1>8. CASE Finish
  <2>1. /\ pc = "follow" /\ pos = NFiles + 1 /\ UNCHANGED <<ino, dst>> /\ pc' = "done"
    BY <1>8 DEF Finish, tree
  <2>2. \A f \in Files : f < pos
    BY <1>i, <2>1
  <2> QED
    BY <1>0, <1>k, <2>1, <2>2 DEF Followed
<1>9. Next => \/ EndScan \/ NoFollower \/ NoLink \/ Unlink \/ Relink \/ OpenCopy \/ CopyLeader
              \/ Finish \/ UNCHANGED <<ino, dst, pc, pos>>
              \/ pc' \notin {"follow", "relink", "copy", "done"}
  BY DEF Next, Start, SkipFile, NoCandidate, LinkTmp, LinkName, QuickCheck, Fetch, CreateTmp,
     FillTmp, RenameTmp, Truncate, Overwrite, SetTime, Kill, Change, NextFile, tree
<1> QED
  BY <1>1, <1>2, <1>3, <1>4, <1>5, <1>6, <1>7, <1>8, <1>9 DEF vars

\* When a run returns every follower has its leader's content, however it was linked, as
\* long as the copy made for a link that fails does not fail, too, and has not emptied the
\* leader (receiver.rs:542-569).
THEOREM GroupsAgreeHolds ==
    ASSUME ~CopyFails
    PROVE  Spec => []GroupsAgree
<1>1. Init => GroupInv
  BY TreeInit DEF Init, GroupInv, Followed
<1>2. GroupInv /\ [Next]_vars => GroupInv'
  BY TreeStep, FollowedStep DEF GroupInv
<1>3. GroupInv => GroupsAgree
  BY DEF GroupInv, Followed, GroupsAgree, Agrees
<1> QED
  BY <1>1, <1>2, <1>3, PTL DEF Spec
=============================================================================
