# A TLA+ model of rsync-rs

rsync-rs is a Rust implementation of rsync (protocol 27 to 31).  This directory
models its core in TLA+, checks the models with TLC on small instances and
proves the most important properties with TLAPS for every instance.  Paths
below are relative to the repository (`src/pipeline/sender.rs` etc.).

## 1. The system: parts, state, interaction

| Part | Code | State it keeps | Operations | What makes it correct |
|---|---|---|---|---|
| transfer session | `pipeline/sender.rs` `Sender::run`; `pipeline/receiver.rs` `run_server_receiver`; exit sequences in `main.rs` (`run_server_io`, `run_client_protocol`) | two program positions, two phase counters, two byte streams, one of them behind a `BufWriter` | request, answer, skipped answer, phase boundary, goodbye, statistics | items are never misparsed, an answer reaches the file that was asked for, nobody waits for ever, success means every file arrived |
| delta search and token stream | `delta/match_blocks.rs`, `delta/token.rs`, `checksum/rolling.rs`, `util.rs`, `apply_delta` | file offset, last match, rolling sums, literal buffer | slide, hit, write chunk, write match, apply token | the receiver rebuilds the sender's bytes; no block of the basis is missed |
| deflated token stream | `delta/deflate_token.rs` | run encoder, pending literal, dictionary on both sides | send literal, send match, finish, read token | the reader gets back what the writer was given, dictionaries stay equal |
| destination tree | `pipeline/receiver.rs` 226-345, 464-569, `fileops/` | names and inodes, temporary files, what earlier runs left | skip, quick check, `--link-dest`, write, rename, set metadata, link followers | a reader of the tree sees the old or the new file; a finished run leaves it up to date whatever a killed one left behind |
| file list | `flist/`, `main.rs` 553-637, 1479-1718 | list, hard-link groups, the entry before on each side | walk, sort, mark, send, receive, delete, put in place | index i is the same file on both sides; exactly the right names are listed and end up at the destination |
| multiplexing, integers, indices | `io/`, `main.rs` (where framing is switched on) | rest of the frame in hand; previous indices per thread | write, read, message, switch to frames | what comes out is what was put in, whatever the frame boundaries and the messages between |
| handshake | `main.rs` 295-547, 663-735, 860-884, 1265-1422 | negotiated protocol, seed, checksum, compression; which directions are framed | version, compat flags, negotiation strings, filter list | nothing is taken for something else, both sides negotiate the same values, nobody waits for ever |
| filters | `filter/`, `main.rs` 1380-1422 | rule list | parse, send, match | the first matching rule decides; a pattern matches what it means; the server decides as the client would |
| local copy | `pipeline/local.rs` | names noted as kept, first destination of each inode | walk, copy, link, back up, delete | the destination mirrors what was selected; no other file is touched, none is lost, whatever a killed run left |
| daemon | `daemon.rs`, `transport/daemon.rs` | modules, one process per connection | greeting, module selection, arguments | refusals end the connection; no byte is lost between line reader and binary stream |
| options | `options.rs`, `options_server.rs` | none | bundle, parse again | client and server have the same view of what is on the wire |
| batch files | `batch.rs` | one file and a script | capture, replay | no file gets another's content; a replay that succeeds has left nothing out |
| ssh transport, logging | `transport/ssh.rs`, `log.rs`, `progress.rs` | none | - | - |

Client and server are two processes; client and daemon likewise (each
connection is served by a forked process, or where there is no fork by a
thread, that shares nothing with the others).  They
talk over a pair of byte streams.  After the file list has gone from sender to
receiver the receiver drives: it requests files by index and the sender answers
each request with the index, a sum head, a token stream and a checksum.  None of
these items says what it is, so correctness rests on the two programs counting
in step.  Nothing is concurrent inside one process.

Hard behaviours: the interleaving of two programs that block on one another
through a write buffer; files that change or vanish between listing and
reading; a connection that breaks between any two items; the shutdown, in which
one side is gone while the other still writes; bytes left over by one encoder
for another; checksum collisions and window arithmetic in the block search.
`PROJECT.json` lists them as hazards with their lines.

## 2. Modules

### Session, FileSync
`Session` is the session after the file list.  Variables `rpc`, `rpos`,
`rphase`, `rgot`, `rfail` are the receiver's (what it does next, its loop
variable, its phase counter, the received bytes, an error returned); `spc`,
`sphase`, `sfile`, `spay`, `sfail` the sender's.  `r2s` and `wire` are the
streams; `avail` says how much of `wire` has left the sender's buffer.
`want` is the set of files the receiver's checks (`--update`, quick check, size
limits...) select, an arbitrary set fixed initially.  A content is a pair of file
and version, so that bytes delivered to the wrong file are visible; `Old` is what
the destination had, `Empty` no bytes at all.

| Action | Code |
|---|---|
| `RSkipFile`, `RRequest` | receiver loop: the `continue`s, and the request with its flush |
| `RReadNdx`, `RReadHead`, `RReadData`, `RReadSum` | the four reads of an answer |
| `RInstall`, `RInstallFail` | temporary file, rename, metadata; or an error in one of them |
| `RPhaseEnd`, `RReadEcho`, `RReadBye`, `RReadStats` | phases and goodbye |
| `REof`, `REpipe` | errors of reads and writes, and where the code ignores them |
| `SReadDone`, `SReadReq`, `SReadSums`, `SWriteHead`, `SWriteData`, `SWriteSum` | the sender's loop; a source that cannot be read takes the path of `send_skipped_xfer` |
| `SFinal`, `SStats`, `SReadBye`, `SReadBye2`, `SEof`, `SEpipe` | end of `Sender::run` and its callers' exit |
| `Change`, `Vanish`, `Break` | the environment |

`FileSync` is what a session promises: the selected files are replaced one
after the other, each at once and by a version its source really had (or by
nothing, for a source that could not be read), no other file changes; success
is reported when none is left, an error at any time, possibly with the file in
hand already replaced.  `Session` implements it under the mapping
`left <- {f \in want : f >= rpos}`, `outcome <-` the receiver's result.

The version choices `Protocol \in {30, 31}` and `Push` cover the shutdowns the
code distinguishes; `BufCap` is the `BufWriter`'s capacity counted in messages
(the daemon's socket has none: 0).

### Delta
One file, from the block sums to the rebuilt bytes: `block_len_for_file` and its
companions, `checksum1` with its loop unrolled by four, `RollingChecksum`,
`find_matches_seeded` (`SendWhole`, `StartScan`, `Hit`, `Slide`, `Stop`,
`Trailing`), `TokenWriter` (`SendLiteral`, `WriteChunk`, `SendMatch`, `SendEof`),
`TokenReader` with `apply_delta` (`RecvLiteral`, `RecvMatch`, `RecvEof`).  The
widths and sizes of the code are constants: `HalfWord` is 2^16, `ChunkSize` is
`CHUNK_SIZE`, `BlockSize`, `Scale`, `MaxBlockSize` the numbers in
`block_len_for_file`; `LenWord` is 2^32, the number of values of the `u32` a literal's
length is kept in.  `TakeFour` and `TakeOne` are the two loops of `checksum1`.  `StrongAgrees` says that both sides seed and choose the
strong checksum alike; a strong checksum is taken to be equal only for equal
blocks.

### DeflateTokens
The run encoder and the reader of `-z`: which tokens are written for which
sequence of literals and matches, relative and absolute run starts, run
lengths of limited width, and what both sides have fed to their dictionaries.
zlib is a pair of mutually inverse functions as long as the dictionaries agree.

### DestTree
What the receiver's runs do to the destination directory.  Where `Session` has
one install step per file, `DestTree` has one step per system call and lets a run
be killed (or end with an error) between any two, after which another run starts
on what was left.  Names refer to inodes, because `--link-dest` and hard-link
groups make names share them: `dst`, `snap` (the `--link-dest` directory) and
`ldtmp` (the `__ldtmp__` names) map files to inodes, `ino` maps inodes to a
content and a modification time.  A source's version is its modification time,
an even number; a local write is stamped with an odd one, so the source never
changes in the very instant of a local write.  `ListTime` is the time the receiver has
in its list: without `-t` it is 0 (`Epoch`) for every file, in the checks and in
`apply_metadata`.

| Action | Code (`run_server_receiver`) |
|---|---|
| `Start` | the run's options and the file list, taken from the sources in one step |
| `SkipFile` | followers, `--max-size`/`--min-size`, `--ignore-existing`, `--update` |
| `NoCandidate`, `LinkTmp`, `LinkName` | `--link-dest`: `__ldtmp__` link, then rename; on failure on to the quick check.  `Rename` is rename(2), which does nothing when both names are links to one inode: the `__ldtmp__` name then stays |
| `QuickCheck`, `Fetch` | size and time equal; otherwise the request, its answer read by the sender now |
| `CreateTmp`, `FillTmp`, `RenameTmp` | temporary file; it stays behind when the run is killed, under a name with the process id, which the model forgets |
| `Truncate`, `Overwrite` | `--inplace` |
| `SetTime` | `apply_metadata` |
| `EndScan`, `NoFollower`, `Unlink`, `Relink`, `Finish` | the hard-link followers, after all transfers; the error of `remove_file` is ignored, and a name that is still there prevents the link |
| `OpenCopy`, `CopyLeader`, `NoLink` | `fs::copy` in place of a link that failed: the follower, or the inode its old name still refers to, is truncated and then filled; a message when the copy fails, too |
| `Kill`, `Change` | the environment: the run ends anywhere, a source changes anywhere |

What `fs::copy` leaves before it has written is the content `Cut`, apart from `Torn`, so
that the properties can name it.  When the inode it truncates is the leader's own,
it copies the leader onto itself and leaves it empty.

Left to `Session`: sources that cannot be read, and the bytes on the wire.

### FileList
How the list is made, sent, received and used.  `Tree` maps the names of one source
directory to inodes, `Node` says what an inode is; a name is the sequence of its
bytes, since order, shared prefixes and the cut inside a UTF-8 character depend
on them.  `opt` is one record of options; `frames` the stack of `walk_source_dir`,
which reads a directory in any order; `slist` and `rlist` the two lists (indices
from 1, so `first = 0` is "no leader"); `wire` the entries in flight.  An entry on
the wire is its flags, its name and the fields that follow: both sides decide for
themselves which fields those are, and where they differ the stream is lost.

| Action | Code |
|---|---|
| `ListLine` | a source directory, or a line of `--files-from` (`build_flist_from_files_from`) |
| `Visit`, `Leave` | `walk_source_dir`: filter, size limits, recursion, `--prune-empty-dirs` |
| `SortAndMark` | `flist_sort` (a stable sort, by the rank of each entry) and `mark_hardlinks`; a foreign peer (`opt.foreign`) may send another order |
| `SendEntry`, `SendEnd` | `send_file_entry` and the end of `send_file_list_ex`; `Disambiguated` are the rules that keep an entry from looking like the end |
| `RecvEntry`, `RecvEnd` | `recv_file_entry_inner`; the trailer, sort and renumbering of `recv_file_list_ex` |
| `delete_extraneous_from_flist`, `MakeDirs`, `TransferFiles`, `FailTransfer`, `MakeSymlinks`, `LinkFollower`, `Finish` | what the receiver does to the names at the destination; the transfer is one step here and a whole session in `Session`.  It takes what the receiver's own limits admit (`Wanted`) |
| `Change` | a source is written to while the list is made |

`walk`'s reference is `Selected`, which says without a walk what is to be listed.
The filter is the set `Excluded`.  `opt.faulty` are names at which the destination's file
system may refuse a call (a directory without permission, a file where a directory should
be): the passes for directories, symbolic links, followers and deletions ignore that and go
on, so each is a choice among what such refusals may leave (`Makeable`, `Linked`, `Excused`);
a regular file that cannot be written ends the session (`FailTransfer`).  `TreeAssumption` says that the names are those of a
tree: what a name passes through is a directory, and none is empty.  Group ids behave as user ids and are left out;
so are nanoseconds.

### LocalCopy
A run without a peer (`run_local`).  `dst` maps paths of the destination to nodes
(kind, content, time, inode), `Src` is the source tree; a path is a sequence of names.
`stack` is the recursion of `copy_dir_recursive`, which reads a directory in any
order, `cur` the entry in hand, `kept` and `links` the two tables the code keeps, `bak`
the backup directory.  `before` remembers the destination for the properties.  Each
step makes at most one system call that changes something; `Kill` ends a run, or
stands for a call that fails, between any two.

| Action | Code |
|---|---|
| `Start`, `SkipArg`, `DirArg`, `FileArg`, `EndWalk` | `run_local`, `copy_one`, `copy_from_files_from` |
| `Visit`, `Leave` | `copy_dir_recursive`: filter, size limits, recursion, `--prune-empty-dirs`, `kept` |
| `UnlinkFollower`, `LinkFollower` | `copy_entry`: a further name of an inode under `-H` |
| `SkipEntry`, `LinkTmp`, `LinkName`, `Decide`, `DryEntry`, `Special` | `copy_entry`: quick check, `--ignore-existing`, `--update`, `--link-dest` and what to do otherwise |
| `Backup` | `backup_file` |
| `UnlinkOld`, `Symlink` | `copy_symlink` |
| `CreateTmp`, `FillTmp`, `RenameTmp`, `SetTime` | `copy_regular`, `apply_file_meta` |
| `Delete`, `EndDelete` | `delete_extraneous` |

Left out: permissions, owners, extended attributes, directory times, statistics.

The properties compare the destination with what the arguments select.  `AllCopies` are the
copies an argument asks for (the argument, the source path, its place), by the filter and
the sizes, without a walk; `Copies` leaves out those whose place a later argument takes;
`AllReached` adds what is walked and passed over.  Three conditions on the arguments, all of them
about several arguments but the last:

* `Clear`: no file goes where another argument has a directory.  Otherwise what was made
  there is replaced, or stands in the way.
* `Apart`: no two files go to one place.  With `-H` the place of the first name of a file may be
  overwritten by another argument's file, and the names that come later are then linked to
  that one; with `--backup` the second file replaces the backup of the first.
* `Straight`: every directory argument goes to the destination itself (`dir/`, not `dir`, and no
  list).  The `--delete` pass compares names relative to the destination with names noted relative
  to the argument (the run `local_delete`); with `--files-from` it removes the directories above a
  listed name, which are made and not noted.

### Handshake
What client and server say before the transfer.  `c2s` and `s2c` are streams of
items, each plain or framed; `CNeeds` and `SNeeds` are what each program reads next.
Nothing on the wire says what it is: a program that finds another item, or another
framing, than it reads for has gone astray.  `case` is the situation: daemon or remote
shell, push or pull, options, the daemon's module, the versions the two builds know.
`cterms` and `sterms` are what each side takes to be agreed, `sflags` the options the
server has understood.  The options themselves go through `server_args` and then, over
a remote shell, either through the server's own command-line parser (clap), of which
`run_server_io` takes over a few, or, when a letter is unknown to it, through
`parse_server_argv`; a daemon always uses the latter.

Filter rules go the same way.  `Filter` translates `filter/mod.rs`: `parse_rule` and
its prefixes, the flags a rule is stored with, `matches`, `wildmatch`, `is_excluded`.
`Glob` says what a pattern means without a matcher: a sequence of pieces (a byte, any
byte, a class, one star, two stars), how each is written, and that a name matches when
it can be cut into segments, one of each piece.  `Readable` says which sequences can be
read back from what is written (two stars side by side, or a class `[a-]b]`, cannot).
In `Handshake`
`case.rules` are the rules the user gives, each by one option; `crules` is the list
the client builds of them (`case.readable` is false when a file of rules cannot be
read, and the list is then empty); `srules` are the texts that reach a server that
sends, and `ServerRules` is what it parses of them.  `RulesMeant` compares `crules`
with `Glob`, `RulesCarried` the server's rules with the client's.
`Supported` are the situations in which the two programs can understand one another;
the others are listed in sections 3 and 4.

| Action | Code |
|---|---|
| `CSendVersion`, `CReadVersion`, `SReadVersion` | `protocol_handshake` |
| `CGreet`, `CReadGreeting`, `CReadOk`, `CReadLine` | `DaemonClient::connect` |
| `SGreet`, `SReadGreeting`, `SReadModule`, `SReadArgv` | `handle_connection` |
| `SSendCompat`, `SReadLists` | `setup_compat` |
| `CReadCompat`, `CReadSeed` | `setup_compat_client` |
| `CSendRules`, `CReadList`, `SReadRules` | `run_client_protocol` and `run_server_io` up to the file list |
| `CEof`, `SEof`, `Break` | the peer or the connection is gone |

A daemon that meets the end of the stream in the arguments goes on and fails at its
next read; the model fails at once.  The client's timeouts of 30 seconds are not modelled.

### Wire, Codec, Channels
The bytes under all of the above.  `Codec` translates `io/varint.rs`: variable and
fixed integers, strings, and indices, whose code depends on the indices before
(`NdxAfter`).  A 64-bit value is the sequence of its bytes, so that no width is lost.
For each code there is what the writer's calls are (`Written`), how many bytes the
reader asks for next, given what it has (`Needed`), and what it makes of them.
`Encodable` says which values the writers' types and their callers admit.
`Wire` puts them between an `MplexWriter` and an `MplexReader` at each end.
`script` is what each end writes and its peer, which knows the order, reads for;
`pipe` the bytes in flight; `muxout`, `muxin` and `pending` the fields of writer and
reader; `got` the bytes of the item being read; `prev` the previous indices of
each program, one set for its reads and one for its writes.  `WireAssumption` says what
a script is: encodable items, and framing switched on once at most; `NewServers` leaves
out servers below protocol 30 that frame their output (section 3).

| Action | Code |
|---|---|
| `Write` | `write_varint`, `write_ndx` and the others through `MplexWriter::write`, which cuts at the largest frame |
| `EnableOut`, `EnableIn` | the end of the handshake: from protocol 30, and the server's output always |
| `Message` | a message frame between data frames; only foreign peers send one |
| `ReadHeader`, `ReadSome` | `MplexReader::read`: skip a message, start a data frame, or return at most the rest of it; any smaller number of bytes may arrive |
| `Finish` | the item is complete and decoded |
| `Cut`, `Fail` | the connection breaks; the end of the stream at a read |

`Channels` is the promise the other modules rely on when they have streams of
items: values come out in order, each once, and all of them while the connection
holds.  `Wire` implements it, under the mapping of `sent` to the items written and
of `received` to the values read.

### Batch
`--write-batch` and `--read-batch`.  The batch file is a sequence of parts (header,
list, a record per file, end marker); `buf` is what the capture's `BufWriter` holds
back and `disk` what has arrived.  A content tells its name, its source and the
change that wrote it, and `seen` remembers what each file has been since the list
was made.

| Action | Code |
|---|---|
| `StartCapture` | `BatchWriter::create`, the list of all source directories, `write_flist`; a replay that is reading the file loses its place (`astray`) |
| `WriteFile` | a turn of the loop of `run_write_batch`: the file is looked for again, in the sources in order (`WriteRecord`); a source that cannot be read is passed over, and without any the file gets no record |
| `FlushSome`, `Finish`, `WriteScript` | a full `BufWriter`, `finish`, `write_shell_script` |
| `StartReplay`, `ReadHeader`, `ReadList`, `OpenFile`, `FillFile`, `SkipRecord`, `ReadEnd` | `run_read_batch`, dry or not |
| `ReadAstray` | the same, over a file that has been truncated under it: any bytes |
| `KillCapture`, `FailReplay`, `Change` | the environment |

A replay may run while a capture does or after one was killed, and a capture may start
at any time, under a running replay too.  A replay that has returned is then
forgotten (`rpc` is `idle` again): `ReplayComplete` compares it with the batch it read.
The script is written in one step.

`MC*` modules give the constants of TLC's runs.

## 3. Runs

| Run | Instance | Shows |
|---|---|---|
| `session_pull` | pull from a daemon, protocol 30, 2 files, no buffer, sources vanish, connection breaks, disk fails | `LockStep`, `RightFile`, `ImplementsFileSync`, `Termination` |
| `session_push` | push, protocol 31, 3 files, buffer of 2 messages, connection may break | `Complete`, `NoMutualWait`, `CleanExit` |
| `delta` | all files up to 5 bytes over two byte values, some of 8 to 10 | `Tiled`, `NoMissedMatch`, `RollExact`, `Rebuilt`, `EndsRebuilt` |
| `deflate_onepiece` | deltas in which no match is split by a literal | `RoundTrip`, `SameDictionary` |
| `deflate_interleaved` | match, literal, match | violates `RoundTrip` |
| `tree` | a leader and its follower, two changes of a source, two runs with any of four sets of options, two of them without `-t`, with or without `--inplace`, links and removals that fail | `NoTornFile`, `UpToDate`, `GroupsAgree`, `SnapshotIntact`, `NeverBack` |
| `flist` | ten names, eight sets of options (with the receiver's own size limits, with refused calls), two destinations | `AlignedList`, `SameList`, `SameIndex`, `GroupsKept`, `WalkComplete`, `AllThere` |
| `local` | a source tree with a directory, linked files, a symbolic link and a special file; destinations missing, stale, in conflict or left by a killed run; thirteen command lines | `Mirror`, `OnlyCopies`, `BackedUp`, `LinksKept` |
| `local_delete` | a directory given without a trailing slash, `--delete` | violates `DeletesOnlyAbsent` |
| `handshake` | remote shell and daemon, push and pull, nine sets of options, seven pairs of versions, four kinds of module, about 330 lists of filter rules, connection may break | `InStep`, `Agreed`, `RulesMeant`, `RulesCarried`, `HandshakeDone` |
| `wire` | every code at each of its boundaries, runs of indices, dialogues with messages between and breaks | `IndexInStep`, `FramesKept`, `ImplementsChannels` |
| `batch` | two sources, one change, files that cannot be read, two captures, two replays, kills anywhere, captures under replays | `OwnContent`, `ReplayComplete`, `ScriptRuns` |

Bounds.  Two or three files are enough for a first, a middle and a last request
with every pattern of selected and skipped files; a source changes once, which
is what tells the version read from the version listed.  Buffers of 0 and
2 messages stand for no buffer and one that overflows in the middle of an answer.  In `Delta` the block is 2 to 5 bytes long, so files
have no, one, several and a short last block; `HalfWord = 16` makes the sums
wrap, bytes are negative as `checksum1` sign-extends them, and
`Twins` are two different blocks of four bytes with one rolling checksum;
`ChunkSize = 2` makes every longer literal take several chunks; with `LenWord = 10` only the
files of ten bytes are too long for a literal's length.  The run limits
of `DeflateTokens` (3 instead of 64 and 65535) make both branches of the encoder
and full runs happen.  In `DestTree` two runs are a run that is killed and the one
that finds what it left; two changes are one before and one after the first
list; six inodes suffice for two files, their counterparts in the snapshot, and
a temporary file for each.  Two versions have one size and one another, so that the checks
by size alone can be deceived; `CopyFails = FALSE` keeps `GroupsAgree` to copies
that succeed.  Deadlock is not checked in the runs of `DestTree`,
`LocalCopy` and `Batch`: after the last run nothing happens any more; nor in those of
`Handshake` and `Wire`, which end, and where `HandshakeDone` and the fairness of
`Channels` would show a wait without end.  In `FileList` one byte holds numbers up to
`ByteMax = 2` instead of 255, so shared prefixes are cut off and long rests occur
with names of three bytes; the tree has a name that sorts differently as a
file and as a directory (`d`, `d-`), a hard-link group over three directories, an
excluded file, an unreadable directory, a symbolic link and a pipe that changes
while the list is made; the options cover protocols 29, 30 and 31, flags in a byte
and as a varint, absent owners and times, checksums, `--prune-empty-dirs`,
`--files-from`, no recursion and a peer with an order of its own.
`LocalCopy` makes one run (`MaxRuns = 1`); the trees that earlier, killed runs left are
among the destinations it starts from, so that recovery is covered without the
square of the states.  `Handshake` has no counter to bound.  Its option sets
cover compression or not, checksums or not, owner and group apart, archive mode, and
letters that clap knows and does not; its versions 30 and 31 both ways and versions each
side must refuse.  Left out of the passing run are the remote-shell push with
`--delete` known to clap (section 4); protocols below 30, at which
the server frames what an rsync-rs client does not expect framed; and daemons newer
than their client, since a daemon never looks at the client's version.  Two rsync-rs
programs of one build meet none of the latter two.  Its rules are one rule with each glob
of one to three pieces (letters, `?`, `*`, `**`, classes, slashes), anchored or not, for
directories or not, and lists given by several options; they are tried on all names
of up to three bytes over `a`, `b`, `]` and `/`, and those of four that begin with
`a`, as files and as directories.
In `Wire` a frame holds 4 bytes instead of 0xFFFFFF, so items span frames and frames
end inside items; values lie on both sides of every power of two at which a code takes
another byte or marks it otherwise; protocol 29 is looked at only from client to server,
as an rsync-rs client does not read what the server frames there.
In `Batch` one change may come between the list and a file's record, two captures
are a complete and a killed one in either order, or one that begins under a replay of the other;
two replays a failed one and the next.

Fairness.  `WF_vars(Receiver)` and `WF_vars(Sender)`: each program is one
thread that goes on as long as it does not block.  Nothing is assumed of the
environment: `Termination` holds although the connection may break or not.
`CleanExit` is about sessions whose connection holds.
`Handshake` likewise: `WF_vars(ClientStep)` and `WF_vars(ServerStep)`, none for `Break`;
`Wire`: `WF_vars(ReaderStep(e))` for each end, since a reader goes on while there are
bytes to read; none for writers, messages or cuts.  `Batch` states no fairness.

## 4. What the violated runs show

* `emit_token` closes a run that a literal has already closed.
* `copy_one` copies a directory given as `dir` (not `dir/`) to `dest/dir` and notes
  the kept names relative to the source; the `--delete` pass looks for them
  relative to `dest` and removes what was just copied.

Met while modelling and not made into runs:

* `find_matches_seeded` casts the lengths of literals `as u32` (`match_blocks.rs:146`, `157`, `213`,
  `245`).  A literal of 4 GiB or more is cut modulo 2^32 and the bytes are lost, although
  `match_blocks.rs:241` has them "become a literal"; the checksum the receiver then reads is not
  compared.  `Tiled`, `Rebuilt` and `InOrder` are about files for which that cannot happen
  (`LengthsFit`); `EndsRebuilt` has the others end, too, but not whole.
* An unreadable source file is answered by `send_skipped_xfer` and the loop
  continues without the flush that ends a normal answer.  Behind a `BufWriter`
  the receiver waits for bytes that stay in the sender's buffer (`NoMutualWaitHolds`
  assumes `~CanVanish \/ BufCap = 0` for that reason).
  With `-z` that answer's end token has four bytes of which the reader takes one
  (hence the assumption `~(Compress /\ CanVanish)` of the proofs), and the receiver
  cannot tell it from an empty file and installs one, which is why `FileSync` allows
  `Nothing`.
* A server started over a remote shell does not learn of `--delete` when clap consumes
  it, does not drain the filter list and reads its end as the file list.
* Filter rules: the text of a rule on the wire has lost a leading and a trailing slash
  (`Portable` leaves such rules, and those with white space at an end, out of `RulesCarried`), although `main.rs:1400` has the
  server "apply them when building the file list"; a clear marker is skipped when
  rules are applied, although `filter/mod.rs:111` says that it resets the rules before
  it; lines of `--exclude-from` and `--include-from` without a sign are ignored; every
  `--include` precedes every `--exclude`, whatever their order on the command line;
  a negated class also matches a slash; a file of rules that cannot be read
  drops all rules.
* An `MplexReader` takes a frame with an unknown code for data.
* `fs::copy`, which replaces a hard link that could not be made (`receiver.rs:562`), writes under
  the final name: a kill leaves a follower cut off without `--inplace` (`NoTornFile` excepts it).
  If the follower could not even be removed, which is ignored, the copy truncates the inode
  that name has.  That may be the leader's, which is then emptied (`Emptied` in `UpToDate`), or
  one in the `--link-dest` directory (the exception of `SnapshotIntact`).
* Directories, symbolic links, followers and deletions at the destination: errors are ignored
  or printed, and the run reports success (`receiver.rs:223`, `522-537`, `556-568`, `main.rs:620`).
  `AllThere` says which names may be missing or left over then (`Missable`, `Excused`).
* The receiver applies its own `--max-size` and `--min-size` (`receiver.rs:245`), which a server
  started over a remote shell has when clap took the options, to whatever the sender listed.
* A source file that cannot be read is left out of a batch without a word (`batch.rs:286`, `291`),
  and a replay reports success without it (`Missed` in `ReplayComplete`).
* A capture truncates the batch file (`batch.rs:249`) although a replay may be reading it; what
  that replay then writes is anything (`garbled` in `OwnContent`).
* Batch files hold no metadata and no symbolic links (they are listed and not
  replayed); the stream flags they record are not applied; a source directory without a
  trailing slash is captured as if it had one, a source that is a file not at all; a name
  in two sources gets the first one's content, where `run_local` leaves the last one's.
* Without `-t` the times of a list are 0 on the receiving side (`send.rs:154`, `169`,
  `recv.rs:245`) and files are given the time 0.  The next such run passes over a file that changed
  without changing its size, and `--link-dest` may take a file back to an older version of equal
  size.  `UpToDate` and `NeverBack` say what is left: with `-t` nothing is lost by that, not even
  after a run without it.
* At protocol 31 the sender writes two goodbyes and the receiver reads one of them; the
  comment at `receiver.rs:583` has it read both.  Nothing follows that could be misread.
* `setup_compat` says it proposes only "none" and sends "zlib none".
* Hard-link followers ignore `--ignore-existing` and `--update` of their own.
* A comment (`receiver.rs:540`) says that the leader of a hard-link group is
  "guaranteed to exist on disk" once the transfers are over.  It is not when
  `--max-size` has kept it away; the follower is unlinked before that is noticed,
  and an older copy of it is lost (`GroupsAgree` is about groups with a leader).
* A file that `--files-from` lists twice is, with `-H`, a follower of itself: it is
  removed in order to be linked to itself (`AllThere` is about lists without
  duplicates).
* The rest of a name is cut out of a string at a byte position (`send.rs:135`); when
  the cut falls inside a UTF-8 character the sender panics.
* The refusal to write to a read-only module comes after `OK`, so the client reads its
  text as compatibility flags (`RefusedLate` in `Handshake`).
* In a local copy hard-link followers and `--link-dest` replace files without a
  backup, and `--delete` removes the backups made in place, whose names are not kept.
* In a local copy of several arguments, two of which have a file for one place, `-H` links later
  names to the wrong content (`LinkMap` holds the place, not what is there), and `--backup` keeps
  the first argument's file in place of the one that was there before.  Found while proving
  `OnlyCopies` and `BackedUp`; their hypothesis `Apart` names it.
* With `--prune-empty-dirs` a directory in which only special files are listed may be removed when a
  second argument that goes to the same place finds it empty (`Filled` in `Mirror`).

Not a run but an assumption of a proof (`DevicesSent`): the client never sends
device numbers (`devices: false` in `run_client_protocol`), while the receiver
reads them for every device in the list.  Likewise `StableLinks`: a follower's
time is taken from its leader, so a hard-linked file that changes between the two
`stat`s leaves the two sides with different notions of the entry before.

## 5. Proofs

`SessionProofs` proves, for any number of files and versions, buffer capacity,
protocol and direction: `TypeCorrect`, `LockStepHolds`, `AlignedHolds`,
`RightFileHolds`, `PhasesAgreeHolds`, `NoMutualWaitHolds` and
`SessionImplementsFileSync`.  All but the first assume
`~(Compress /\ CanVanish)`, since with both the streams really lose alignment;
`NoMutualWaitHolds` also assumes `~CanVanish \/ BufCap = 0`, since otherwise the
programs really do wait for one another.  The argument: alignment and
attribution are not inductive, as they say nothing about what is in flight.
`LockStep` says it: for each position of the receiver, the exact items in both
streams as a function of the sender's position.  It is inductive together with
types (`LockInv`), and gives `Aligned`, `RightFile` and `PhasesAgree` directly.
`NoMutualWait` needs in addition that whatever the sender still has buffered
when it goes idle is nothing (`FlushInv`); the refinement needs that files
behind `rpos` are finished and the others untouched (`SyncInv`).

`TokenProofs` proves `TiledHolds`, `RebuiltHolds` and `InOrderHolds` for all
files whose length fits a literal's (`LengthsFit`, without which they are false), all block
lengths, chunk sizes and word widths.  The rolling checksum
plays no part: a match is confirmed by the strong one, so whatever `Roll`
computes, the delta is right; only `NoMissedMatch` depends on it.  The invariant is
`TileInv` for the search (the emitted operations tile the file up to `last`)
and `StreamInv` for the writer (rebuilt bytes, tokens in flight, literal buffer
and remaining operations follow one another, and each token carries the bytes of
its place).

`DestTreeProofs` proves `TreeTypeCorrect`, `NoTornFileHolds`, `UpToDateHolds`
and `SnapshotIntactHolds` for any number of files, groups, versions, runs and sets
of options.  The invariant `TreeInv` has the parts `TypeOK`; `Apart` (names of
different hard-link groups never share an inode); `Times` (stamps of sources lie
in the past); `Step` (what holds at each position of a run: whose the temporary
file is, what was received); `Scanned` (what the files behind `pos` look like);
`Whole` (which is `NoTornFile` for all names); and `Honest`, which carries the argument: an inode whose time is
one a source could have has a content at least that new and no newer than the source now.
That is why the quick check of a run with `-t` is not deceived by what a killed run left: between
the write and `apply_metadata` a file has a time no source has.  Nor by a run without `-t`, whose
files have the time 0, which is before all sources.  The exceptions the properties name are the copy
that replaces a failed link (its content is `Cut` and not `Torn`, and only members of a group
ever share an inode with it) and checks without `-t`, which go by size.

`FileListProofs` proves `DecodedIsSent`, `IndexAgreed`, `GroupsAreKept` and
`StreamAligned` (and `TypeCorrect`) for every source tree, every order in which
its directories are read, every set of options and every limit on a byte.  Assumed are
`StableLinks` and, for the last one only, `DevicesSent` (section 4).  Three parts:
the order (`LexTotal`: keys that neither precedes are equal, since a byte 0
occurs only at their end, so no key begins another; `SortsBeforeOrder`); the
sort (`OriginFacts`: ranks are a permutation; `SortOfSorted`: a sorted list keeps
its places); the code (`DecodeEncode`, `DecodeFollower`: decoding inverts
encoding against equal predecessors).  `SameList` is not inductive: it says
nothing about what is in flight.  `ListInv` adds that (`Stream`), what marking
establishes (`Marked`: a reference leads back to a regular file of the same inode),
that entries are what their inodes say (`Real`) and that the sent list is sorted.

`LocalProofs` proves `OwnContentHolds`, `ReplayCompleteHolds` and `ScriptRunsHolds` for any
sources, names, changes, captures and replays.  The index of a record is counted off on
both sides, so the proof is about a list that is built from a set: `PlaceOf` counts the
entries before one, which is a bijection (`EntriesFinite` and the lemmas behind it).
`BatchInv` says of the parts written (`disk \o buf`) that they are a header, the list,
and records whose index and content belong together (`PartsOK`), that an end marker
stands only behind the record of every listed file that was not `Missed`, that is gone or unreadable
in all sources since the list was made (`Marked`), and of a replay how much of the file it has
put in place (`Replayed`).

`HandshakeProofs` proves `InStepHolds` and `AgreedHolds` for every situation that is
`Supported`, for any options, versions and rules.  `Supported` is a hypothesis because the
properties are false without it: a daemon newer than its client answers in a protocol the
client does not know, below protocol 30 the server frames what the client reads plain, and
a server that has forgotten `--delete` reads the end of the rules as a file list (section 4).
Two programs of one build over a remote shell, or with a daemon, are `Supported` but for
the last.  The invariant is `Places`: which pairs of program positions can occur, with the
items that may be on their way between them, some of which may be missing once the
connection is broken; `ClientTerms` and `ServerTerms` say what each has taken to be
agreed at each of its positions.  That both sides parse the options alike is
a lemma about `server_args` and its two parsers.

It also proves `RulesCarriedHolds` (every `Supported` situation) and `RulesMeantHolds` (every
situation), for lists of rules, globs and names of any length.  Assumed are
`RulesAssumption` (the rules are `Readable`, an option that says the sign agrees with it, and a rule
behind `--filter` or in a file does not begin or end with white space, which the parser
drops) and `ProbesAssumption` (a name is not empty and does not end with a slash).  `RulesInv`
says of the state that the client's list is the one it built and the server's texts are those it
was sent; it needs `HandshakeInv`, since a server out of step would read something else.
The rest is about the operators:

* `ParseSigned` and `Crossing`: a `Portable` rule, written as sign, space and pattern, is parsed to
  the same rule, and `DecideAlike` extends that to lists, where a cleared list's marker matches nothing on
  either side.
* `MatcherExists` and `MatcherIs`: the table that `wildmatch` and `wildmatch_slash` fill from the end
  exists and satisfies its equation at every place (`LeastNatural` in place of an induction); so does
  the scan of a class (`ScanExists`, `ClassIs`).
* `ClassReads`: on the text of a `Legible` class the scan finds exactly its members and ends behind
  its bracket.  `StarRun`: a run of stars is the one that was written.
* `PieceStep`, `GlobReads`: at the text of piece `k` the matcher accepts the rest of a name exactly
  if the pieces from `k` on cover it (`CutFrom`, `TailStep`; from the last piece to the first by
  `DownInduction`).  `WildReads` is the whole glob, `LiteralReads` the case without wildcards, which
  the code compares byte by byte.
* `BuildsGlob`, `MatchesAbout`: the flags stored with a rule (anchored, directories only, has a slash) are those of
  the glob, and `matches` chooses whole name or last component as the rule means.
* `ClientRulesAre`, `DecideAsMeant`: `from_options` puts the rules in the order of their options, and the
  first that is about a name decides.

`TokenProofs` also proves `RoundTripHolds` and `SameDictionaryHolds` for deltas of every
length, any block numbers and any limits of the encoding, under `~Interleaved`: the
matches of a delta are in one piece.  The other deltas are those that the run
`deflate_interleaved` shows to be read back wrongly.  The invariant `DeflateInv` says that the
frames on the wire and the encoder's open run `Cover` the operations the reader
has not yet seen, one behind the other, each naming the first block of its run.

`WireProofs` proves `IndexInStepHolds`, `FramesKeptHolds` and `ChannelsKept` for every script,
frame size, message and way of cutting reads, writes and the connection.  `ChannelsKept` is
the safety half of `ImplementsChannels` (initial states and steps of `Channels`); its
liveness half stays with TLC.  First each code is inverted by its reader, for all values it
admits (`Decodes`): the reader never asks for a byte beyond the item, never stops before
its last one, and gets the value.  Then `Framed`, the relation between a stream of
frames and the bytes it stands for, is the least one closed under data frames and messages;
the items of a script lie in one string of bytes at increasing places.  `WireInv` says
of each direction (`Direction`): the reader is at the place of an item plus what it has of it;
behind that come plain bytes under way, then frames that stand for the rest of
what was written.  `prev` is a function of the items read and written.

Four modules have a second part:

* `SessionProofs`, `CompleteHolds`: a session that reports success has delivered every
  wanted file; `DeliverInv` follows a content from the sender's read over the wire and the
  receiver's hands to the destination: at each stage it is one of its own file.  It assumes `~(Compress /\ CanVanish)` like the others.
* `DestTreeProofs`, `NeverBackHolds` (no file that is not a follower goes back to an older
  version, an action property) and `GroupsAgreeHolds` (followers are what their leader is), the
  latter if `~CopyFails`: a copy that fails is reported and leaves a follower out.  A link of a
  run without `-t` is the one way back.
* `TokenProofs`, `RollExactHolds` and `NoMissedMatchHolds`: the rolling sums are at every
  position those that `checksum1` computes from the window, for any word width,
  hence the search finds a block of the basis wherever one begins.  The loop
  of `checksum1` is a recursive function; what it computes is shown by the
  least index at which it would go wrong.
* `FileListProofs`, `AllInPlace`: after a session the receiver calls a success every listed name is
  in the destination, followers as well, and after `--delete` nothing else, but for what the
  receiver's size limits and calls refused in silence keep away or leave (`Missable`, `Excused`); for
  any limits and any places of refusal (`StableLinks` and `TreeAssumption`).
  `PlacedInv` adds to `ListInv` what each pass of the receiver has put in place.
* `FileListProofs`, `WalkIsComplete`: the list is exactly what is to be listed, for every tree,
  filter and order of `read_dir`, with `--prune-empty-dirs` and `--files-from`.  `WalkInv` says of the lines taken
  that the list holds what they select, and of the walk that is under way (`Walk`, for the stack
  of open directories, the list, and where the argument stands in it): each open
  directory is listed, behind those it lies in (`Nested`); what stands behind it
  is what lies below it, listed once, not still to come, and pruned at most if it is still open
  (`Walked`); and what is to be listed is listed, to come, or pruned (`Accounted`).
  Hence a directory's entry is the last one when the directory is left exactly if nothing below it
  was to be kept, which is what `Leave` goes by.  `PassOver`, `TakeUp`, `GoInto`, `GoBack` and
  `WalkOver` are the five ways a step of the walk keeps it; `LastFacts` and
  `ChildOf` are what they need of names as a tree.

### Local copies

`LocalSteps` and `LocalProofs` prove `MirrorAlways`, `OnlyCopiesAlways`, `BackedUpAlways` and
`LinksKeptAlways`: the four properties of a local copy, for every source tree, destination, `--link-dest`
directory, command, order of reading, and wherever a run is killed, for any number of
runs.  Assumed is what the file system gives, in four assumptions of `LocalCopy`
that TLC evaluates on the instance of the runs:

* `LocalAssumption`: trees are trees (what is above a path is a directory of it), finite; commands
  are made of arguments and options; and the sources were written before the run, so that what the
  run writes has a time (`Now`) no source has.
* `NamesAssumption`: backup, temporary and `--link-dest` names are not names of the source and are not each
  other's, and different names have different backups.  The first is a hypothesis about the user's
  files (a source with both `x` and `x~` does get its `x~` overwritten by the backup of `x`); the
  others follow from how `backup_file`, `tmp_sibling` and `__ldtmp__` make names.
* `InodesAssumption`: names of one inode show one file; a temporary name that an earlier run left is not
  a second name of a file, since `copy_regular` creates it.
* `QuickCheckAssumption`: a file of the same size and time as a source file has its content.  This is the
  premise of the quick check; without it no quick check is right.  A file a killed run
  left half-written fits it: its time is that of the write, later than every source.

The conditions `Clear`, `Apart` and `Straight` (section 2) are hypotheses of the properties
because the properties are false without them.

The argument.  `LocalInv` has twelve parts.  `WalkInv` says where the run is: the frames of
the recursion are a chain of directories of the current argument (`Walking`), the entry in hand belongs to
the last of them (`Entry`).  From it follows which copies are `Ahead`, in hand, or
`Passed` (`LocalSteps`, up to `Advance`), and that no step goes back over an entry.  `Ground` says that
`dst` is a tree, one inode one content (`OneFile`), what the temporary name holds at each position,
and that a dry run has changed nothing.  `Altered` and `Effect` then bound what one step can do: which
paths it may change, and what they hold afterwards; every later lemma about a step goes by these
instead of by the twenty actions.  On that rest:

| Part | What it says | For |
|---|---|---|
| `Counted` | a frame's count is zero only while everything below is still to come | pruning takes only what is empty |
| `Kept` | the names noted are those of the copies passed, and no others (under `Straight`) | `--delete` |
| `Spared` | after the `--delete` pass nothing is left that it is for | `Mirror` |
| `AllSit` | a place that has been filled is not emptied again, or its backup is there | pruning |
| `AllRight` | every copy passed is at its place with its kind, content and time, or a later argument's is | `Mirror` |
| `Leads`, `AllJoined` | every name in `links` is the place of a copy passed; all names passed of a file share an inode with it | `LinksKept`, and `OnlyCopies` with `-H` |
| `NewFiles`, `Gone` | what is new is the content of a copy treated; what is gone was in the way of one | `OnlyCopies` |
| `Saved` | an old content is in place, or moved with its name, or copied to the backup directory | `BackedUp` |

None of these is inductive alone: a link is right (`AllRight`) because its leader is
(`Leads`, and `AllRight` of the leader), a directory is not pruned because what is in it sits there
(`AllSit`) and was counted (`Counted`).  At the end nothing is ahead or in hand, so all copies are
passed and the four properties follow.

### General

The induction theorems of the library take an operator as a parameter and cannot be used
here; where an argument is an induction over numbers (the places in a list, the bytes of a
block, the frames of a stream), it is made through a least counterexample
or through a set that is shown to be all of `Nat`.

Only model-checked: everything under fairness (`Termination`, `EndsRebuilt`, `CleanExit`,
`HandshakeDone`, the liveness half of `ImplementsChannels`), since liveness and ENABLED are
out of the prover's reach.  Every safety invariant of a passing run is stated by a theorem, under
the hypotheses named above.
The type invariants of `Session`, `DestTree` and `FileList` and `PhasesAgree`, `Aligned`
and `InOrder` are proved for every instance and need no run.

## 6. Plan

1. `Session`, `FileSync`, `Delta`, `DeflateTokens`, `DestTree`, `FileList`,
   `LocalCopy`, `Handshake`, `Wire`, `Codec`, `Filter`, `Batch` (done).
2. Proofs of `Session`, `Delta`, `DestTree`, `FileList`, `Batch`, `Handshake`, `DeflateTokens`,
   `Wire` and `LocalCopy` (done, section 5).
3. `Session`: attribute-only requests; several source directories in `FileList`; permissions
   and directory times in `LocalCopy`.

## 7. Not modelled

Strong checksums (taken to be collision-free), zlib, file-system metadata beyond
what the plan names, several source directories in one file list, option
parsing beyond what shapes the wire, logging, progress, the ssh child process.
The standalone `Generator`, `Receiver::run` and `MultiplexStream` are used by tests only.
Protocols below 30 in the direction of the client (section 3).  What a
program does with misaligned bytes is not modelled: `Session` stops there.
