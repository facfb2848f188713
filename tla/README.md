# TLA+ models of TiFS / HashFs

TiFS is a FUSE filesystem that keeps everything in TiKV.  File contents are cut
into blocks that are stored once per content hash and owned by reference
counters.  Several mounts work on the same store at the same time; the only
means of coordination are TiKV transactions.  An operation of the filesystem is
a *sequence* of small optimistic transactions, each retried until it commits,
so most of what can go wrong lies between two transactions of an operation, or
between the read and the commit of one.

## Inventory

| Component | State | Operations | Interacts with | Hard behaviour | Correct if |
|---|---|---|---|---|---|
| Hashed block store (`mini_transaction.rs` hb_*, `hash_fs_tikv_implementation.rs`, `fuse_to_hashfs.rs`) | block address → hash, hash → counter, hash → data | write (increment, upload, replace, decrement), clear, read, clone | called by file writes, unlink and snapshots | steps are separate transactions; crashes; commits with unknown outcome; readers and snapshots with old hashes | counters cover references; data is not released while referenced; nothing leaks; what is mapped can be read |
| Inode tree (`mini_transaction.rs`, `hash_fs_tikv_implementation.rs`) | entries, parent links, descriptions, attributes, next inode number | create, link, unlink, rmdir, rename, open, close, mount | FUSE calls; unlink clears blocks | snapshot isolation: what is only read is not protected | links agree in both directions; numbers are unique; open or linked inodes live; removed directories are empty |
| Mini transactions (`mini_transaction.rs`, `flexible_transaction.rs`) | a running transaction | start, finish, retry | client mux, all operations | retry of what may have been done | as seen by the operations |
| File I/O of a handle (`block_splitter.rs`, `helpers.rs`, `hashed_block.rs`, `parsers.rs`, `file_handler.rs`) | accumulator of writes | write, flush, read, fallocate | block store | block boundaries, several writes per flush, holes | bytes and size agree with POSIX |
| Size, change id, full hash (`hash_fs_tikv_implementation.rs`) | InoSize, InoChangeIterationId, InoFullHash | write, file_get_hash, fallocate | block store, hash files | several transactions per write, write skew of the checked store | size covers the data; a stored hash is right |
| Client mux (`transaction_client_mux.rs`) | 16 client slots behind a read-write lock, a watch channel | give_one, replace_one_due_to_error | every transaction | outages of all clients, waiting with a lock held | a client is replaced once; everybody is served after an outage |
| Key lock (`szymanskis_critical_section.rs`) | one published state per lock object | enter, leave | none (unused at present) | no atomic test-and-set, crashes leave states behind | mutual exclusion; every enter succeeds without failures |
| Write path and handles (`tikv_fs.rs`, `tikv_fs_trait_impl.rs`, `async_parallel_pipe_stage.rs`, `async_fs/`) | write cache, accumulator, file handle table, freed numbers, inode uses | open, write, read, flush, fsync, release | file I/O, inode tree, kernel | errors and retries after the accumulator was emptied; check-then-act in open; a use that is closed by a spawned task | a number names its handle; an open inode is published as used; flushed writes are stored; every request is answered |
| Snapshot (`snapshot.rs`) | source transaction at an old timestamp | copy tree, clone attributes, clone data | tree, block store | live source; retried body that consumes its input | the copy equals the tree as of the timestamp |
| Keys and values (`key.rs`, `kv_parser.rs`) | none | build, parse, ranges | all | order of encoded keys of variable length | parsing inverts building; ranges hold exactly their keys |
| Directory listing and lookup (`reply.rs`, `tikv_fs.rs`, `tikv_fs_trait_impl.rs`) | a directory handle and the kernel's offset | readdir in pages, lookup, logical inode numbers of hash files | keys, tree | pages by index beside changes; names that are parsed | every entry once; what is listed is found |
| gRPC client and server (`rust-grpc-example`) | pool of connections | forward 25 methods | hash fs interface, `spin` | broken connections, requests that run late, errors in message fields, optional fields, pool | as the direct connection |
| Caches and local locks (`txn_data_cache.rs`, `lazy_lock_map.rs`) | cached values with time limit; lock per inode | made and cleaned | – | no operation looks into them | not modelled |
| FUSE adapter, configuration, executables | – | conversion, start-up | – | – | modelled only where a request touches the state above |

The hazards are listed one by one, at their lines, in `PROJECT.json`.

## Modules

| Module | Models | Composed of |
|---|---|---|
| `HashedBlocks` | block mapping, counters, data; one action per transaction | – |
| `HashedBlocksProofs` | theorems about it | extends `HashedBlocks` |
| `InodeTree` | directory tree, inode life, inode numbers; a transaction is a start and a commit | – |
| `InodeTreeProofs` | theorems about it | extends `InodeTree` |
| `KeyLock`, `LockProofs` | the distributed lock, for any set of lock objects | – |
| `ClientMux`, `LockProofs` | the pool of TiKV clients with its lock and channel | – |
| `FileBlocks`, `FileBlocksProofs` | accumulator, splitter, size and reads of one handle against a reference file | – |
| `FileContent`, `FileContentProofs` | writers and hashers of one file: size, change id, full hash | – |
| `HashFsService` | what a user of `HashFsInterface` may rely on | – |
| `HashFsRpc`, `HashFsRpcProofs` | the interface over gRPC: client, pool, messages, server, `spin` | instantiates `HashFsService` |
| `OpenFiles`, `OpenFilesProofs` | file handles, inode uses and the write path of one mount | – |
| `StoreKeys` | keys as strings of bytes: building, order, ranges, parsing | – |
| `DirectoryStore`, `DirectoryStoreProofs` | readdir, lookup and snapshots on these keys | extends `StoreKeys` |
| `MC*` | instances for TLC | extend the module of the same name |

### HashedBlocks

`map`, `cnt` and `data` are the keys `block_hash(addr)`, `CCountedNamedUsages`
and the block keys.  A block is identified with its hash (collisions and the
optional checksum validation are left out).  Every transaction of this module
reads exactly the keys that it writes, so write-write conflict detection makes
it atomic, and it is one action.  `held` is the model's view of the
references that an operation has in local variables: after the increment those
it is about to map, after the replace those it is about to give back.

* write: `BeginWrite` (read the hashes, drop unchanged blocks), `Increment`,
  `Upload` (only blocks whose previous count was zero), `Replace`, `Decrement`.
  Full hash, change id and size, which the code updates between replace and
  decrement, are in `FileContent`.
* clear: `BeginClear`, `Replace`, `Decrement`; read: `BeginRead`, `FetchData`;
  snapshot clone: `BeginClone`, `CloneIncrement`, `CloneWrite`.
* `Abort`: a crash, or an error that leaves the operation through `?`.
* `Repeat`: a commit that took effect, was reported as failed, and is retried.

### InodeTree

Here a transaction reads more than it writes, so it is modelled as it is:
`Start` takes a snapshot of the store, and the commit is enabled only if no key
that it writes was committed by somebody else in between (`dirty`).  `Retry`
starts over after a conflict.  The calls choose operands as the kernel does
(a parent that can be looked up, no rename into itself or to the same inode).
`Purge` stands for the several deletions that follow the deletion of a
description; as inode numbers are never reused, nobody can tell them apart.
File and symlink are one type (nothing in the tree depends on it).

### KeyLock, ClientMux

In `KeyLock`, `enter` and `leave` are one action per transaction: publishing a
state, or a scan whose condition holds; a scan whose condition fails changes
nothing and is no step.  `Fail` leaves the published state behind.

`ClientMux` models tokio's fair read-write lock with an explicit queue
(external), the round-robin index modulo the number of slots, and the watch
channel by whether a value was ever sent: a clone of the never-polled receiver
reports a change at once from the first send on.

### FileBlocks, FileContent

`FileBlocks` is sequential and works on real bytes: `Split` is
`BlockSplitterWrite`, `BlockCount` and `Read` are `BlockSplitterRead` and
`hb_read_from_blocks`, `NewBlock` is the part of `hb_write_data` that computes
the new blocks from all accumulated jobs.  `file` is the reference, defined
without any of them (`Overwritten`).  Writes beyond the end and fallocate make
gaps.  A flush may hold several writes to one block, of which all but the last
are lost in that block; `torn` remembers these blocks, the properties are about
the others, and the user stops once more than `MaxTorn` blocks are torn.
Truncation is not modelled: `inode_set_all_attributes` ignores the size.

`FileContent` has concurrent writers and hashers on one file.  A byte is named
by its writer, the digest of a file is the function of its blocks, and storing
a hash wraps it in JSON as `put` does.  The checked store of a hash reads the
change id and writes the hash, so it is two steps (`CheckIteration`,
`CommitHash`) with a conflict only on the hash.  A task that crashes is one
that takes no further step.

### HashFsService, HashFsRpc

`HashFsService` says, for any implementation, that a request takes effect at
most once, that an answered request has taken effect and got that answer, and
that a request given up as lost has taken effect, or will, or never will.  The
error an answer carries is the one a local implementation would give after the
conversion to `FsError`.  One exception is stated: a failed
`directory_read_children` may look like an empty directory.

`HashFsRpc` has, for each of the 25 methods, what the client fills in, whether
an empty list is answered without a request, whether the error field is looked
at and which fields the answer needs, and what the server requires and returns
(`Client`, `Server`).  A caller runs a closure of several requests under `spin`:
it takes a connection from the pool or makes a new one, sends, receives,
gives the connection back, and starts the closure again after an unknown error.
`Break` loses a connection at any time; the request is then gone, has run, or
becomes a stray that runs later (`RunLate`).  The network and tonic are external.

The refinement mapping: a request is open while its caller connects or
waits, its effect is what the server has given for it, the loose requests are
counted by the strays, the result is the last answer.

### OpenFiles

The requests of the kernel on one inode, each a task with its program counter;
a step ends where the code awaits.  `table`, `freed` and `next_fh` are
`TiFsMutable`, `opened` is the weak pointer to the use of the inode, `useOf` the
strong one in a handle.  `HandleAlive` and `UseAlive` say who holds an `Arc`; a
use that nobody holds is closed by a spawned task (`CloseUse`).  A handle is
named by the open that made it, so that a number which is used again can be told
apart.  A write puts a spun closure into `stage` and waits for one
when the stage is full; the closure appends to `acc`, and beyond the threshold
takes everything out and stores it (`Accumulate`, `StoreBatch`); `StoreFails`
is an error of the store, retried by `spin` or reported.  `flush` and `release`
drain the stage and store the accumulator under the lock; a read only drains.
`MaxFails` bounds the failures of a run only: `spin` gives up after three for
each closure (`tikv_fs.rs:554`), a mount may meet any number of them, and the
theorems hold for any.
The heartbeat of the uses only drops dead weak pointers, which no open can tell
from living ones that fail to upgrade; it is no action.

### StoreKeys, DirectoryStore

`StoreKeys` builds and parses keys as sequences of digits below `Base`, with
`Width` digits for a number instead of eight bytes, and hashes and uuids of
`HashLen` and `UuidLen` digits.  Order is the order of bytes, `Scan` is TiKV's scan with its limit.

`DirectoryStore` keeps the whole store as a function from these keys.  A step is
a committed transaction, so that an operation of several transactions can stop
or be overtaken between them:

* new entries: `ReserveNew` takes the number, `AddChild` makes and links the inode
  (a file, a directory or a symlink); `reserved` is what is between them;
* `HardLink`, `Rename` (also onto a name that is taken) and `Rmdir`;
* unlink of a file or symlink: `Unlink` removes the entry, `CheckDelete` the
  description if no link is left, `Purge` the blocks and the attributes one after
  the other (`unlinked`, `doomed`);
* a write of several blocks of the open file: `WriteHashes` and later `WriteSize`
  (`writing`); the transactions between them are in `FileContent`.

Programs do this in the root and in one directory.  That they may write into a
snapshot too (nothing protects it, says the program's README) is not modelled.
`readdir` gives pages of `read_dir1` by index, with a hash file beside every
regular file; `lookup` parses the name.  A snapshot is a sequence of transactions
(`SnapBegin` to `SnapDone`): directory, reservation of numbers, entries,
attributes, block hashes, per directory in the order of the code.  A commit may
fail before or after it took effect and is then repeated; the body of the
attributes' transaction has consumed its input by then (`SnapAttrsFails`).  A
listing and a snapshot never share a behaviour: neither writes what the other one
reads.  The counting of the cloned blocks is in `HashedBlocks`.  `MaxIno` ends the
behaviours before the inode numbers reach the last `u64`: the code adds to the
counter unchecked, and the key of the end of a directory's range needs the next
number.

## Runs

Passing runs, with the bounds and why they are enough:

* `blocks` (2 clients, one address and its snapshot copy, 2 hashes, one
  operation that stops): `RefCountCovers`, `ReleaseOnlyUnreferenced`.  Two hashes
  and two clients give every pair of overlapping operations on shared and
  different content.
* `blocks_reliable` (2 clients, 2 addresses, 2 hashes, jobs on both addresses):
  without failures counters are exact, the store is exact when nothing runs,
  only uploads in progress are missing, and whatever is mapped becomes readable.
* `tree` (2 clients, 2 names, one inode besides the root, one use id, one
  crash): `LinkSymmetry`, `DescribedIsKept`, `DeletedWasUnlinked`.
* `tree_fresh` (two mounts of an empty store, two inodes, so that directories
  nest, one crash): `InodeNumbersUnique`, `RemovedWasEmpty`.
  A conflict needs two transactions, so two clients are enough.
* `keylock` (4 lock objects, 2 failures): `MutualExclusion`, `DoorClosed`, and
  `EnterSucceeds` in the behaviours without failures.  A batch in the waiting room
  and a late arrival need three; the fourth gives a second batch.
* `mux` (3 tasks, 2 slots, 2 outages, 1 give-up): `SlotOwned`, and `ServedOnceSent`
  in the behaviours without give-up.
* `io` (blocks of 2 bytes, files up to 5, writes up to 4, 2 accumulated writes,
  threshold 3): `FlushedRight`, `ReadMatches`.  A write of four bytes has an
  irregular first block, a whole one and an irregular last one, and two small
  writes fit into the accumulator, in one block too.  The user stops after the
  first flush that tears a block, which is enough to see that the other blocks and reads of
  them are right.
* `content` (2 writers, 2 hashers, 2 blocks of 2 bytes, one fallocate):
  `SizeCovers`, `ChangeIdTells`.
* `rpc` (a caller with any single method and a caller with the two requests of a
  write, one retry of `spin` instead of three, one failed connect, one broken
  connection): `PoolExact`, `NothingRefused`, `OkMeansRan`, `RunsBounded`, the
  refinement `ImplementsService`, and `EveryCallReturns`.  Two callers make the
  pool grow to its bound; one break, placed anywhere, gives every outcome of a request,
  and one retry makes it run twice.
* `handles` (2 requests at a time, 2 opens of which one writes, 2 writes, a
  stage of 2, an accumulator that flushes beyond one write, one flush or read, one failure of the
  store): `HandleOfOpen`, `UsePublished`, `DurableKept`, `InProgressBounded`,
  `DroppedEmpty`, and, as liveness, `EveryRequestAnswered` and `UsesReleased`.
  The second write fills the stage and the accumulator; two opens and releases
  suffice to reuse a number and to meet a use that is about to be closed.
* `snapshot` (digits below 16, numbers of two digits, a directory with a
  subdirectory, scans of 3 and pages of up to 2 entries, two calls by programs
  or for a snapshot, one failed or unclear commit, inode numbers up to 60, which
  are never used up): `ScansExact`, `ListingExact`, `ListedFound`,
  `CopiesOwnInodes`, `SnapshotIsTree`, `SnapshotDescribed`.  A file has number 15
  and the next inode number 16, a carry in the key; hashes and uuids are the first
  and the last possible; a new name looks like that of a hash file.  Two calls
  are a snapshot beside one change, which may be half done when the snapshot
  begins, two snapshots, or two changes.  The root has three entries, so one that is added
  exceeds the limit of a scan: a listing begins when one more change
  can come (`MaxBeside`) and none is half done (`MaxHalf`), so that it meets an
  addition at the limit and a removal or a rename beyond it.  A write changes a block
  that is there or adds two behind the end (`Spans`), which is one more than a
  snapshot copies beyond the size.

`TypeOK` is checked for `HashedBlocks` and proved, as a theorem or as a part of the inductive
invariant, for all modules with a theorem but `OpenFiles` and `DirectoryStore`.  In
`OpenFiles` it states the types of the variables for the reader and is not among the
properties of the run; in `DirectoryStore` the types are a part of the invariant `StoreInv`
of the proofs.

Symmetry is used for clients, hashes, names, writers and hashers in runs without liveness.
Deadlock checking is off where the system may stop: tasks come to an end
(`content`, `rpc`), failed participants block the others (`keylock`), a task
waits for a first replacement (`mux`, see below), or the kernel or the
user sends no further request (`io`, `handles`, `snapshot`).

One run ends in a violation and shows where the code disagrees with what the
repository says of itself: in `blocks_repeat` a commit that took effect and was
reported as failed is retried and takes a reference twice, so that a later
decrement is not possible (`DecrementPossible`; the quotation is in `PROJECT.json`).

Other behaviours that the models contain and that a reader should know of.  No
run is kept for them; the passing properties are stated so that they hold
beside them.

* A writer that finds a non-zero count skips the upload, so its finished write is
  unreadable until the first writer has uploaded the block (`StoredOrUploading`
  is what remains true).  If the first writer crashed before, the content stays
  unreadable (`MappedEventuallyReadable` needs the absence of failures).
* `hb_read_data` holds no reference between reading the hashes and fetching the
  data; a concurrent overwrite may delete the block in between.
* `inode_clone_data` may count a block that was released after the snapshot was
  started; the check for a previous count of zero is a lazy iterator that is
  never consumed.
* An open or a link that commits while an unlink checks for remaining links does not
  keep the inode from being deleted, although the comment on the opened-inode
  key (`key.rs:24`) says that it does (`DeletedWasUnlinked` says that only such
  a late one is missed).  Closing the last use of an unlinked inode does
  not delete it.
* A file created during an rmdir ends up in a directory that no longer exists
  (`RemovedWasEmpty` says that only such a file does).
* Of two first mounts, the one that got number 10 may make the root directory.
* A rename onto an existing name removes the source and keeps the old target.
* A hole inside the range of a read shifts the bytes that follow it, and a read
  does not see writes that are still in the accumulator (`ReadMatches` is about
  flushed files and ranges without holes).
* Of two writes to one block in one flush, the bytes of the first are lost
  (`torn`; `FlushedRight` is about the other blocks).
* Between the clearing of the full hash and the new change id of a write, a hasher
  can store the hash of the old contents, which then stays (`ChangeIdTells` says that
  this is the only window).  The hash of a file that was never written
  cannot be stored: it has no change id.
* Two concurrent writes to different bytes of one block: the second replaces the
  block by one computed from the original.
* A stored full hash is handed out as JSON text, a computed one as bytes.
* When all clients fail before one was ever replaced, a task that awaits the
  channel keeps the read lock and the replacing task never gets the write lock
  (`ServedOnceSent` needs a first replacement).

* gRPC: `directory_read_children` does not look at the error, so a failed listing
  is an empty directory.  Errors without a message of their own (a directory that
  is not empty among them) cross as `Unspecific`, are taken for unknown, retried
  three times and reported as EFAULT.  After a lost reply a request that is not
  idempotent runs again, up to four times (`RunsBounded`); the retry of an unlink that was done
  reports FileNotFound.
* Handles: a read does not see the accumulator and drops the errors of the writes
  it waited for; a write is answered with the error of an earlier write; two
  spawned writes reach the accumulator in any order; when a batch fails, `spin`
  repeats only the closure's own write and the others are lost without an error
  (`lost` in `DurableKept`); a release whose flush fails leaves handle and use
  behind.  With `chunked_block_upload` off, results of uploads are not looked at.
* Snapshots: after a conflict in the attributes' transaction the copies have no
  attributes (`lossy`), and neither has the copy of a second link to a file in
  one directory.  A snapshot that begins between the hashes and the size of a write
  copies only one of its new blocks beyond the size (`SnapshotIsTree` compares
  what is below the size).  Of a directory with more entries than a scan returns
  the rest is missing in the snapshot, without an error.
  After an unclear commit of the snapshot's directory the retry
  finds it and reports that it exists, with nothing in it.  A copy that fails
  half-way stays and its name is taken.
* Directories: a scan stops at `MAX_TIKV_SCAN_LIMIT` entries without an
  error; a listing in pages may skip an entry when another is removed and repeat
  one when another is added.  In a root with more entries than a scan returns, a
  directory that is added pushes a file with its hash files out of the scan, so that the
  listing gets shorter and may skip `.@opened_inodes` and `.@snapshots`, which are
  at its end (`Lasting`); and a symlink or a directory that is removed lets a hidden
  file with its hash files in, so that the listing gets longer and may show
  them twice although nothing was added (`Observe` counts it as an addition).
  A file of a program whose name looks like a
  hash file's, or is `.@snapshots`, cannot be looked up, and the name `.@hash`
  makes `parse_filename` slice out of range.  An inode number that was reserved
  for a name that is taken is wasted; the inode of a removed directory is never deleted.
* Key code that nothing calls (`sub_key_range`, `named_hashed_block_range`,
  `pending_delete_scan_list`) does not agree with the keys that are built.

## Fairness

Weak fairness per task, on the steps of an operation that has begun and never
on its beginning: each step is a TiKV call that the code awaits and retries
(`MiniTransaction::start`, `finish`), a poll in a loop (`poll_for_condition`), or
local code after an await.  `KeyLock` also assumes that who has entered leaves
(`unlock`, or `Drop`). `OpenFiles` has strong fairness for the steps of a
request that wait for a lock, as tokio's locks serve in order of arrival, weak
fairness for spun closures and for the closing of uses, and nothing for the
kernel's requests. `HashFsRpc` has weak fairness for the caller's steps and for
the server; the ten minutes after which `connect_with_retries` gives up are the
bound `MaxTries`. `ClientMux` assumes that the lock is handed on (tokio's lock
is fair) and that outages end (they are bounded). Safety properties use no
fairness.

## Proofs

The theorems hold for every value of the constants; the assumptions on the
constants are the `ASSUME`s of the modules, all evaluated by TLC in the runs.
Every inductive invariant was also checked by TLC on the instance of its run, except for the
parts of that of `DirectoryStore` that quantify over all keys.  None of the theorems uses fairness.

* `HashedBlocksProofs`: `TypeCorrect`, `RefCountSafe`, `ReleaseSafe`,
  `RefCountExactReliable`.  `RefCountCovers` is not inductive by itself, as it
  says nothing about which references an operation holds at which step:
  `IInv` adds `HeldMatchesStep`, which ties `held` to the step (`inc` holds
  nothing, `upload` and `replace` hold the job's hashes).  Then every action moves
  as many references between counter, mapping and operations as it adds to the
  counter; the lemmas count them with `Cardinality` of address sets.
  `ReleaseSafe` follows because a released hash has counter zero.
  `StoredUnlessUploading` and `QuiescentExact` are about the specification without
  failures.  Their `IInvData` adds that what a writer will upload is among what it
  holds (`FreshHeld`), that stored data is counted (`StoredCounted`), and that a
  counted hash is stored or some writer is about to upload it (`CountedStored`).  With
  counters that are exact, a count of zero means that nobody holds the hash, so
  that a release takes no data that a second writer relies on.
* `InodeTreeProofs`: `TreeTypeCorrect`, `LinksSymmetric`.  The strengthening is
  `SnapshotCurrent` (what a running transaction has read of a key is still
  there unless the key is dirty) and `OperandsOK`.  A commit therefore puts only
  entries that are free and deletes only entries that still name the inode.
  `NumbersUnique` and `DescribedKept` rest on `IInvMade`: numbers at or above the
  counter have not been used (`NumbersHanded`), a transaction knows the counter as it
  is unless the key is dirty and its snapshot agrees with itself on every link
  (`SnapshotMatches`), and entries name inodes that were made (`OnlyMade`).  From
  the same invariant follow the two action properties `DeletedUnlinked` and
  `RemovedEmpty`.
* `LockProofs`, key lock: `DoorStaysClosed`, `MutuallyExclusive`.  `LockInv` ties states to
  steps, says that nobody with a smaller id is between the doors once one has
  entered (`LowerOutside`), that the larger ones are ready when one is about to
  leave (`HigherReady`), and that somebody holds the exit open for whoever left
  the waiting room (`ExitHeldOpen`).
* `LockProofs`, client mux: `TypeCorrect`, `SlotsOwned`.  `IInvLock`
  says that readers, writer and queue of the lock agree with the steps of the tasks,
  that everybody stands in the queue once, and that a writer is alone, which is what
  tokio's lock promises; the bound of the misses belongs to it.  `SlotOwned` is inductive together with the types
  (`IInvSlots`), as a task empties a slot and becomes its owner in one step under the lock.
* `FileBlocksProofs`: `TypeCorrect`, `FlushedIsRight`, `ReadIsRight`.  Between
  flushes a byte of the reference file is in a waiting write or in its block, and
  the size may be behind: `IInv` says of every block that nothing was or will be
  lost in (`Clean`) that a byte is that of every waiting write which covers it, and
  else that of the block (`BytesKnown`); that the size is the length of the file or
  a write that ends there waits (`EndKnown`); and that neither blocks nor writes
  reach beyond size and file.  The main lemmas say what one job does to one
  block, whether it is its first, a whole or its last part (`TouchedWritten`), and
  what a flush of all jobs does to it (`NewBlockFacts`).  `Read` is a recursive
  function: the part of the file up to the k-th block satisfies its equation
  (`FirstStep`, `FurtherStep`), and two functions that do so have no least block in
  which they differ (`ReadIs`).
* `FileContentProofs`: `TypeCorrect`, `SizeCoversBlocks`, `ChangeIdIsReliable`.
  `IInv` adds that change ids in the store and with hashers were drawn
  (`IdsDrawn`: the id that a writer is about to draw is known to nobody), and that a
  block is covered by the size or by the size update that its writer still has to
  make (`BlocksCovered`).  `NoneAssumption`:
  the mark of an unwritten byte is no writer.
* `HashFsRpcProofs`: `MethodsAgree` (both sides of each of the 25 methods agree on
  the fields of the messages), `RpcTypeCorrect`, `PoolIsExact`, `NoneRefused`,
  `OkRan`, `RunsAreBounded`, and `Implements`: the client and server implement
  `HashFsService`, step by step.  `IInv` says that every connection is in one
  place and that they are counted, and of each caller, what it has at which step
  (`Shape`), that while it waits its request is under way or has been answered with
  what the server gave (`Exchange`), that the requests before the present one ran
  (`OkSoFar`), that runs and strays together are within the attempts made (`Bounded`),
  and that strays belong to attempts that are over (`StrayOld`).  The assumption that
  `inode_read_block_hashes_block_range` is never called with an empty list
  (`RangesAssumption`) is the test in `fuse_to_hashfs.rs:639`.
* `OpenFilesProofs`: `HandlesRight`, `UsesPublished`, `DurableIsKept`,
  `WritesBounded`, `DroppedIsEmpty`.  The invariants relate the steps of all requests:
  numbers are in the table or free, and a release has its handle for itself
  (`FhTable`); a use is published while a living handle or an open has it
  (`AlivePublished`); the lock of a write cache is with the request that waits under
  it, and every spawned write that is not done is in progress at its handle
  (`LockHeld`, `StageShape`, `WritesOnce`); the accumulator is empty once the flush of a
  release has taken it (`FlushedEmpty`); and no data gets out of sight: what a closure
  has handed on is in the accumulator, in a batch, stored or `lost` (`Tracked`).
* `DirectoryStoreProofs`: `ScansStayExact`, `CopiesKeepOwnInodes`,
  `ListedStaysFound`, `ListingStaysExact`; `StoreKept` and `LiveKept` say that the invariants
  below hold.  The first part is about keys: a number of `Width` digits is read back
  as it was written and numbers are ordered as their digits are, keys of different kinds differ,
  every key in use parses to what it was built from, and a key lies in the range of a
  directory, an inode or a lock exactly if it was built for it.  Digits and the value of
  digits are recursive functions; instead of an induction, the lemmas take the least
  index at which the claim fails.  The second part is `StoreInv`: what lies under the keys of a store
  (`StoreOK`, also of the one that a running snapshot reads); entries, parent links and
  states of locks are those of the links and locks and no others (`LinksOK`); a link
  outside of the tree of the programs has an inode that no other link has (`LinksApart`);
  of a running snapshot, what it holds at which step (`SnapTyped`), that the numbers it has yet
  to use differ from each other (`SnapApart`), and that these directories are empty and these
  inodes are linked nowhere (`SnapFresh`).  `ProgsInv` is about the operations of programs that are
  half done: a reserved number is linked nowhere and not among those of the snapshot
  (`ReservedOwn`), an inode to be checked or cleared has a number that was handed out and is reserved
  no more (`ItemsKnown`), and a write is one of the open file (`WritesOpen`).  `SnapApart`, `SnapFresh` and `ReservedOwn` are what makes
  `CopiesOwnInodes` inductive: entries are linked in a later transaction than the one that reserved
  their numbers, by snapshots and by programs.
  `ScansExact` follows from `LinksOK` and the ranges.  `ListedFound` follows from the parsing of keys and
  names, and for the tree of the programs from `LiveInv`: what is linked there has all its attributes, as
  a doomed inode has no link and no description, without which nobody links it again.
  `ListingExact` needs the places of entries: an entry of a child is at the number of
  entries before it in the order of keys, as long as the child is among the first that a scan
  returns, and the two directories of the root are behind all that is shown (`ListingIs`).  From this, no
  entry comes earlier when children are added (`Moves`), none comes later or gets out of sight
  when one is removed (`StillShown`), and the two directories behave like entries unless the
  scan is cut short (`VisibleGrows`).  The invariant `ListInv` says of a readdir under way that what was seen is behind its
  offset or gone (`Passed`), unless entries were added, and that what it still has to show is ahead
  (`Ahead`), unless some were removed.  Beyond the limit of the scan both kinds of change move the two
  directories either way; this is the exception that `Lasting` and `Observe` state.
  Assumed of the constants: digits below at least 16, names that are strings
  of digits, a scan limit of at least two, numbers that fit
  (`DirectoryStoreAssumption`), and that the two reserved names are no names of hash files
  (`SpecialNamesAssumption`).

Only model-checked:

* liveness (`MappedEventuallyReadable`, `EnterSucceeds`, `ServedOnceSent`,
  `EveryCallReturns`, `EveryRequestAnswered`, `UsesReleased`), which is beyond the
  prover;
* `SnapshotIsTree` and `SnapshotDescribed` of `DirectoryStore`.  They
  compare the finished copy with the source tree, so that an invariant has to
  follow every copy down to its source: which part of a directory's entries, attributes and
  blocks is written at each step, for every job that is done, under way or waiting;
* `TypeOK` of `OpenFiles`, whose bounds on the numbers of opens and failures count
  the kernel's requests and say nothing of the code.

## Not modelled

FUSE requests that only pass their parameters on, read-ahead, `lseek`, advisory
locks (`setlk`), extended attributes, the times that replies may be cached, errno
numbers, option parsing, logging, command line tools, the unfinished local
storage, TLS and the transport below gRPC, the JSON of stored values.  The block
cache keeps immutable data under its hash; `TxnDataCache` and `ino_locks` are
created and cleaned, but no operation looks into them.  TiKV itself is external:
snapshot isolation with write-write conflict detection.  Hash functions are
injective.  `inode_set_all_attributes` is a plain read-modify-write in two
transactions (listed as a hazard): concurrent changes lose one another.

## Plan

1. A block map with atomic writes that `HashedBlocks` implements without failures,
   and the proof of this refinement.
2. The proof that a finished snapshot is the tree, in `DirectoryStore`.
3. Attribute updates (`set_all_attributes`) in `InodeTree`.
