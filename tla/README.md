# A TLA+ model of zus, the ZUFS user-mode server

zus is the user-space half of ZUFS.  The daemon registers file systems with the
kernel module zuf, receives mounts on one thread, and serves the operations of
mounted file systems on a pool of dispatcher threads, one per cpu and channel
(the ZTs).  File systems are shared libraries; toyfs is the reference one.

This directory models the parts of zus whose correctness depends on
interleavings, failures and long sequences of calls.  The modules are TLA+, the
`.cfg` files are the instances TLC checks, the `*Proofs.tla` modules hold proofs
for TLAPS, and `PROJECT.json` lists the runs, the properties, the mutants they
are tested with, the source lines every definition stands for, and the hazards.

## Inventory

| Component | Source | State | Operations | What is hard | What makes it correct |
|---|---|---|---|---|---|
| page allocator | `pa.c`, `zus.h` | free list and size under a spin lock; a lock-free reference count per page | `pa_alloc_order`, `pa_get_page`, `pa_put_page`, `__pa_free` | the count is 0 before the page is listed; `mlock()` fails after the page was taken; growth at `PA_SIZE` | a page is listed, owned or in one thread's hands, and never two of these; the count is the number of references |
| slab allocator | `slab.c` | per cpu: lock, one free list and two counters per size class; per page: class, cpu, use count | `zus_malloc`, `zus_free`, `zus_slab_fini` and wrappers | slabs of other cpus are probed with trylock; the slab of an element is found without a lock | an element is with one user or on one list; pages go back whole |
| ZT pool | `zus-core.c`, `wtz.h` | the ZTs and their files, stop flags and errors; the wait-til-zero count | start, verify, serve, stop | threads initialise while others are still created; failures half way; waits that only the kernel ends | the start waits for all, no ZT outlives its memory, a stop ends |
| mount thread and daemon | `zus-core.c`, `main.c`, `signals.c` | the mount thread's file, stop flag and thread handle | receive, start the pool, mount, umount, join, stop by a signal | the handler runs on any thread, at any point of main and of the mount thread | requests are answered; the daemon ends when it should |
| mounts | `zus-vfs.c` | what a super block holds: device, mappings, maps | mount, umount, remount, private mount | every step can fail, each with its own way out | all or nothing; a private mount leaves a known rest |
| file system loader | `fs-loader.c`, `module.c` | loaded libraries | load, register, unregister | failure half way through the list | what was loaded is unloaded once, with nothing running in it, unless a signal came |
| vfs dispatch | `zus-vfs.c`, `zuf_call.h` | inode infos, gets of blocks | one handler per operation, puts that ride on a command | puts that ride on the eviction of their inode; lookups that race; creation in three calls; operations a file system lacks | every handle and every get the kernel has is one the file system gave, and goes back once |
| multi-device table | `md_zus.c` | map from blocks to devices; a copy of the table per device | map set-up, read, write and check of the table | gcd and limits; a write cut short between two devices | every block maps to its device; a table that is accepted is whole and right |
| io-map encoder | `iom_enc.h`, `md_zus.c` | an output buffer that is used again | one encoder per kind of element, submit, done | the end of the buffer, remains of the last round, two places that call done | nothing past the end, the kernel reads what was accepted, done once |
| dynamic debug | `printz.c` | flags of print sites | read with paging, parse, match | resuming a read, token limits | every site is listed once while its line fits the buffer, a query switches what it says |
| toyfs file data | `file.c`, `mmap.c`, `super.c` | page pool, block references, `s_mutex` | read, write, truncate, fallocate, clone, mmap | shared blocks and copy on write; `ENOSPC` half way | clones are independent; counts cover the references |
| toyfs name space and inodes | `dir.c`, `namei.c`, `inode.c`, `symlink.c`, `xattr.c`, `super.c` | inode table, directory pages, link counts, inode infos with references | create, link, rename, remove, lookup, iget, evict, readdir | iget looks up before it locks; creation and rename in several steps; directories read while they change | link counts and pages are exact; what is named or held exists |
| threads and topology, utilities, foofs, mkfs, non-temporal copies | the rest | | | | not modelled |

How they interact: the mount thread loads the libraries, starts the ZT pool on
the first mount and mounts; ZTs call `zus_do_command`, which calls the file
system; vfs dispatch and the file systems allocate from the slab allocator,
which takes single pages from the page allocator; a file system reaches devices
through io-maps, and the multi-device table is written that way.

## Modules

| Module | Models | Used by |
|---|---|---|
| `PagePool` | what the page allocator promises: pages with sets of owners | `PageAlloc` refines it; `Slab` takes its pages from such a pool |
| `PageAlloc` | `pa.c`, the reference counts of `zus.h` | `MCAlloc`, `PageAllocProofs` |
| `Slab` | `slab.c` | `MCSlab`, `MCAlloc`, `SlabProofs` |
| `ZtPool` | ZT start, serve and stop of `zus-core.c`, `wtz.h` | `MCZtPool`, `ZtPoolProofs` |
| `Mount` | `main.c`, the exit signals, the mount thread, mounts and libraries | `MCMount`, `MountProofs` |
| `ToyfsFile` | file data of toyfs: `file.c`, the pool of `super.c`, `mmap.c` | `MCToyfsFile`, `ToyfsFileProofs` |
| `ToyfsMap` | `toyfs_seek` and `toyfs_fiemap`, called again and again by a reader | `MCRequests` |
| `NameSpace` | what a directory tree promises: one link per name, one change per call | `ToyfsNs` refines it |
| `ToyfsDir` | the pages of a directory, as functions (`dir.c`) | `ToyfsNs`, `ToyfsDirProofs` |
| `ToyfsNs` | names and inodes of toyfs | `MCToyfsNs`, `ToyfsNsProofs` |
| `Dispatch` | `zus_do_command` and its handlers | `MCRequests`, `DispatchProofs` |
| `IomEnc` | the io-map encoder, submission and completion | `MdTable`, `MCRequests` |
| `MdTable` | the device maps and the copies of the device table | `MCRequests` |
| `Ddbg` | dynamic debug messages | `MCRequests` |
| `PageAllocProofs`, `SlabProofs`, `ZtPoolProofs`, `MountProofs`, `DispatchProofs`, `ToyfsFileProofs`, `ToyfsDirProofs`, `ToyfsNsProofs` | theorems about the module each is named after | TLAPS |

Operators whose name ends in `Mut` are deliberately wrong versions of the
operator that follows them.  Nothing uses them; a property is trusted only if
it fails when such a version takes the place of the right one.

### PageAlloc and PagePool

State: `head` and `size` are the free list and `pa->size`, `refcount` the atomic
count of each page, `lock` the spin lock; `pc`, `want`, `page` are the program
counter and locals of a thread.  `allocated` and `holders` record what callers
know: which pages were handed out and who holds a reference.

`pa_alloc_order` is `AllocLock` (lock), `AllocGrow`/`AllocFail`
(`_init_page_of_pages`, nothing left), `AllocScan`/`AllocNoFit` (the scan for an
aligned block), and `AllocMlock`, `AllocMlockFail`, `AllocRelist` (the pages are
locked in memory after the spin lock was released, and go back to the list when
that fails).  `Get` is `pa_get_page`, `Put` the atomic decrement of
`pa_put_page`; the last put continues in `__pa_free` with `FreePunch` (without
the lock) and `FreeList` (with it).

The allocator never gives pages back to the system, so `size` only grows.  The
list is a set: the code takes the first fitting entry, the model any.

### Slab

One action per critical section: `Malloc` enters, `TryLock`, `TryFail`,
`LookTake`, `LookEmpty` probe all slabs, `LockOwn`, `AllocTake`, `AllocGrow`,
`AllocFail` end in the own slab; `Free` reads the cpu of the slab without a lock,
`FreeLock` and `FreeElem` do the rest; `Fini` is `zus_slab_fini`.  A thread may be
migrated at any time: the cpu it works for is the one it read at entry.

### ZtPool

`ctl` is where the control thread is in `zus_start_all_threads` or
`zus_stop_all_threads`; `zpc[z]` where ZT `z` is in `_zu_thread`.  A stop is not
atomic: `StopChan` enters `_zus_stop_chan_threads`, `SetStop` sets the flags,
`BreakWaits` calls `zuf_break_all` on the file of the first ZT, `Join` joins the
ZTs in turn and `FreeChan` frees the array.  The kernel is external: a break ends
the current or the next wait of all registered ZTs if its file is open.

`CallsEnd` is about the whole of a start, with the stop it runs when it fails, and of a
stop: they return, or stay for ever in one join that `Stuck` describes, of a ZT in its
wait after the break went to a file that is not open.  `ZtPool_hang` shows that this does
happen (the first ZT cannot open its file, the second one serves), against the comment
that the "stop function will cleanup" (`zus-core.c:572`).  It needs no failure either: the
first ZT may see its stop flag and close its file before the break is issued.  A stop
that does return leaves the file of a ZT open that failed after it had opened it
(`FreeChan`), so that `StopCleansUp` would fail without the hang too.

### ToyfsFile

`blk[f][p]` is the sorted list of iblkrefs of file `f` as a function from page
numbers to blocks, `mem` the pool (`pages`, `bfree` and the counts of free dblkrefs
and iblkrefs), the counts of the blocks and their bytes, `slock` the holder of
`s_mutex` where it is held across several pages.  A call is started by `Begin` and
does one page per step.  Calls on one file exclude each other, as the kernel's
inode lock does; calls on different files meet in the pool and in the counts.

| Code | Actions |
|---|---|
| `_write`, `_falloc_range` | `RwPage`, `RwNoSpace`, `RwEnd` |
| `_punch_hole`, `_collapse_range` | `PunchPage`, `PunchEnd`, `CollapseEnd` |
| `_zero_range` | `ZeroBlk`, `ZeroEnd` |
| `toyfs_truncate` | `DropRange`, `TruncEnd`, and `TruncCopy`, `TruncLoad`, `TruncStore` for `_unique_pmemb` without `s_mutex` |
| `_clone_entire_file_range` | `DropRange`, `CloneLock`, `ShareBlk`, `ShareEnd` |
| `_clone_sub_file_range` | `CloneLock`, `ClonePage`, `CloneHole`, `CloneEnd` |
| `_get_block_wr` and the store that follows | `MmapWrite` |

A change of a count under `s_mutex` is one step; the one without it (`refcnt--` in
`_unique_pmemb`) is a load and a store.

What the model shows about toyfs beyond the properties (nothing in the
repository says otherwise, so these are observations and not findings):

- `_require_iblkref` copies a shared block and never gives up the reference to the
  old one (`file.c:414-419`).  Counts are therefore upper bounds, and the old
  block is lost to the file system once all its users have been written to: it is
  `Stranded`, which `PoolConserved` counts apart from the blocks of files.
  `LostByCowOnly` says that this is the only way: no other step moves the count of a
  block away from the references to it, and this one moves it by one.
- Zeroing part of a page (`_zero_range_at`) and `_get_block_wr` write a block in
  place even if it is shared: the change appears in the clones.  `CowIsolated`
  allows these calls to change files that share a block with theirs, and no others.
- A zero-range that begins in a hole takes the length of its first round from the
  start of the range, not of the block (`file.c:545-547`): bytes after the end of
  the range may be cleared, or bytes of the range left.
- A write that ends with `-ENOSPC` leaves the pages it wrote beyond `i_size`; a
  truncate that ends with it still sets `i_size` and leaves the old tail.
  `EffectOnReturn` speaks of successful calls.
- A clone of a hole onto a hole does not extend the file (`file.c:871-872`), and
  a collapse of a range past the end shrinks it (`file.c:567`).
- `f_bfree` does not count pages that were cut up into dblkrefs and iblkrefs.

### Mount

`mpc` is where the mount thread is in `zus_mount_thread`, `main` where main is,
`spc[x]` where `zus_mount_thread_stop` is as run by main and by a signal handler;
`host` is the thread the handler interrupts, which stands still until the handler
exits.  `has[s]` is what super block `s` holds, in the order of `MountSteps`
(`_pmem_grab`, `sbi_init`), and `priv` what a private mount holds and has left behind.
`pool` is the ZT pool seen from outside: `ZtPool` has its steps, and the join of its
threads is taken to end (`ZtPool_hang` has the case where it does not).

The parts of the properties say what holds on every path and, where the code has an
exception, which one (`MountsSafe`, `SignalsContained` and `ProcessEnds` put them together): `SbBalanced` is about the mounts of the kernel, after any failure; `PrivateClean`
about private mounts, with the exact rest that a failure in `_pmem_grab` leaves;
`MountsWithPool` holds with a signal too, until a stop has stopped the pool; `LibsClosed`
says how often the libraries are closed and that only a stop after a signal closes them
under a running mount thread; `OnlySignalsHurt` that without a signal nothing is stuck and
nothing crashes but at the second join; `DaemonEnds` that the process ends when its mount
thread does; `SignalEnds` that a signal ends it, wherever main is, except for the hang of
`HandlerHangs`.

| Code | Actions |
|---|---|
| `zus_mount_thread` | `MtInit`, `Loaded`, `Loop`, `Recv`, `RecvErr`, `StartPool`, `PoolUp`, `PoolFail`, `NoPoolNeeded`, `OtherReq`, `MtExit` |
| `_load_libfs`, `_load_one_fs`, `zus_register_one` | `LoadOne`, `LoadFail` |
| `zus_mount`, `_pmem_grab`, `zus_umount` | `MountStep`, `MountFail`, `MountDone`, `Umount` |
| `main`, `zus_mount_thread_start`, `zus_join` | `CreateMounter`, `CreateFail`, `ZusJoin`, `ZusJoinLate`, `ZusJoined` |
| the exit handler, `zus_mount_thread_stop` | `Signal`, `StopPool`, `StopPoolRaces`, `SetStop`, `StopJoin`, `StopJoinTwice`, `StopJoined`, `Unregister`, `Exit` |
| `zus_private_mount`, `zus_private_umount` | `PrivStep`, `PrivFail`, `PrivUmount` |

Undefined behaviour is a choice between a crash and the ways on: two threads at
`g_ztp` (`StopPoolRaces`), a join of a thread that was joined (`StopJoinTwice`), a
call into an unloaded library (`RunsUnloaded`).

Observations:

- A private mount that fails inside `_pmem_grab` leaves the file, the pmem and the
  maps it took so far behind (`zus-vfs.c:221-223`); `PrivateClean` says that it is these,
  all of them and nothing else.
- main always joins the mount thread twice: `zus_join` leaves `zbt.thread` set and
  `zus_mount_thread_stop` joins it again (`zus-core.c:842`).
- A signal that reaches main after it created the mount thread and before it
  waits for it, with no pool started, hangs in the join: nobody breaks the wait of
  the mount thread.  So it does when the break comes before the mount thread waits.
  `SignalEnds` names this hang (`HandlerHangs`).
- A signal unloads the libraries under the mount thread when main already joins
  it; without a signal they are closed once, with nothing running in them.
- A failure of the numa ioctl or of the registration leaves `g_mount.fd` open.
- `g_dl_list` is filled without a check against `ZUS_LIBFS_MAX_NR`
  (`fs-loader.c:134`), and so is `ddbg_db.modules` (`printz.c:60`).

### ToyfsDir, ToyfsNs and NameSpace

`ToyfsDir` has a directory as a sequence of pages of slots: a name takes its
dirent and the slots after it that its length needs.  `_find_dirent`,
`_count_free_de`, `_search_free`, `_acquire_dirent`, `_reset_dirent` and the walk of
`readdir` are functions of the pages.  The loops are stated without recursion, so that
they can be reasoned about: the slots a walk comes to (`Visited`) are the least set with
the first slot that `_next_dirent` does not leave, a search takes the first hit among
them (`FirstOf`) in the first page that has one (`FirstPlace`), and a call of `readdir`
emits as many of the due entries as fit, from the first one on.

`ToyfsNs` has the inodes (`node`), the inode infos and their references (`tii`,
`ref`), the inode table (`tab`), the pool and `s_statvfs` (`mem`).  `held` is what the
kernel has.  `toyfs_new_inode` and the dirent that follows it are two steps
(`NewInode`, `AddDentry` or `AddDentryFail`), a creation that fails after
`toyfs_alloc_ii` frees its inode_info with an unlocked load and store of `f_ffree`
(`super.c:170`), and an iget is two steps too: `FindInodeRef`
looks the inode up without the lock, `IgetNew` and `IgetHit` use what it found.
`Rename` and `RenameOver`, `Link`, `RemoveDentry`, `SetXattr` and `Evict` are one
step each, as the kernel holds the directories they use.  A reader takes any number of
`ReadDir` calls while all this goes on; `rd` remembers what it must still see.

`NameSpace` keeps only the set of links.  `ToyfsNs` maps `links` to the dirents of
all live directories: every step of toyfs adds, removes or moves one link.

Observations:

- `toyfs_new_inode` returns a pointer where the vector wants an int (`zus.h:162`), and
  does not set `zus_ii`; the dispatcher relies on the file system to do so.  As the two
  stand, `_new_inode` takes a creation that succeeded for an error and one that failed
  for a success (`zus-vfs.c:361-365`).  `ToyfsNs` has the operations of toyfs by their own
  contract: its properties and theorems are about what they do when creation and
  dirent follow each other as meant, not about a creation through this dispatcher.
- An iget of an inode that was evicted with a link left makes an inode info
  without its inode (the half made ones of the model).
- A rename onto an existing name keeps the replaced inode under that name and drops
  the link of the renamed one; no rename updates `i_dir.parent`.
- A symlink of exactly 32 bytes loses its page at eviction (`inode.c:98` against
  `symlink.c:57`).  `lost` counts these pages: `PoolConserved` says that no page is
  lost in another way.
- A directory is never freed by `toyfs_evict`, which sees the link it has to
  itself; and so a directory whose dirent found no room stays too (`zus-vfs.c:379`).  `NoOrphans`
  leaves directories out.
- `O_TMPFILE` inodes have a link count of 1 and are never freed.
- `f_ffree` is incremented without `s_mutex` after a failed creation (`super.c:170`), and a
  change of another thread is lost.  `FfreeByRace` says that only this store does so.
- In a page of attributes `_next_of` leaves out the three bytes of the header, so
  that entries overlap; the bytes of attributes are not modelled.

### ToyfsMap

`SeekBlock` is the loop of `_seek_block`, `Extent` the inner and `Fiemap` the outer loop
of `_fiemap`; a reader seeks data and holes in turn from any offset, or asks for a
few extents at a time.  `LayoutExact` says that it finds all the data, once.
Observations: an extent has at most two pages, as the blocks that follow are compared
with its first one; the second may lie elsewhere on the device, and it may be
shared while the extent is not marked so (`file.c:990-1004`).  Behind the last data
both seeks return 0 with an offset of -1, where a reader would expect `-ENXIO` or the
end of the file.

### Dispatch

`chan[c]` is the command on a ZT, or its answer on the way back, with how many puts of
each inode ride on it.  `zii[z]` counts the handles (`zus_inode_info`) of an inode the
file system gave and did not take back, `kin[z]` those the kernel has; between the two are
the commands that carry one (`Carrying`).  `PigyPut` is one round of `_some_pigy_put`;
`NewInode`, `NameNew` and `FreeUnnamed` are the three calls of `_new_inode`, `Lookup`, `Evict`,
`GetPut` and `Dentry` the other handlers that change which handles, names and gets there
are, and `PlainOp` stands for the rest, which differ in what they answer when the file
system lacks the operation (`Missing`).  A handler that looks for an operation calls it
through `Call`, one that does not through `CallNow`; `bad` records every call of an
operation that is missing and every use of an inode without a handle.  An eviction takes
a handle back only if the file system has the operation (`Dropped`): without `evict` handles
stay behind, which `CmdInodesMatch` allows for such vectors only.

The kernel is external: `KNew`, `KLookup`, `KUse`, `KPut`, `KPutCmd`, `KRace`, `KLeave` and `KTake`,
with the gets it holds (`kout`) and the puts that wait for a command (`kputs`).  Lookups of
one inode may run at once; each answer is a handle, and `KRace` sends one too many back.
A lookup of an empty name returns 0 without an inode; the kernel does not send one.

Observations:

- `_new_inode` calls `free_inode` without a look (`zus-vfs.c:379`), where `_evict` looks for it
  (`zus-vfs.c:394`): a file system without it crashes the daemon when a name is refused.
  `CmdNoNullCall` leaves this one call out, which `bad` records as `"null_free"`.
- The comment in `_evict` (`zus-vfs.c:397-405`) says that a lookup that lost a race needs no
  evict, so that a file system may see two igets and one evict.  The code calls evict for
  each, and the model follows the code (`Evict`).

### IomEnc

`Enc` is any encoder that looks for room first, `EncBn` is `_ziom_enc_t1_bn`, which
writes first and says afterwards that the buffer is full.  `Submit` is
`_zus_iom_ioc_exec_submit`, `IomDone` the command that reports completion.  A
buffer serves operations or block numbers, as in the callers: mixing them could
run over the end by one word.  A submission that does not wait and fails never
calls done; `IomDoneOnce` says so.

### MdTable

`MapSetup` is `_map_setup`, `MdtCheck` the check of a table, `MdWriteOne` one
device of `md_t2_mdt_write`, sent through `IomEnc`'s encoder.  `MdWriteFails` and `MdCrash` end a write
anywhere, with the device it was at holding the old, the new or a torn table.
`MdAccepted` is about the copies on all the devices, of which `md_t2_mdt_read` gives the
first only.
Observations: `md_t2_mdt_write` leaves the index of the last device in the caller's
table; `md_t2_mdt_read` ignores its device index and always reads block 0;
`md_mdt_check` compares the index with `<` (`md_zus.c:300`), which lets one index too
many through, but the size check of that entry refuses it (`MdIndexListed`);
`g_io_fba` is shared by all callers without a lock.

### Ddbg

`Page` is one `zus_ddbg_read`, `Tokens`, `Unclosed` and `Parse` the tokenizer and the parser,
`Process` the effect of a query.  `DbgReadsAll` holds for any lengths of lines and buffers,
with the two edges of the code in it: a line that fills the buffer exactly counts as
read and loses its last byte (`printz.c:137` compares with `>`), and a line longer than the
whole buffer makes the answer empty, so that the reader stops before the end of the
table.  `DbgQueryExact` compares the outcome of every query of up to three phrases, with
comments and each way to be refused among them, with what its words say.  Observations:
`_copy_format` may return without a terminator, and when no message is left the answer is
what the buffer held before (`printz.c:149` takes its length; the reader hands in an
empty one).

## Runs

| Run | Instance | Result |
|---|---|---|
| `PageAlloc_pages` | 2 threads, 2 owners, chunks of 2 pages, 5 pages, `mlock()` may fail | a page is in one place (`PagesExclusive`), pages and references are accounted for (`PagesAccounted`); every call returns (`CallsEnd`); implements `PagePool` (`Refinement`) |
| `Alloc_orders` | `PageAlloc` with 1 thread, 2 owners, blocks of 1, 2 and 4 pages, 5 pages in chunks of 4, references taken to pages the caller does not hold; `Slab` with 2 threads, 2 cpus, 2 classes, 1 page | counts are exact, blocks are whole, nothing is lost (`BlocksSafe`), an allocation fails only when no aligned block is free (`FailsOnlyWhenFull`); every call of `Slab` returns (`SlabCallsEnd`) |
| `Slab_safety` | 2 threads, 2 cpus, 2 pages, 2 classes, a threshold of 2 free elements | elements are in one place (`ElementsSafe`), pages go back whole (`PagesSafe`), counters are exact (`CountsExact`), the cpu read without a lock is right (`CpuNotStale`) |
| `ZtPool_start` | 1 channel, 3 cpus, one offline; every step may fail | the start waits for all (`WaitsForAll`), success means all serve (`UpMeansServing`), no ZT outlives its memory (`MemorySafe`), start and stop return but for the join of `Stuck` (`CallsEnd`) |
| `ZtPool_twochans` | 2 channels of one cpu | **violation** of `WaitsForAll` |
| `ZtPool_hang` | 1 channel, 2 cpus, the opening of a file may fail | **violation** of `StopCleansUp` |
| `Mount` | 2 super blocks, 2 libraries, every step may fail, one signal on any thread at any time; or a tool with a private mount | mounts wait for the pool and leave all or nothing (`MountsSafe`) or, when private, the known rest (`PrivateClean`), libraries are closed as often as they may be and only signals hurt (`SignalsContained`), requests are answered (`Answered`), the process ends but for the hang of `HandlerHangs` (`ProcessEnds`) |
| `ToyfsFile_pages` | 1 thread, all calls, 2 files of 2 pages of 1 byte, 6 pages in the pool | counts cover the references (`RefsCovered`), pages and counters are accounted for (`PoolExact`), references are lost by the copy on write only (`LostByCowOnly`), clones are equal and then independent (`ClonesIndependent`) |
| `ToyfsFile_bytes` | 1 thread, write, fallocate, punch, truncate and clone, 2 files of 2 pages of 2 bytes, 4 pages in the pool | calls change their bytes and no others (`NothingElseChanges`), and what they promised is there (`EffectOnReturn`) |
| `ToyfsFile_race` | 2 threads, 3 files of 1 page; write, truncate, clone | **violation** of `LiveRefcnt` |
| `ToyfsNs` | 2 threads, 3 inodes, 3 names of 1, 2 and 1 slots, pages of 2 slots, 4 pages | `NlinkExact`, `PoolConserved`, `FfreeByRace`, `InodesKept`, `DirConsistent`, `ReaddirRight` hold; implements `NameSpace` (`NameSpaceSpec`) |
| `Requests` | 2 ZTs, 2 inodes, 2 gets, 2 handles of an inode, 3 vectors; buffers of 4 words; up to 3 devices per tier; 4 debug messages of 2 libraries; all files of 4 pages | `CmdCallsSafe`, `CmdGetsBalanced`, `CmdInodesMatch`, `IomSafe`, `MdRight`, `DbgRight`, `LayoutExact` hold |

Several of these properties are conjunctions of parts that the modules define
and comment one by one: `InodesKept`, for instance, of `NoOrphans` and `HandlesSafe`, and
this of `HandlesValid`, `IgetSafe` and `LinkedSurvive`; each part has a mutant.  `Requests` puts five components that share no state side by
side: `part` picks the one that moves, the others stay in an initial state.  `Alloc_orders`
does the same with the two allocators.

Why the bounds are enough.  Five pages in chunks of two make the last growth
fail with a page to spare, the boundary of `PA_SIZE`, and so do five in a chunk
of four for aligned blocks of four.  (Chunks are multiples of the largest block,
as `PA_PAGES_AT_A_TIME` is.)  Two threads produce every pairwise interleaving of a
critical section with an unlocked step.  Blocks are allocated by one thread: with two,
`InHandExclusive` fails (see the proofs).  A reference taken without holding the
page while another thread puts the last one is not in a run: it is covered by
the theorems, which allow it where `mlock()` is off.  Two cpus
make an allocation take from, and a free return to, a foreign slab, and two
classes let one page serve both in turn.  One offline cpu makes the ZT array
sparse.  In `ToyfsFile_pages` two dblkrefs or one iblkref
fill a page, so that an allocation fails at its page, at its dblkref and at its
iblkref, and a clone fails half way; a page there is one byte, as what the run
asks is about whole pages.  `ToyfsFile_bytes` has two bytes per page, which tells a
part of a page from a whole one, and ranges over the boundary.  `MaxRef` bounds the
references of a block when a clone is issued.  The race of
`ToyfsFile_race` needs the truncated file, the source and the target of a clone.

In `ToyfsNs` two slots per page make a name of two slots need an empty page and
let freed slots be used again by other names; three inodes are the root, a
directory and a third in either; four pages run out in every step that takes
one.  `MaxHeld` bounds the handles of an inode when a lookup is issued: two let one
lookup race the eviction that another one's handle ends in.  `ScanDirs` has only
the root read, and a directory is renamed within its directory or into the root.
`XattrInos` has the first inode that is made, of any kind, get attributes.
`MaxFfree` lets a creation fail after `toyfs_alloc_ii` only when `f_ffree` is that low: a
failure costs as many states wherever it happens, and what it does to `f_ffree` is the
same.
In `Mount` two super blocks let a mount fail while another one is up, two
libraries let the loading fail half way.  In `Requests` `Sent` picks one operation that a file system may lack, as all
others are like it; the vectors have every operation, only the required ones, or all but
`free_inode`; `MaxHandles` makes `iget` fail when two handles of an inode are given; four words take a
largest element and one more, not two; lists of up to three device sizes include
ones whose gcd is none of them; four lines of three lengths end a page before,
at and after its end, and one is longer than the smaller buffer; four tokens are exceeded by three phrases; four pages of two
bytes hold every pattern of neighbours, holes and shared blocks that the loops
tell apart.

Symmetry is used for threads, pages, files, ZTs, inodes of `Dispatch` and names of equal length
where no liveness property is checked.  Deadlock checking is off for `Slab` (in `Alloc_orders` too), which stops after `Fini`, for `Mount`,
which stops when the process does, and for `ToyfsNs`, whose kernel may have
nothing left to send once names, inodes and pages are used up.

### Fairness

- `PageAlloc`, `Slab`: a thread inside a call keeps running (weak fairness).  The
  locks are spin locks without a queue, so that a thread gets one is strong
  fairness of the step that takes it.  Nobody has to call.
- `ZtPool`: the control thread and the ZTs keep running.  A wait in the kernel ends
  only if an operation, a signal or a break ends it, and only a break is owed.
- `Mount`: main, the mount thread and the handler keep running, the mount thread
  not while it waits for the kernel, unless a break is due.  No request and no
  signal need ever come.
- `ToyfsFile`, `ToyfsNs`, `Requests`: safety only.

### Findings

1. `zus-core.c:624`: with more than one channel the start does not wait for all
   ZTs, although `wtz.h` says "Wait all arms are released".
2. `fs/toyfs/file.c:822`: a truncate changes the count of a shared block without
   `s_mutex`; a reference is lost and a block is freed while in use, against the
   assertion in `_decref_dblkref`.
3. `zus-core.c:658`: a stop breaks the waits of the ZTs through the file of the first
   one; when that is not open the stop joins a waiting ZT for ever, although "stop
   function will cleanup" (`zus-core.c:572`).

## Proofs

What the runs show on small instances, the theorems show for every value of the
constants that satisfies the assumption of the module (`ConstantsAssumption` and
the like: sets are finite, sizes are positive) and the hypothesis of the theorem.
Each module proves an inductive invariant `IInv`, one lemma per action or group of
actions, and derives the properties from it; TLC was run on every `IInv` first.  The
fairness of a specification is not used.

| Theorem | States | For |
|---|---|---|
| `PageAllocProofs`: `PagesAreExclusive` (`FreePagesNotHeld`, `PagesInHandExclusive`), `PagesAreAccounted` (`TypeCorrect`, `CountsAreReferences`, `NothingLeaks`) | `PagesExclusive`, `PagesAccounted` | `SafeUse` |
| `ImplementsPool` | `Refinement`: `PageAlloc` implements `PagePool` | `SafeUse` |
| `BlocksAreSafe` | `BlocksSafe` | `SafeUse` or `BlockUse` |
| `FailureMeansFull` | `FailsOnlyWhenFull` | `SafeUse`, or `BlockUse` without `mlock()` |
| `SlabProofs`: `SlabElementsSafe`, `SlabPagesSafe`, `SlabCountsExact`, `SlabCpuNotStale` | `ElementsSafe`, `PagesSafe`, `CountsExact`, `CpuNotStale` | everything |
| `SlabMutualExclusion` | no two threads inside one slab's critical sections | everything |
| `ZtPoolProofs`: `ZtMemorySafe` | `MemorySafe` | everything |
| `OneChannelWaits`, `OneChannelServes` | `WaitsForAll`, `UpMeansServing` | one channel |
| `MountProofs`: `MountsAreSafe` (`MountsServed`, `MountBalanced`), `PrivateMountLeaves`, `SignalsAreContained` (`LibrariesClosed`, `SignalsOnly`) | `MountsSafe`, `PrivateClean`, `SignalsContained` | everything |
| `DispatchProofs`: `DispatchCallsSafe` (`DispatchUsesLive`, `DispatchCallsPresent`), `DispatchGetsBalanced`, `DispatchHandlesMatch` | `CmdCallsSafe`, `CmdGetsBalanced`, `CmdInodesMatch` | everything |
| `ToyfsFileProofs`: `FileRefsCovered`, `FilePoolExact`, `FileClonesIndependent` | `RefsCovered`, `PoolExact`, `ClonesIndependent` | `TruncUse` |
| `ToyfsFileProofs`: `FileEffectOnReturn`, `FileNothingElseChanges` | `EffectOnReturn`, `NothingElseChanges` | `ByteUse` |
| `ToyfsNsProofs`: `InodesAreKept` (`HandlesAreSafe`, `NoOrphansLeft`), `NlinkIsExact`, `PoolIsConserved`, `FfreeOnlyByRace`, `DirsAreConsistent`, `ReaddirIsRight` | `InodesKept`, `NlinkExact`, `PoolConserved`, `FfreeByRace`, `DirConsistent`, `ReaddirRight` | everything |
| `NsRefines` | `NameSpaceSpec`: `ToyfsNs` implements `NameSpace` | everything |

### The page allocator

`SafeUse` says that callers ask for single pages, as all in the repository do (a
block allocation looks at the counts of neighbouring pages, `pa.c:286`, and takes one
that another thread is still freeing: with blocks of two pages and two threads TLC
finds `InHandExclusive` violated after seven steps), and that `pa_get_page` on pages the
caller does not hold is not combined with `mlock()`: between `AllocScan` and
`AllocRelist` the count of a page is 1 although nobody owns it, so that such a get
would succeed on a page that goes back to the list.  `BlockUse` is what larger
blocks need instead: one thread, the same rule for `pa_get_page`, and block sizes
that divide a chunk, as powers of two divide `PA_PAGES_AT_A_TIME` (32768).  A failed
`mlock()` leaves counts of 1 on listed pages, over which no block is found any
more; this is why `FailureMeansFull` has blocks without `mlock()`.

None of the invariants is inductive by itself.  That the last put may list its
page depends on the count being the number of owners; that the count is exact
depends on no page being handed out while a thread still carries it to the list;
and that depends on no two threads carrying the same page.  `IInv` is the
conjunction of `PageInv` (listed and owned pages and their counts), `HandInv` (the
page a thread carries is neither listed nor owned, and its count is 1 while
being locked in memory and 0 while being freed), `HandsApart`, `Accounted` (every
initialised page is somewhere) and `OwnedAllocated`, which the refinement needs.
For the refinement, `Put` and the step of an allocation that hands the page out are
steps of the pool, `Get` is one because `IInv` says that a positive count belongs to
an owned page, and all other steps stutter.  `BlockInv` has `BlockHand` in place of
`HandInv`: all pages of the block a thread carries are its own.

### The slab allocator

`ElementsSafe` and `CountsExact` need each other: a page goes back when its use
count says so, and that is right only if the count is the number of its elements
that are out; the count stays right only if no element is freed twice.  `MemInv`
ties lists, use counts and elements in use together (a free element is on the list
its page names, one that is out is one its page is cut into); `OneHolder` says that
an element that is out is in one pair of hands, `ClassKept` and `CpuNotStale` that what
`zus_free` read without the lock is still true when it has it, and `LockHeld`, `RoundBounded`
and `FreeCursor` where the threads are.  The page of an element that is in somebody's
hands cannot go back, and so keeps its class and its cpu: this is why the unlocked
read is safe.

### The ZT pool

`Phase` and `Cursor` say which channels and ZTs the loops of start and stop have come
to, `Threads` that what runs has memory, `Counted` that the wait-til-zero count is the
number of ZTs still to report until a stop begins, and `Alive` that no ZT ends before
without an error.  `MemorySafe` follows for any number of channels.  The other two
theorems need one channel: `OneZero` says that the count then reaches zero once, when
all are through.  With two channels it may reach zero between them, and the run
`ZtPool_twochans` shows that the start goes on too early.  How many channels there
are is what the kernel asks for (`zus-core.c:746`).

### Mounts

`IInv` adds to the properties where the threads may be: `Fresh` (nothing is mounted before
the mount thread exists), `Starting` and `ServedUp` (the pool is started by the mount
thread, which serves a mount with the pool up), `QuietEnd` (without a signal the mount
thread, its libraries and the process go in this order), `Ends` (who has closed the
libraries, and who may still do so, with a signal or without), `SbWhole` and `PrivHeld` (a
mount, a private one too, holds what its steps so far took).

### Dispatch

The assumptions are that vectors have the seven operations no handler looks for, and the
kernel of the model.  `Known` says that the kernel has a handle of every inode that a command uses or that has a
get or a put, but for the puts that ride on the eviction of the last handle.  `CmdGetsBalanced` and `CmdInodesMatch` are inductive with it: a command counts for
`RideW` gets and `CarryW` handles on their way, and each action moves a weight of one from
the file system to a command, from there to the kernel, or back.  That a use finds a handle
(`DispatchUsesLive`) follows, as an inode with gets or commands has one.  A handle of a
file system without evict is never taken back, so that only one half of
`CmdInodesMatch` holds for it.

### File data of toyfs

`TruncUse` asks for one thread where truncate is among the calls; without truncate
there may be any number.  The hypothesis is needed: the run `ToyfsFile_race` has a
truncate and a clone of two threads lose a reference.

`DataOk` is about the data alone: blocks and counts are well formed (`PoolOk`), the
count of a block covers the references of the files (`Covered`), and `i_blocks`
counts the pages of a file (`Counted`).  It is kept by the operators the calls are
made of (`SetBlk`, `Decref`, `Require`, `NewDblkref`, ...), each with a lemma of its own
that says how it changes pages, counts and the number of references; the lemmas
about actions only put these together.  What a call needs to know of its earlier
steps is in `CallOk`: the pages a collapse has passed are holes (otherwise moving the
tail down would drop blocks without giving them back), a clone of a file has shared
what it has passed and the rest is a hole (from which `CloneEqual` follows), and a
truncate holds a copy that no file refers to yet.  `Apart` and `LockedByClone` say why
the steps of other calls do not disturb this.  For `CowIsolated`, a block that two
pages refer to has a count above 1 by `Covered`, so that a write copies it first.

The two properties of bytes need `BytesInv` on top.  It says of a call in progress where
its cursor is (`CursorOk`), that every byte of the range before the cursor already reads
as the call leaves it (`Landed`), and that a truncate has dropped the pages above the new
end (`TailDropped`).  The argument is about the block a step writes: by `OnlyRef` it is in
no other page of any file, since it is either new or has a count of 1, and the count
covers the references; a step that changes a shared block, as punch does, only writes
zeros.  `ByteUse` asks for one thread, or that no call works in place: `ZERO_RANGE`,
punch and stores through a mapping change the block of every file that shares it, also
under the write of another thread, and then what that write left is not there when it
returns.

### Names and inodes of toyfs

`NsAssumption` and `DirAssumption` are all that is asked: a page has at least one slot
and a name fits into one, the root has the smallest inode number, a readdir buffer takes
"." and "..".  The sets of threads, inodes and names need not be finite.

`ToyfsDirProofs` is about the pages of one directory.  `DirOk` says that the slots after
a dirent hold the rest of its name, that no other slot does, and that no name is there
twice.  From it follow the facts the rest uses: a walk over a page comes to every dirent
and to every free slot (`Visited`, by showing that the set of those slots is closed and
that every closed set has them), so that a lookup finds exactly the names that are there;
the slots that `_search_free` returns are free, also where names of several slots
fragment a page, so that `SetDirent` adds one place and `ResetDirent` removes one, with
`DirOk` kept and all other dirents where they were; and offsets order the places, so that
what `_iterate_dir` emits is all there is between the position it starts from and the one
it returns (`Emits`).

`ToyfsNsProofs` has the inductive invariant `IInv`, in parts that need each other:

- `TreeInv`: each inode is right on its own (`NodeOk`), links lead to live inodes, never
  to the root and never from a directory to itself, one link at most leads to a
  directory, and link counts are exact (`NlinkOk`).  The removal of an empty directory
  sets its count to 0 (`ForceFree`): right only because the one link to it was the one
  that went, which is `OneParent`.
- `PoolOk`: `Balanced`, the equation of `PoolConserved` with the number of pages of inodes
  as a witness instead of a division, and the finiteness of what is counted.  The pages
  owned are a set of pairs of owner and number, so that one lemma (`PagesOfChange`) says
  how their number changes with one inode.
- `FreshOk`: numbers from `s_top_ino` on were never used, so that a new inode has no link,
  handle or entry in the table.
- `OpsOk`: a creation in progress has its directory, whose name is still free, and the
  only handle of an inode without links; a lookup in progress has an inode that its
  directory links to.  This is why `toyfs_iget` is safe although it finds the inode_ref
  before it locks: a link cannot go while the kernel holds the directory for the lookup,
  and while there is one an eviction leaves the inode in the table.
- `HandlesOk`, `OrphansOk`, `RootOk`, `TypesOk`: the references are the handles, named
  inodes are in the table, inodes without handle have a link.
- `ScanOk`: what a reader must still see is at its position or behind it, what it saw is
  before it; dirents never move (`Stays`), so that changes of the directory keep this.

The operators have a lemma each that says what they do to inodes, links and pages
(`AddKeeps`, `DropKeeps`, `MoveTree`, `PutKeeps`, `PoolLinks`, `PoolFree`, ...).  Actions come in
groups that disturb the same parts: those that change a link (`LinkStepKeeps`), those
that change none (`QuietKeeps`), those that give or drop a handle (`GivenKeeps`,
`DroppedKeeps`) and the reader's (`ReaderKeeps`).  The lemma of an action also says what it
does to the links (`NameStep`), from which the refinement of `NameSpace` follows.

The properties are proved as the runs check them, so what they leave out is left out
here too: `lost` counts the pages of symlinks of 32 bytes, `NoOrphans` is not about
directories, `f_ffree` is exact up to the stores that `FfreeByRace` names, and a creation is
that of toyfs's own contract, not the one that the dispatcher sees through the int of
`zus.h:162`.

### Only model-checked

- Liveness (`CallsEnd`, `SlabCallsEnd`, `Answered`, `ProcessEnds`): fairness is out of the prover's reach.
- `LostByCowOnly`.
- What recursion over data computes: the decoding of an io-map (`IomSafe`), gcd, map and
  tables of `MdTable` (`MdRight`), the tokens of `Ddbg` (`DbgRight`), the
  loops of `ToyfsMap` (`LayoutExact`).

## Not modelled

- Threads and topology: thread attributes, cpu masks and numa maps are set up once
  and have no protocol of their own.  Utilities print.
- `mkfs` writes one super block; the non-temporal copies are vendored instruction
  sequences; packaging and build files.
- `foofs` is an example without storage, and written for an earlier interface: like
  the io-map code in toyfs's `mmap.c` it calls `_zus_iom_start` with three arguments.
- In `toyfs`: the bytes of extended attributes;
  `O_TMPFILE`; the eviction of the root; calls on a half made inode info.
- In `slab.c` memory of the libc fallback: `zus_realloc` asks for the element size
  of a page that does not exist (`slab.c:558`), `zus_alloc_page` turns it into a page
  (`slab.c:572`).
- The formatting and wording of messages, and the layout of single operations in
  `zus-vfs.c` apart from what they do to inodes, names and gets.
- Signals that print or abort.  Info signals are installed without `SA_RESTART`, so
  that one can end the receive of the mount thread with an error; `RecvErr` covers
  this.

## Plan

What could be added:

1. The bounds of the io-map (part of `IomSafe`) and `MdTablesRight` of `MdTable`, for which
   their loops would have to be stated without recursion, as those of `ToyfsDir` are.
2. The bytes of extended attributes; `zus_realloc` and the libc fallback in `Slab`.
