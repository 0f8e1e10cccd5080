# ToyDB in TLA+

A verification project for ToyDB (`src/ToyDB`), a small database kernel in C: a
layer of paged files with a buffer pool (`pflayer`), a record manager on slotted
pages (`rmlayer`), and a B+ tree access method (`amlayer`). The modules here are
translated from that code; TLC checks them on small instances and TLAPS proves
the properties of the two lower layers and of the hash table that matter most for
every size of them, among them that the buffer pool and the hash table implement their
abstract specifications.

## 1. The system

One process, one thread: the layers are libraries a test program calls. What is
hard about the code is not concurrency but *long sequences of calls*: shared
state (one buffer pool under every open file), state that outlives a call (pins,
scans, `PFerrno`, the stack of the access method), calls that fail half-way, and
a file format spread over memory and disk until the file is closed.

| component | state | operations | interacts with |
|---|---|---|---|
| paged files, `pf.c` | table of open files `PFftab` with a copy of each header; `PFerrno` | create, destroy, open, close; first/next/this page; alloc, dispose, unfix, mark dirty | calls the buffer manager, which calls back `PFreadfcn`/`PFwritefcn`; the client writes through pointers into frames |
| buffer manager, `buf.c` | frames, the list in order of use, the free list, count of frames | get, alloc, unfix, used, mark dirty, release file | hash table; reads and writes pages by the callbacks |
| page hash table, `hash.c` | 20 chains of entries | find, insert, delete | `buf.c` |
| record manager, `rm.c` | none of its own: slotted pages in a paged file, scan handles its clients keep | create, destroy, open, close; insert, delete, get; open scan, next record, close scan | paged files, and `PFerrno` |
| access method, `am*.c` | leaf and inner pages, the stack of the path, the scan table | create, destroy index; insert, delete entry; open scan, next entry, close scan | paged files |
| statistics, printing, wrappers, tests, plots | counters | – | – |

What makes each correct:

- *hash.c*: the chains are the map from pages to frames that `buf.c` takes them for
  (`HashTable`), whatever pages share a bucket; no link leads to a freed entry.
- *pf.c and buf.c*: a client sees files of pages, whatever is buffered, evicted,
  flushed or reused (`PagedFile`); no frame is lost; the hash table, the list and
  the frames agree; pinned pages stay where they are; the chain of free pages
  goes once through every free page; a clean frame equals the disk; what was
  saved survives the end of the process; loops end.
- *rm.c*: a RID names its record until it is deleted (`RecordFile`); records and
  directory never overlap; a scan skips nothing and holds its page.
- *am\*.c*: a search finds exactly the entries inserted and not deleted; every
  leaf is reached by the chain of leaves in key order; pages and pins are given
  back; a scan tells each record its comparison asks for once, in order, and ends,
  though its client deletes what it is told (`IndexScans`).

The hazards, each at its line, are in `PROJECT.json`.

## 2. The modules

| module | what it is |
|---|---|
| `PFTypes` | constants, error codes and types of `pf.h` and `pftypes.h` |
| `PFBuf` | `buf.c` as operators: each returns the set of outcomes (`[buf, disk, err]`) a routine can have |
| `PF` | `pf.c`: the variables, an action per routine, `PFSpec`, `PFFairSpec`, `PFCrashSpec` |
| `PagedFile` | abstract specification of the layer: a partial map from page numbers to contents, pins, and the capacity of the pool |
| `PFProps` | the properties of the layer and the refinement mapping to `PagedFile` |
| `PFProofs` | what each routine of `buf.c` keeps of the pool, and what each kind of step does to a page; the inductive invariants of the pool, and of pool and disk |
| `PFRefinementProofs` | the view of a file; the chain of free pages; the proof that `PF` implements `PagedFile` |
| `HashTable` | abstract specification of the hash table: a partial map from pages to frames, as `PFBuf` uses it |
| `PFHash` | `hash.c`: the chains with every pointer, a step per turn of a walk; its properties and the mapping to `HashTable` |
| `PFHashProofs` | the inductive invariant of the chains, and the proof of the refinement |
| `RMPage` | the slotted page: store, erase, free space, soundness |
| `RM` | `rm.c`: an action per routine, over the paged-file layer as a client knows it |
| `RecordFile` | abstract specification: a partial map from RIDs to records |
| `RMProps` | the properties of the record manager and the mapping to `RecordFile` |
| `RMProofs` | storing and erasing a record keep a page sound; the inductive invariants of the record manager and its scans; where insertions take a slot of their own, and the proof that `RM` then implements `RecordFile` |
| `AMLeaf` | a leaf of the B+ tree: `aminsert.c`, the searches of `amsearch.c`, the deletion inside a leaf |
| `AM` | `am.c`, `amfns.c`, `amsearch.c`, `amstack.c`: the tree, an action per routine, over the paged-file layer as a client knows it |
| `Index` | abstract specification: a bag of entries (value, record id) |
| `AMProps` | the properties of the access method and the mapping to `Index` |
| `AMLeafProofs` | lemmas: the binary search finds a value's place; what inserting, deleting, compacting and splitting keep of a leaf; the record ids a leaf has for each value, and what each routine makes of them |
| `AMProofs` | searches come to a leaf; the inductive invariant of the tree and its theorems |
| `AMOrderProofs` | the range of values of each page; the chain of leaves, what searches find, and the proof that `AM` implements `Index` |
| `AMScan` | `amscan.c`: an action per routine over the tree of `AM`, and what its clients do between the calls |
| `IndexScans` | abstract specification: a set of records and what each scan has still to tell of it |
| `AMScanProps` | the properties of the scans and the mapping to `IndexScans` |
| `AMScanProofs` | where each scan is in the order of the leaves; what is ahead of it is what it owes, and the proof that `AMScan` implements `IndexScans` |
| `MCPF`, `MCPFHash`, `MCRM`, `MCAM`, `MCAMScan` | constants and views for TLC |

`PF` uses `PFBuf` and `PFTypes`; `RM` uses `RMPage`; `AM` uses `AMLeaf`;
`AMScan` extends `AMProps`, and its states are those of the tree with the table of
scans. `PFBuf` has the hash table as the map `HashTable` states, which `PFHash` is
proved to implement. The upper
layers do not compose with `PF` itself but with what `PagedFile` says of it, which
`PF` is proved to implement: contents stay, a fixed page cannot be got again, at
most `PF_MAX_BUFS` pages are fixed.

### 2.1 Paged files (`PFBuf`, `PF`)

`buf.frame` are the `PFbpage` structures, `buf.list` the doubly linked list from
`PFfirstbpage` to `PFlastbpage`, `buf.free` the free list (it shares the link
field `nextpage` in the code; `FramesAccountedFor` says no frame is on both),
`buf.num` the count of frames made by `malloc`, `buf.hash` the hash table as the
map it stands for. `PFftab` is the table of open files; an entry's Unix
descriptor is the name it was opened with. `disk` is what the file system holds.
`touched` is history: the frames the client wrote to and has not declared dirty.

A call is one step, as there is one thread and no call is interrupted, except by
the end of the process. The calls that loop over pages, `PF_GetNextPage` and
`PF_CloseFile`, take a step per turn, with the loop's position in `call`: this is
what `CallsReturn` and `LoopsAreSound` are about, and it lets `Restart` fall
between the writes of a flush.

Every system call may fail, as `Faults` allows: a read, a write, or `malloc`
(for a frame, a hash entry or a file name). A write that
fails leaves the page on disk as it was; one that falls short (`PFE_INCOMPLETEWRITE`)
has written the link, with which a page begins, and some of the contents, which are then
`Junk`. A write that ends within the link, or within a file's header, is not modelled.

*The client* is any program, in any order and with any arguments
(`Undisciplined = TRUE`), or one that keeps the two rules of `IMP.DOC`: a file
open twice is only read, and a change to a page is declared when it is unfixed.
Properties of the pool hold for both, properties of contents need the rules. The runs
have disciplined clients, as each checks some property of contents:
`RestartKeepsSavedFiles`, for one, fails for a client that changes a page and unfixes it
as clean. That the pool's properties hold for any client is proved (section 4.1).

What is folded away: failures of `close(2)` and `lseek`, the counters, the
out-of-range descriptor (it answers as a closed one does), and page number `-2`
as `PF_GetThisPage`'s argument (the check rejects all negative ones alike).
After a restart a chain of free pages may be damaged (see `hazards`); following
it, the code would index its hash table with -2: the model takes the page for
not found there.

### 2.2 The page hash table (`PFHash`)

`PFhashtbl` is the array of heads, `heap` the entries `malloc` gave and `free` did not
take back, each with its two links; a freed entry has no value, so that reading one
would be an error of TLC. All three routines begin with the same walk (`PFhashInsert`
and `PFhashDelete` call or repeat `PFhashFind`'s loop): `Begin` places the pointer
`entry` at the head of the page's bucket, `Walk` is a turn of the loop, and
`PFhashFind`, `PFhashInsert` and `PFhashDelete` are what each does from where the
walk ends. `malloc` may fail for an entry at any time. `length` and `depth` are
auxiliary (no guard reads them): how far each entry is from the end of its chain,
which the proofs need in order to say that no chain goes round.
`PFhashPrint` only prints and is left out; so are negative descriptors and page
numbers, for which C's `%` is negative (`PF` shows where the code could come to one).

### 2.3 Record manager (`RMPage`, `RM`)

A page is its header fields, its slots and its bytes; storing a record writes the
entry of its slot over whatever bytes it falls on, so that an overlap of
directory and data shows. Bytes are members of `Datum`.

`rm.c` uses the layer below through `PF_GetNextPage`, `PF_GetThisPage`,
`PF_AllocPage` and `PF_UnfixPage`. `RM` has of that layer what `PagedFile`
promises (contents stay; a pinned page cannot be got again; at most `PF_MAX_BUFS`
are pinned) and `PFerrno`, which is set by failures and never cleared:
`RM_InsertRecord` reads it after a call that succeeded. No page of a record file
is ever disposed of, so every page is in use.

Modelled: one file, opened once at a time, scans by any number of handles
interleaved with every other call. The loop of `RM_InsertRecord` is one step
(nothing can come between its turns); `RM_GetNextRecord` takes a step per turn.
`NewProcess` starts a process with a fresh `PFerrno` on a file that was closed.
Clients insert records that fit an empty page.

### 2.4 Access method (`AMLeaf`, `AM`)

A leaf has its array of keys, each with the head of a list of record ids, which
lie in cells taken from the end of the page; a free list takes up the cells of
deleted ids. `AMLeaf` has the lists as links from cell to cell, as the page has
them, so that a list that runs into another one shows; a cell's address is its
number, and only the bytes between keys and cells are counted (`Gap`). Values are
integers: `AM_Compare` is their order, for each of the three types.

`AM` has the tree as the file's pages, `stack` as `amstack.c` keeps it (entries
beneath included, which failed calls left there), `pinned` as the pins that calls
leave behind, and `others` as the pages of other files that are fixed in the same
pool: they decide whether a call finds a buffer. A call is a step, but for
`AM_InsertEntry`: after the split of a leaf, each `AM_AddtoParent` is a step, with
its arguments in `call`. In between a page exists which no inner node knows.

The error paths are the code's own, pins included: a split that fails for want of a
buffer leaves its pages fixed (`NoNewLeaf`, `NoNewRoot`, `AddFails`); a search with
the wrong attribute length leaves the root fixed; `AM_DeleteEntry` leaves its leaf
fixed and the stack as it is when it finds nothing (`amfns.c:180`, `:216`, though
`:239` empties the stack "so that it is set for next amlayer call"), after which
every call on that leaf fails with `AME_PF` and the index cannot be closed.
`Careful = TRUE` leaves such calls out, as `NothingLeftBehind` needs.

What is folded away: the checks of `attrType`, of a NULL value and of a negative
descriptor, which return at once; failed reads and writes, which `PF` has, so that a
call of that layer fails here only for want of a buffer or because the page is
fixed. Two calls of it cannot fail for that either and have no branch: getting the
parent, which the search has just had, and the new inner node below the root, for
which there is a buffer if there was one for the new page below it.
`AM_LeftPageNum` is set by each scan before it is used, to page 2 unless the root is
a leaf: `ChainIsWhole` starts there. `numKeys` of a leaf may be 1 when it splits;
the left half is then empty, and stays so until a key comes that belongs there.

### 2.5 Scans of an index (`AMScan`)

`scan` is `AM_scanTable`. A scan keeps no page fixed between its calls: it remembers a
page number, an index in the page, a cell and a value, and finds its place again by
them, so what happens to the leaves in between is what the module is about.

A call is a step. `Opened` is the switch on the operator in `AM_OpenIndexScan`, with
the page it gets beside the leaf the search has left fixed (`SecondPage`); the calls
that fail leave pages fixed and an entry of the table that is never free again, each
as an alternative (`OpenBetween`, `OpenStarves`, `OpenInvalid`). `AM_FindNextEntry` goes through
its stages in order: the leaf with entries the place leads to (`Reached`), the test for
the last page (`Overshot`), the value `NOT_EQUAL` leaves out (`LeftOut`), the place after a
deletion (`Settled`), the place of the next record (`Advanced`), the end (`Ended`).

`behind` is what a deletion has left in the bytes behind the last key of a leaf, since
`Settled` compares the value there. What a scan reads that is no entry (`Astray`), a
place it was never given (`Unplaced`, see the differences below) included, is one
value, `Scrap`, and its client can only close the scan. `indexed` and `owed` are
history: the records in the leaves, and of each scan those it has still to tell.

Its clients keep the rule the code provides for: while they hold a scan nothing is
inserted, and nothing deleted but the record the scan has just told, by the client of
the only scan (`DeleteTold`). They fix pages of other files between the calls, up to
all buffers, and unfix them before they close the scan (`OtherPages`); they do not
update an index of which a failed call has left a page fixed; and they do not search
for a value between two leaves where the leaf after the next is fixed already, which
`OpenBetween` would unfix for them.

What is folded away: an `attrLength` that is not the index's (`AM` has it for the
searches), the checks of `attrType` and of a negative descriptor, and what a free entry
of the table still holds, which only `NOT_EQUAL` reads (as `Unplaced`).

## 3. The runs

`expect: pass`:

| run | bounds | question |
|---|---|---|
| `MCPF_buffers` | 1 file, 3 pages, 2 buffers, LRU and MRU, fair | is the chain of free pages sound through alloc, dispose, evict, flush, reopen; does the pool hold pages of the file only; does each call do what `PagedFile` says; do the loops end? |
| `MCPF_faults` | 2 files, 2 descriptors, 1 page each, 1 buffer, all faults | does a call that fails do what `PagedFile` says of it, lose no frame and move no pinned page, while two files evict each other's pages; can a clean frame be dropped? |
| `MCPF_crash` | 1 file, 2 descriptors, 2 pages of two contents, 2 buffers, LRU, restarts | what survives the end of the process at any moment, also in the middle of a close; do the hash table and the list agree throughout? |
| `MCPF_hash` | 2 buckets, 3 entries, 6 pages, 2 frames, fair | do the chains stay whole and each call find its page's entry (`HashTable`), when pages share a bucket and `malloc` fails; do the walks end? |
| `MCRM_lengths` | 1 page of 8 bytes, records of 0, 1 and 2, two contents | do directory and records ever meet; does a RID keep its record while others move, come and go (`RecordFile`)? |
| `MCRM_scans` | 2 scans, 2 buffers, 2 pages of two 1-byte records, fair | do scans skip, hold their pages, return live records, and end? |
| `MCAM_tree` | 7 values, 2 keys in a leaf and in an inner node, 12 pages | is the tree whole through every kind of split? |
| `MCAM_fails` | 5 values, 7 pages, 1 page of others, careless clients | do calls that fail half-way lose an entry or hide one from a search? |
| `MCAM_scans` | 5 records under 4 values, 3 keys in a leaf, 6 pages, 3 buffers of which others may have all, 1 scan, every operator and value | does a scan tell each record once and in order, and end (`IndexScans`), in every tree and with what it told deleted between the calls; are the lists of a leaf sound through compaction and splits? |

Why the bounds are enough: eviction, write-back, the second strategy and the
order of the list need two buffers and three pages; one buffer makes every get an
eviction. A chain of free pages shows its order, a middle and an end with three.
Two descriptors and two files are what the table and the pool can confuse. On a
slotted page three records make one before, one at and one behind the deleted
one; two pages make an earlier one and a later one. Seven values on leaves of two
make a tree of three levels, in which an inner node below the root is split and the
root is split twice; keys come in any order. Two ids in a list make a head and
another one, and deleting either leaves free cells that lie in any order.
Two buckets and three entries make a chain with a head, a middle and an end, and pages
of either file in each bucket.
Five records under four values, one value with two, make a leaf of three keys, lists
of one and of two, a compaction, and three leaves, so that a scan comes to a leaf from
one before it and to empty leaves at either end and in the middle. One scan is enough:
scans share no state but the table's free entries, and `AME_SCAN_TAB_FULL` answers the
second; a deletion happens under a scan only if it is alone (clients' rule above).

Views: the configurations name a `VIEW` that leaves out what no later step reads
(`ret`, `PFerrno` in `PF`, data of frames never read again, bytes behind the last
record, which cells of a leaf the lists use while no scan refers to one, the fields
of a scan's handle its operator does not read). Action properties are checked on every
step TLC takes, also on one to a state it knows; the invariants of a run that has a
view read only what the view shows.

`expect: violation`, each a disagreement between code and documentation, listed
under `findings`:

- `MCRM_stale`: an insertion overwrites another record's slot;
- `MCRM_close`: a `PFerrno` left at end-of-file makes an insertion allocate a page
  and leave the one it had found pinned, after which the file cannot be closed
  (the `student_slotted.db` in the repository shows it: a page for every record,
  and a header that was never written);
- `MCAM_lost`: a key whose list takes more than half a leaf splits away from its
  neighbours and still has no room: the entry is dropped and the call returns
  `AME_OK`. The passing runs bound the records of a key (`MaxPerKey`).

Of scans for `LESS_THAN`, `LESS_THAN_EQUAL` and `NOT_EQUAL` `MCAM_scans` does not check which
records they tell, only that they tell none twice and that those for `LESS_THAN` end; the other two
may not (`ScansMoveOn`, whose `Endless` names them: without either the run finds it violated).
What those scans do wrong is listed below. The passing runs of `RM` choose constants under which what follows does not
occur, and each shows it when its constant is changed: records of one length, or a
single page, where `RecordFile` is checked (a page with an empty slot then has room,
or there is no earlier page: see `MCRM_stale`); RIDs wide enough for the file
(`MCRM_scans` with `RIDPages = 1` has two records under one RID, as the code has
from page 65536 on); clients that close a scan that failed (`MCRM_scans` with
`RetriesScans = TRUE`: called again after the end or an error, a scan unfixes the
page of another one; called again after `RME_BUFTOOSMALL` it goes past the record).

More differences between code and words that are not runs:

- `PFbufUsed` does not "make this page most recently used" (`IMP.DOC:404`); it sets
  the dirty bit only, and the page moves to the head of the list when it is unfixed.
- `PF_AllocPage` does not give "a new, empty page" (`pf.c:437`): the `bzero` at
  `pf.c:490-494` is commented out, and the page has what its frame held before. The
  models leave its contents open, and no caller relies on them.
- `RME_BUFTOOSMALL` (`rm.h:40`) need not mean a buffer too small: `RM_GetRecord`
  passes on `PFE_PAGEFIXED` of the layer below, and both are -3 (`PFE_NOMEM` and
  `RME_EOF` are both -1, `PFE_PAGENOTINBUF` and `RME_INVALIDRID` both -4).
- `AM_OpenIndexScan` (`amscan.c:113-124`), where the value it looks for lies behind
  the last key of a leaf that has a successor, unfixes the page after that successor:
  it has overwritten the header it takes the number from (the comment at `:119` has
  another page in mind). The call fails with `AME_PF`, for every operator but `ALL`;
  the leaf and its successor stay fixed, and the entry of the scan table, which
  `amscan.c:74` has marked, is lost (`OpenBetween`).
- "the next record that satisfies the conditions specified for index scan"
  (`amscan.c:279-280`) is so for `ALL`, `EQUAL`, `GREATER_THAN` and `GREATER_THAN_EQUAL` (`ImplementsIndexScans`). A scan for
  `LESS_THAN` or `LESS_THAN_EQUAL` compares page numbers for order (`:349`, `Overshot`) and stops
  on equality of page and index (`Ended`). It returns too few records where nothing in its last leaf
  qualifies and an earlier leaf has no smaller page number; too many where the last
  record that qualifies is the only entry of the first
  leaf that has any; and for the greatest value
  of all, `LESS_THAN_EQUAL` sets `LAST` (`:461`) over the `OVER` of `:431`, so that the next call
  reads a record at entry 0, which is none, and the client's loop does not see `AME_EOF`.
- `NOT_EQUAL` leaves its value out only where the place is moved onto it (`IsLeftOut`), not
  if the place comes to it by `Advanced`; if the value is the last of its leaf, the step to the next
  leaf is taken for a deletion (`:397`), the place becomes entry 0 of that leaf, and what is read there
  is no record; and for a value the index does not have, `AM_OpenIndexScan`
  sets no place at all: the scan goes on from where an earlier one that had the same
  entry of the table ended.
- An operator that is none returns `AME_INVALID_OP_TO_SCAN` (`:267-270`) with the leaf
  still fixed.
- `AM_OpenIndexScan` pushes the path on the stack and never empties it, as the comment
  at `amfns.c:239` asks of a call; the next insertion or deletion finds it beneath its own.

*Fairness*: `WF` of the loops' turns, in `PFFairSpec`, `PFHashFairSpec` and
`RMFairSpec`. The
program is one thread and a call that has begun runs on. Nothing is assumed of
the client: it need never make another call.

*Deadlock* is checked in every run: some call is always possible.

## 4. The proofs

### 4.1 Paged files

Everything here is for any number of descriptors, buffers, pages, file names and
contents and any faults, from the constants' assumptions (`PFAssumption`,
`UndisciplinedAssumption`). Where it says *disciplined* the theorem has the hypothesis
`~Undisciplined`, the rules of `IMP.DOC` (section 2.1); the others are about any client.

| theorem | states | client | specification |
|---|---|---|---|
| `TypeCorrect`, `NoFrameIsLost`, `PoolIsConsistent`, `ClosedFilesLeaveThePool` | `PFTypeOK`, `FramesAccountedFor`, `HashListAgree`, `BufferedPagesOfOpenFiles` | any | `PFSpec`, `PFCrashSpec` |
| `LoopsStaySound` | `LoopsAreSound` | any | `PFSpec` |
| `PinsAreKept` | the action property `PinnedPagesStay` | any | `PFSpec` |
| `HeadersNeverLead` | `HeaderCoversPages` | any | both |
| `OnlyUsedPagesArePinned` | `PinnedPagesAreUsed` | any | both |
| `CleanPagesAreSaved` | `CleanMatchesDisk` | disciplined | both |
| `SavedFilesSurvive` | the action property `RestartKeepsSavedFiles` | disciplined | `PFCrashSpec` |
| `BufferedPagesAreInFile` | `BufferedPagesInFile` | disciplined | `PFSpec` |
| `FreeChainStaysSound` | `FreeChainSound` | disciplined | `PFSpec` |
| `PoolImplementsPagedFile` | `ImplementsPagedFile` | disciplined | `PFSpec` |

The argument has four stages, each an inductive invariant on top of the last.

*The pool* (`PFProofs`). `PFInv` is the conjunction of the four invariants with two more.
`FixedAreListed` (only listed frames are fixed) is what lets an unlinked frame be
taken for unfixed. `LoopsAreSound` says how far the loop of `PF_CloseFile` has
come: the frames it has passed hold no page of the file. Without it
`BufferedPagesOfOpenFiles` is not inductive, as the step that clears the
descriptor needs it to know that the flush left nothing behind.

`PFProofs` states the pool's part as `BufOK` and proves it of each routine of
`buf.c` in turn: what unlinking and linking at the head do to the elements of a
list (`UnlinkElements`, `LinkHeadElements`), then eviction (`EvictPool`), the
choice of a frame (`InternalAllocOK`), and the routines (`GetOK`, `AllocOK`,
`UnfixOK`, `ReleaseOK`), each for every outcome it can have. It has one
lemma per action on top (`GetThisPageStep`, `AllocPageStep`, ...), and `NextInv`
splits `PFNext` over them. Each lemma also says that the pins of other pages are
kept (`PinsKept`), from which `PinsAreKept` follows.

*The disk*. From here on, still in `PFProofs`, the list and the free list are out of sight: a
page is `Held` or not and is `PageAt` if it is, and the lemmas say of a routine which
pages stay as they are, which leave the pool (`Flow`: unchanged on disk, or written there
before they left), and what became of the one it was called for. On this every action
is one of a dozen *kinds* (`Still`, `Moved`, `Got`, `Recycled`, `Extended`, `Freed`, `Unpinned`,
`Marked`, `Wrote`, `Created`, `Destroyed`, `Loaded`, `Closed`); `StepShapes` proves it, and
the invariants are proved of the kinds.
`HeaderCoversPages` is inductive with `NewPagesAreDirty`: a page counted by a header
in memory that is not on disk yet is dirty in the pool under that descriptor, so the
flush of `PF_CloseFile` writes it before the header goes out. The two make `DiskInv` with
what a missing file holds and what a fixed page and a touched frame are. A client that
keeps the rules adds `ShareInv`: descriptors that share a file have nothing unsaved
between them, and what is neither dirty nor touched equals the disk.

*The view* (`PFRefinementProofs`). A file as its readers see it, header and pages, is the
same through whichever descriptor it is taken (`ViewOpen`), by `ShareInv`. Evicting,
reading in, flushing, opening and closing leave every view alone (`ViewSame`); the calls
that change a file change the header and one page of it (`ViewTakes`, `ViewGrows`, `ViewFrees`,
`ViewWrites`, `ViewEmpties`; `StepViews` proves that there are no other steps).
`SizeInv` (nothing in the pool or on disk lies beyond what the header counts) gives
`BufferedPagesInFile` and is what makes the page `PF_AllocPage` adds new. `ChainInv` says of a view that some sequence without
repetition begins at `firstfree`, follows the links, ends, and has just the free
pages: taking the head (`ChainPop`) and putting a page in front (`ChainPush`) keep it.

*The refinement*. One lemma per action (`CreateRefines`, ..., `WriteRefines`): it is the
action of `PagedFile` of the same name, error returns included, or it does not show (`Unseen`:
a loop begins, or goes on over a page that is not in use or a frame that is released).
`GetErrors` is the heart of the error returns: in a file whose views are sound a get fails only
because the page is pinned, because every buffer is (`PinnedCount`: as many pages are pinned
as frames are fixed), or because a system call failed; never at end of file, since a page
the header counts is in the pool or on disk. A turn of the scan of `PF_GetNextPage` that
finds page `at` in use is `GetNext` for any position from the last used page to `at - 1`,
and the lemma gives it `at - 1`.

### 4.2 The page hash table

`PFHashProofs` proves, for any number of buckets, descriptors, pages, frames and
entries, from `PFHashAssumption`:

- `HashTypeCorrect`, `LinksAlwaysAgree`, `PagesHaveOneEntry`: `PFHashTypeOK`, `LinksAgree`
  and `OneEntryPerPage`;
- `WalksGoDown`: each turn of a walk has fewer entries before it than the last, the
  measure that makes `HashCallsReturn` true (which TLC checks);
- `HashImplementsTable`: `PFHashSpec` implements `HashTable`, the whole of
  `ImplementsHashTable`. A `Walk` is a stutter, `Begin` a request, and each
  routine's end the service of it.

The argument. That a walk which comes to the end of its chain has not passed the page's
entry needs to know that every entry of a bucket is *on* its chain: links that agree
could also make a ring beside it. So the invariant gives each entry its `depth`, one more
than that of its successor and one less than its predecessor's, different for any two entries
of a bucket and at most the bucket's `length`; and says of the walk that no entry
above its pointer is the page's. An entry without a successor has depth 1, and
the head has depth `length`. Without `depth` the links are an invariant, but not enough for the
refinement.

### 4.3 Record manager

`RMProofs` proves, for every size of page, header and slot, any
records that fit, any number of pages, buffers and scans, from `RMPageAssumption` and
`RMAssumption`:

| theorem | states | condition |
|---|---|---|
| `RMTypeCorrect`, `RecordsStayApart` | `RMTypeOK`, `PagesAreSound` | none |
| `ScansKeepTheirPages` | `ScansHoldTheirPage` | clients close a scan that failed |
| `ScansTellEveryRecord` | the action property `ScansSkipNothing` | the same, and `WideRIDs` |
| `OwnSlotsImplementRecordFile` | `ImplementsRecordFile` | `WideRIDs` and `[]SlotsAreOwn` |
| `RMImplementsRecordFile` | `ImplementsRecordFile` | `WideRIDs`; records of one length, or a file of one page |
| `InsertionsKeepRecords` | the action property `InsertKeepsRecords` | the same |

Each condition is one of those section 3 names, and a run fails without it. `WideRIDs`: a RID
has 16 bits for the page and 16 for the slot, so that the file has at most `RIDPages` = 65536
pages (nothing in the code sees to it), and the most slots a page can have are fewer than
`RIDSlots` = 65536 (they are, with pages of 4 KB). *Clients close a scan that failed* is
`RetriesScans = FALSE`.

The pages: `RMProofs` shows that `StoreRecord` keeps a page sound if the bytes
and the directory as it is then have room (`StoreSound`, whatever slot it takes),
and that `EraseRecord` does (`EraseSound`: what lies behind the hole is moved by
just its length, and records that do not lie behind it end before it). That
`RM_InsertRecord` has made sure of the room is `LoopFindsRoom` with `TargetIsSlot`:
the slot may be another page's, but it is a new slot of this page only if this
page has no empty one, for which the test for room counts an entry. So the fault
`MCRM_stale` shows loses a record, but no two records ever share a byte. (An entry
it writes beyond the directory's end may still fall on the bytes of one: the theorem
is about the slots in use, and `ImplementsRecordFile` about the bytes.)

The invariant `RMInv` adds to the two properties that a file which is not open has
no page fixed, no scan on a page and no call in progress (else `RM_DestroyFile`
would take pages from under a scan), and that a scan stands on a slot of its page
(else the next slot's number could leave its type).

The scans: `ScansHoldTheirPage` is not inductive, as a scan that has come to the end
of a page gives `pageData` up before it gives up the page. `ScansApart` says of every
scan that *stands* on a page, one on its way to the next included, that its page is
fixed and no other scan stands there; and that a scan which stands on none is at
the start or has failed. The last is what `LeavePage` needs: it unfixes
`currentPage` whether or not the scan still has it.

`ScansSkipNothing` is about the whole of a call, and the loop inside has steps of its own that
return nothing. `TellsInOrder` carries the promise over them: between its calls a scan is on the
record it told last; in a call, it has passed no record beyond that one, and gives a page up only
behind the page's last slot. That the slots of a page come before those of the next, in the order of
RIDs, is `PackIsOrdered`, and needs `WideRIDs`.

The refinement: `StoreKeepsRecords` and `EraseKeepsRecords` are about the bytes: storing
writes none of another record's and erasing moves them with their slot, so that each slot
names the data it did. For that a slot that is filled must be empty, or new (`SlotsAreOwn`);
all but the insertion needs no more than `RMInv`, and
`OwnSlotsImplementRecordFile` says so: **the slot taken from another page is all that keeps
`rm.c` from its specification.** `SlotsStayOwn` gives two conditions under
which it cannot happen. In a file of one page there is no other page. With records of one length
every page is made of pieces of that length (`PagesHoldOneLength`), so that
a page with an empty slot has room for a record, and the loop ends there.
`MCRM_stale` has two lengths and two pages, the least that is in neither case. `StepSimulates`
has a lemma per routine, error returns included; a turn of a scan's loop that looks at an
empty slot or goes to the next page does not show.

### 4.4 Access method

`AMLeafProofs`, `AMProofs`, `AMOrderProofs` and `AMScanProofs` prove, for every size of leaf,
key, cell and inner node, any values, records, pages, buffers and scans, any client and whatever call
fails half-way, from `AMLeafAssumption` and `AMAssumption`, the last two also from `AMScanAssumption`:

| theorem | states | condition |
|---|---|---|
| `AMTypesHold` | `AMTypeOK` | none |
| `LeavesStaySound` | `LeavesAreSound` | none |
| `TreeStaysBalanced` | `TreeIsBalanced` | none |
| `NothingStaysBehind` | `NothingLeftBehind` | careful clients, and `MaxOthers + 3 <= PF_MAX_BUFS` |
| `ChainStaysWhole` | `ChainIsWhole` | `FewPerKey` |
| `SearchesFindAll` | `SearchFindsAll` | `FewPerKey` |
| `TreeImplementsIndex` | `ImplementsIndex` | `FewPerKey` |
| `InsertionsInsert` | the action property `InsertsThePair`, in which an insertion may split pages at every level | `FewPerKey` |
| `ScansStayOnCourse` | `AheadIsOwed` | `FewPerKey` |
| `ScansImplementIndexScans` | `ImplementsIndexScans` | `FewPerKey` |

`FewPerKey` is `2 * EntrySize + (MaxPerKey + 1) * CellSize < LeafSpace`: a leaf has room for two
keys and the records of one value, and one record more. `am.c` needs it and does not see to it: the
list of a key is never split, `AM_SplitLeaf` puts the new entry into a half without asking whether it
has room, and where it has none the entry is lost and `AME_OK` returned. That is the run
`MCAM_lost`, the only one whose constants do not meet the condition. Where it holds `HalvesHold` shows that
the half always has room, so that nothing else keeps the access method from its specification.

*Recursion.* The searches, the lists of a leaf and the path from the root are recursive
functions. What they compute is proved by induction over *sets* of numbers (`Induction`: a
set that has 0 and with each number the next has them all), and `Iteration` makes of a
function that says what a turn does the function of all turns, to which the recursive
definition is then equal (`NarrowTurns`, `ListTurns`, `PathTurns`).

*The searches* (`SearchLeafIs`, `BinSearchIs`). No turn of the binary search puts the value
left of `low` or right of `high` (`Between`), and the distance halves, so that after as many
turns as keys at most two positions are left, for which the cases at the end are right.

*Leaves.* `LeafSound` says of the lists of a leaf, concatenated, that they have every cell
once, and cannot be kept step by step as it stands. `GoodLeaf` says it by two functions: `o`
gives each cell taken the list it is in (a key's, or 0 for the free list) and `d` how many
cells follow it there. A link leads to a cell of the same list with one follower less, and no
two cells of a list have as many. That makes each list end, stay apart from the others, and
leave no cell out (`ListOfIs`, `GoodIsSound`). Every routine changes `o` and `d` in a few
places: a cell put at the head of a list has one follower more than the old head
(`InsertFoundGood`), a cell taken out leaves those before it one less
(`FreeRecordGood`), an entry that goes moves the numbers of those behind it (`RemoveKeyGood`),
and a compaction numbers the cells of one list after another (`CompactGood`).
`Gap(l) >= 0` needs the tests of `Fits`, those that count the free list included: a
compaction gives the free cells back, and no more (`InsertintoLeafGood`).
`HalvesGood` has it for both halves of a split, of which the second is never empty: its
first key goes to the parent.

*The tree.* `AMInv` says there is a height for every page: 0 for a leaf, and for an inner node
one more than that of each of its children, pages the file has. The root's is less than the
number of pages. So a path from the root (`Walk`) goes down a level with each turn, `PathTo`
comes to a leaf and all paths are as long (`PathToIs`). Between the split of a page and the
insertion in its parent `Pending` holds: the entries of the stack are inner nodes, each a level above
the one before, with an offset that is in it still, up to the root, wherever the stack begins
(calls that failed have left entries beneath); and should all of them split there are pages.
A split changes none of the nodes above (`SplitPending`), as they are at other heights.

`NothingStaysBehind`: no call holds more than two pages, so that where the condition holds
the pool is never full, no error path is taken, and each search gets every page.

*What leaves hold* (`AMLeafProofs`). `Contents(l)` gives every value its record ids in leaf `l`, in
the order of their list. A cell put at the head of a list puts the record in front of the value's
(`InsertContents`), a cell taken out removes it (`DeleteContents`), a compaction changes nothing,
and a split gives each half the values on its side of the second half's first key (`HalvesHold`).
As the lists of different keys share no cell (`OwnsItsLists`), no other value's records change.

*The order* (`AMOrderProofs`). `AMInv` says where the pages are and nothing of the values in them;
neither `ChainIsWhole` nor `SearchFindsAll` is inductive on top of it. `OrderInv` adds that there are
a sequence `L` of leaves, a range of values `rng[p]` for every page and record ids `A[v]` for every
value such that

- the leaves of the file are those of `L`, each linked to the next, from page 2 on or from the
  root while it is a leaf (`Linking`);
- their ranges ascend along `L` and share out all values (`Sorted`);
- a leaf has `A[v]` for the values of its range, and nothing for any other (`Holding`);
- the root's range is everything, and the keys of an inner node divide its range among its
  children (`Routes`, `Slot`), each page being the child of one node at most.

The last does not hold between the split of a page and the insertion in its parent, and not at all
after a split for whose new root there was no page. For the first, it is stated of the pages as they
will be when the pending `AM_AddtoParent` has put its key in (`Told`), and `StackLeads` says that each entry
of the stack is the parent of the one above, at the offset where the search went down. For the second,
that failure leaves the root fixed (`am.c:82`), so that no search gets past it: the clause is stated
for an index whose root is not fixed. A split of a leaf gives its range to two pages at the key that
goes up (`OrderDivided`, `RouteSplit`); one of an inner node leaves the middle key in neither
half, and still each child has the range it had (`RoutedSplit`).

From `OrderInv`: the chain that the code follows is `L` (`ChainIs`), hence `ChainStaysWhole`; a
search comes to a leaf whose range has the value (`PathInRange`), and there is only one, hence
`SearchesFindAll`. `NextOrder` says of every step what becomes of `A`: it is as before, empty, or has
one record id more or less (`Happens`), and what the call returns with it. `EntriesAre` maps
`A` to the bag of `Index`: counting record ids in `A[v]` is counting the cells a scan of the leaves
finds, by a bijection. So each step is one of `Index` or does not show (`StepIndexes`); the entry counts
as inserted in the step that splits its leaf, while `AM_AddtoParent` has still to be called.
`InsertionsInsert` says it of the call's own arguments: the first step of an `AM_InsertEntry` that returns
`AME_OK` gives `A[v]` the record id in front, and the steps of `AM_AddtoParent` leave `A` alone.

*Scans* (`AMScanProofs`). `AheadIsOwed` follows the loop of `AM_FindNextEntry` from a scan's place to
its end, and is not inductive: a deletion changes the entries under the place. `ScanInv` has `AMInv`,
that clients which hold a scan leave the tree alone but for deletions, and some `L`, `rng` and `A`
as in `OrderInv` in which every record is once, under its value (`Single`), such that each scan for an
operator of `Promised` is `Serving` what it owes. That is one of three:

- it is over, and owes nothing;
- its place is a leaf that deletions emptied, and it owes the records of that leaf and of those
  behind it (`Onward`);
- it comes next to the `m`-th record of the `t`-th key of its leaf (`PlacedAt`), and owes those of this
  value from there on, and unless it is for `EQUAL` those of the greater values (`Due`).

The last is where the code is hard. `nextIndex` and the value noted beside it can be one too far once
the key under them was deleted; `amscan.c:391` sees that by comparing the value noted with the one at
`nextIndex`, and behind the last key compares with bytes that no key owns any more (`behind`), which the
deletion has left as they were. `Ready` says what holds besides just after a scan has told a record, and it
makes the deletion of that record leave the scan where it should be, whether the list or the whole
key went (`StruckServes`). A turn from leaf to leaf passes only leaves without keys (`PassedIs`). So the
loop comes to what is due (`FollowingDue`): `ScansStayOnCourse`.

For the refinement `owed` is mapped to what is due in `IndexScans`, scans for the other operators
being lost from the start (`Owing`). Each call is one of `IndexScans` (`OpenShows`,
`FindNextShows`, `CloseShows`, `StrikeShows`), and so is what the clients do between scans
(`UpdateShows`), where the insertion or deletion shows in the step in which `A` changes.
`AMScanAssumption` has descriptors of scans and record ids differ, as both come out of a call as `ret`.

### 4.5 What is only model-checked

Of the scans of the access method, their types (`AMScanTypeOK`) and that no call tells a record
again and all but those of `Endless` end (`ScansMoveOn`). Liveness (`CallsReturn`, `ScansReturn`, `HashCallsReturn`), which
needs fairness and `ENABLED`, out of this prover's reach. What becomes of the chain of free pages
after a restart has no property at all (see `hazards`): the code does not keep it sound.

## 5. Not modelled, and the plan

Left, in this order:

1. A proof of `ScansMoveOn`, for which what is ahead of a scan (`Following`) has to be shown to shrink for
   the operators `ScanInv` says nothing of.
2. Runs for the hazards that have no property (see `PROJECT.json`): a record longer than
   a page (`rm.c:160`), the stack past `AM_MAXSTACK` (`amstack.c:21`), a chain of free pages
   left behind by the end of the process (`pf.c:457`). The models exclude or stop at each
   of them, as the code has no defined behaviour there.

`AM_CreateIndex` is modelled with room in the table of open files: where that is full,
`PF_OpenFile` fails, and the code leaves a file without a root.

The abstract actions of `PagedFile`, `RecordFile`, `Index` and `IndexScans` are those some client
could have asked for; that a call does what *its* arguments say is left to properties of
its own where it may go wrong: `Index` lets an `AME_OK` add nothing, and `InsertsThePair` says the rest.

Not planned: the statistics counters, `PF_PrintError`, `PFbufPrint`, `amprint.c`
and `misc.c` (output, and wrappers that exit on an error), the test programs and
the plotting scripts (clients), the data files and binaries in the tree.
