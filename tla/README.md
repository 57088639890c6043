# MyJQL in TLA+

Specifications of MyJQL, a key-value database with a B-tree index, a server
and a client driver (`src/myjql/`), with the TLC runs that check them on small
instances and the proofs TLAPS checks for all of them. Paths such as
`buffer_pool.c:64` are below `src/myjql/src/`; headers are in
`src/myjql/include/`, the server and the shell in `src/myjql/main/`, the driver
in `src/myjql/driver/`, and `README.md:73` is a line of `src/README.md`.

## 1. The system

```
 myjqlshell.cpp ── myjqlclient.cpp ══ TCP ══ myjqlserver.c     threads, one mutex, SIGINT
                                                  │ calls
                                               myjql.c          get / set / del
                                 ┌────────────────┼──────────────┐
                             b_tree.c          table.c (records)  str.c ── table.c (strings)
                          rec.idx │        block.c │ hash_map.c        block.c │ hash_map.c
                                  │       rec.data │  rec.fsm          str.data │  str.fsm
                                  └──────── buffer_pool.c (five pools of 8 frames) ──┘
                                                  │
                                               file_io.c
```

| component | state it keeps | operations | what makes it correct |
|---|---|---|---|
| file I/O (`file_io.c`) | file, its length | open, close, read, write a page | a page reads as it was last written; only the page at the end is appended |
| buffer pool (`buffer_pool.c`) | per frame: address, pin count, update mark, page | init, close, `get_page`, `release`, `update` | a pinned page is never evicted; one frame per page; an evicted page is on disk |
| free-space map (`hash_map.c`) | a page file: control block, directory by size, chained blocks of addresses, a free list | insert, pop, pop the least sufficient size | a set of pairs (size, block): nothing lost, doubled or listed elsewhere; every call ends |
| slotted block (`block.c`) | header, item ids, items in one page | new item, delete item, get item, size | ids and items never meet; compaction moves items without changing them |
| table (`table.c`) | a file of blocks and a free-space map | insert, delete, read | a record stays under its RID; the map lists every block under its present size |
| strings (`str.c`) | chunks of 20 characters in a table, last chunk first | write, read, compare, load, delete | what is loaded is what was written; deletion frees every chunk; comparison is that of the texts |
| B-tree (`b_tree.c`) | control page, nodes of up to `2 * DEGREE - 1` record ids | search, insert, delete, print, with splits, moves and merges | the leaves hold exactly the records inserted and not deleted, in order; pins return to zero |
| store (`myjql.c`) | an index and two tables | get, set, del | a map from keys to values |
| server (`myjqlserver.c`) | threads, a mutex, sockets | accept, a loop of requests per client, stop on SIGINT | requests are atomic and answered; the store is closed once, after the last call |
| driver, shell | one connection | one request at a time, farewell (code 3) | what is printed for a command is what the server did for it |

Interactions: every layer calls the one below and shares pages with it through
pointers that `get_page` returns and `release` takes back. Only the server is
concurrent: one thread per client around one mutex, and a signal handler that runs
on top of a thread. Shell and server exchange integers and texts over a byte
stream that keeps no boundaries.

What is hard to test here, each with its line under `hazards` in `PROJECT.json`:

* callers that release more often than they acquire, evictions under pressure,
  pages parked at the address -1, and the fact that no caller marks a page as
  updated;
* chains of the free-space map that shrink from the middle, sizes that wrap
  below zero, loops that only a full block lets go on, a supply of blocks that
  is never replenished;
* compaction after long sequences of insertions and deletions, and the map
  entry of a block whose size has just changed;
* strings at the boundary of a chunk, and chains of chunks taken apart while
  others are built;
* pointers of `b_tree.c` used after release, pins held along its recursion,
  separators that are copies of a first key several levels below, slots read
  past the entries of a node;
* comparators of `myjql.c` that compare a record with itself, the size of a
  pointer taken for that of a key, the RID of a string taken for that of a record;
* overlapping requests, SIGINT at any moment, a second SIGINT, connections
  closed without a farewell, answers to closed connections, short reads, `recv`
  at end of file leaving the variable it was to fill as it was.

## 2. Modules

| module | models | state and actions |
|---|---|---|
| `PageStore` | the promise of a buffer pool | `size`, `store`, `pins`; acquire, append, modify while holding, release |
| `BufferPool` | `buffer_pool.c`, `file_io.c` | `addrs`, `ref`, `upd`, `pages` are the frames, `disk` and `length` the file, `held` and `ptr` the callers' side; `GetPage` (hit, miss, NULL), `Release`, `Update`, `Store`, `Close`, `Reopen`; implements `PageStore` |
| `SpaceIndex` | the promise of the free-space map | `free`, a set of pairs; `Candidates` is "the least sufficient size" |
| `HashMap` | `hash_map.c` | `pages`, word by word, `out`, `spinning`; `Insert`, `Pop`, `PopLowerBound`; implements `SpaceIndex` |
| `Block` | `block.c` | operators on a block: `NewItem`, `DeleteItem`, `BlockSize`, `GetItem` |
| `RecordStore` | the promise of a table | a function from RIDs to records |
| `Table` | `table.c` with `Block`, and `SpaceIndex` for its map | `blocks`, `fsm`, `rid`; `Insert`, `Delete`; implements `RecordStore` |
| `Str` | `str.c` on `Table` | adds `strings`, the callers' side, and `job`, what a loop of calls has still to do; `WriteString`, `WriteChunk`, `DeleteString`, `DeleteChunk`; `LoadString`, `CompareRecords`, `NextChar` as operators |
| `OrderedIndex` | the promise of the index | `keys`, a set, and `last`, the last call; insert, delete, search, list |
| `BTreeOps` | every function of `b_tree.c`, with its pool | operators from the state of the index to the state they leave, parameterised by the comparators |
| `BTree` | the calls of `b_tree.h`, over `BTreeOps` | `idx`, `prints`, `last`, `calls`; `Insert`, `Delete`, `Search`, `Print_b_tree`, `Reopen`; implements `OrderedIndex` |
| `MyJQL` | `myjql.c`, over `BTreeOps` with its own comparators | `strs`, `recs`, `idx`, `strcmp`, `status`, `last`, `updates`; `MyGet`, `Set`, `Del`, `Reopen` |
| `KVService` | the promise of the server | `db`, `call`, `got`; invoke, apply, return |
| `Server` | `myjqlserver.c`, with its clients | see below; implements `KVService` |
| `Wire` | `myjqlshell.cpp`, `myjqlclient.cpp` and one thread of `myjqlserver.c`, message by message | driver, thread, both directions of the connection, the shell; `Connect`, `Type`, `Client...`, `Server...`, `Stop` |
| `BufferPoolProofs`, `HashMapProofs`, `TableProofs`, `StrProofs`, `BTreeProofs`, `MyJQLProofs`, `ServerProofs`, `WireProofs` | | theorems |
| `MC*` | | instances for TLC |

Composition follows the layers: a component is written over the abstract
specification of the one below, and the one below is shown to implement that.
`HashMap` and `Table` treat a page as one content (`PageStore`, which
`BufferPool` implements), `Table` treats its map as a set of pairs
(`SpaceIndex`, which `HashMap` implements), `MyJQL` treats its tables as functions
from RIDs (`RecordStore`, which `Table` implements) and a string as one value
(which `Str` shows), `Server` and `Wire` treat the store as a map. Two places
compose the detailed modules instead, because the promise is too coarse for
what can go wrong there: `Str` runs on `Table` and `Block` themselves, and
`BTreeOps` carries the frames of its buffer pool along, since `b_tree.c` uses
pointers after it has released their pages.

### Correspondence and modelling decisions

*Addresses* are divided by `PAGE_SIZE`, blocks and items of a table are numbered
from 1. `-1`, the parent of a B-tree root, is `NoPage`: the file refuses it (it is
not a multiple of 128) and `get_page` parks it on a frame all the same, as the code does.

*BufferPool.* `release` visits all frames with the address and writes those that
are pinned; an excess release changes no pin. The new page at the end of the
file starts with the bytes its frame held before. `Store` stands for any caller
that writes through a pointer; the model lets only holders do so, which is the
callers' obligation. `Reopen` is `init_buffer_pool` on the file that `Close` left.

*HashMap.* A page is a function from words to integers, and a size selects a page
and word in the arithmetic of `size_t` (`SizeBits` bits): -1 .. -4 wrap to the last
words of the control block. Pins are `BufferPool`'s matter; what remains of the
pool is that the sentinel page, one past the last block, is created when it is
first touched, with stale bytes. A loop that cannot end is `spinning`. Callers
list an address once (`hash_map.h:41`). `Supplied` bounds the model: no step starts a
chain when the supply of free blocks is used up. A pop of an address that is not
listed changes nothing in the pages; the pins it may leak (`hash_map.c:151`) are
listed as a hazard, and `FsmExact` says no table makes such a call.

*Block, Table.* Items are sequences of opaque bytes. `get_block_size` may be negative.
The bytes of the free space are kept (the copy in `delete_item` reads them), starting
as `NoByte`. Each call of a table is one step, since the server runs one call at a
time. `table_delete` of an address below 0 returns at once and is not an action.

*Str.* A chunk is the sequence of the next chunk's RID and the characters. One step
is one call of the table, so the properties of the table and of the chunks are
checked between the steps of a `write_string` too. Reading never changes anything and is
an operator; `compare_string_record` takes characters before it tests for them, as in
the code, so it is only stated for strings that are not empty. Its recursion is cut off after a
number of rounds the caller of the operator names; `ComparesAsText` names the length of the first
string, so that it also says that the recursion has ended by then.

*BTreeOps, BTree.* A pointer is the number of a frame, and `Ptr(s, a)` is what `get_page`
answered. A store through it changes that frame, whatever page it holds by then; a
`Release` writes the frame to the file. `Get` of a page at the end of the file appends
the bytes of its frame. When `get_page` answers NULL, or `Move` stores before the first entry of a node
(`b_tree.c:368`), `null` is set and the model ends there (`Lost`). A recursive function is written as the path of its calls down the tree (`Calls`) and
what they return on the way back (`Returned`); a path is cut off at the number of frames, since
every call on it pins one and `get_page` fails before. In `BTree` an entry is a number that stands for its own key, as the integer
comparators of `test/test_b_tree.c` have it, and a key is inserted only while absent. An
initial state is a tree that insertions alone have built. `b_tree_search` compares also
with an RID it read out of the key it was given (`b_tree.c:43-44`); its answer does not
depend on it. `Print_b_tree` leaves a pin on the control block (`b_tree.c:716`),
which `prints` counts; it is called by nothing but commented-out code.

*MyJQL.* Strings and records sit in two tables that count alike, so the RID of a string can be that
of a record; `myjql_del` hands `b_tree_delete` the former. `Places` says where an item goes: with
`OneBlock`, the lowest free id of the one block there is, as `new_item` picks it; without, any free
place, as several blocks allow. Both kinds of `strcmp` are modelled: one that answers with
-1, 0, 1 and one that answers with a difference, as both occur and `b_tree.c:647` tests
for 1. The index is that of `BTreeOps`, of any height, in a cache of three frames or more
(`CacheAssumption`; it has eight). An index entry whose record is gone is compared with whatever
memory holds. Where that decides what a search reads (`SearchMisreads`), where memory gives the
RID whose entry is deleted, or where an index of several levels holds such an entry
while `Move` and `ReAdj` compare (`Stale`), the call may go anywhere: `status` becomes `undefined` and
the run ends there, or the comparison is guessed in every way. The same holds when
the index runs out of frames, or stores before the first entry of a node (`b_tree.c:368`, which two
records that compare as equal may lead to).

*Server.* One thread per client, places in `InstanceThread` as `pc`: `recv`, `lock`,
`begin`, `busy`, `leave`, `reply`, `done`. The store is an ideal map read when a call
begins and written when it ends, so overlapping calls would undo each other. A request
arrives whole (`Wire` has the parts). `code` keeps its value round the loop, as the
variable of that name does: `recv` at end of file returns 0 and leaves it alone. The first
answer to a closed connection is lost, a later one raises SIGPIPE (`ReplyLost`). SIGINT
goes to the main thread, whose mask blocks it while the handler runs, and a second one to
another thread (Linux). `hpc` is the place in `exit_nicely` of the handler that runs on
top of a thread, and that thread does not move meanwhile. A call on pools that are closed
has undefined behaviour, and so has a second `myjql_close`: the model ends there with the
status `crashed`. A `pthread_mutex_destroy` of a locked mutex does nothing.

*Wire.* A direction of the connection is a sequence of integers and characters, and a
`recv` of a text may return any part of it that has arrived. Whoever then reads a
character where an integer should be is `astray`, and the model ends there; integers of
four bytes are not torn. `code` is on both sides a variable that a `recv` at end of
file leaves as the last `send` set it. `Stop` is the end of the server, between two calls
into the store. The first send to a closed connection resets it, a later one may
raise SIGPIPE; a server that stops with messages it has not received resets the connection itself, and
a send may then fail (`SendError`). The store is a map.

## 3. Runs

| run | bounds | shows |
|---|---|---|
| `pool` | 2 frames, 3 pages and the parked address, 2 contents, 2 pins per page | `TypeOK`, `OneFramePerPage`, `PointersValid`, `UnpinnedIsClean`; the pool implements `PageStore` |
| `map` | pages of 8 words of 2 bytes (two directory pages), blocks of 2 addresses, 4 blocks, 3 addresses, sizes -1 and 9, requests 0 and 10 | `ChainsPacked`, `NeverSpins`, `OneOwner`, `ControlIntact`; the map implements `SpaceIndex` although sizes wrap |
| `strings` | chunks of 2 characters, 2 blocks of 13 bytes, 2 strings at a time out of 5 texts of 0 to 4 characters | `LoadsBack`, `ComparesAsText`, `ChunksOwnedOnce`; `BlocksWellFormed`, `FsmExact`, `GrowsOnlyWhenFull` of the table under them, which implements `RecordStore` |
| `btree` | `DEGREE` 2, 6 frames, 15 keys, three trees of two and three levels, then any 3 calls, with reopenings | `FramesSuffice`, `NoPinLeft`, `NothingUnwritten`, `SearchTree` (`Balanced` and `Separated`), `UnusedIsNull`, `LeavesChained`; the tree implements `OrderedIndex` |
| `myjql` | `DEGREE` 2, 8 frames, keys of 1 to 3 characters with a pointer of 2, 2 values, 5 updates, both kinds of `strcmp` | `OwnedOnce`, `LoneKeyServed`, `AscendingServed`, `AnswersBelong` |
| `myjql_lost` | `DEGREE` 3, 4 frames, 2 keys of one character, 4 updates | violation of `GetFinds` |
| `server` | 2 clients, 2 requests each, 1 SIGINT, strings short and too long | the server implements `KVService`; `RequestsAnswered` |
| `server_rough` | 2 clients, 1 request each, 2 SIGINTs, clients may vanish | `MutualExclusion`, `StopTerminates` |
| `server_window` | 1 request each, 1 SIGINT | violation of `ClosedForGood` |
| `server_phantom` | 1 request each, clients may vanish | violation of `OnlyAskedRequests` |
| `wire` | 4 lines out of 12 of every kind, `MAX_STR_LEN` 2, a server that may stop | `ResultsTrue`, `InStep`, `CommandEnds` |
| `wire_stopped` | 3 lines | violation of `OkMeansServed` |

Why the bounds are enough to meet the interesting cases.

* *pool*: with four addresses for two frames every miss evicts, all frames can be
  pinned at once (`get_page` answers NULL), and a page can be held twice when it is
  released too often.
* *map*: three addresses under one size need two blocks, and each of the three can be
  popped from either block; four blocks let the list of free blocks run down; one size
  wraps into the control block, the other is in the second directory page.
* *strings*: texts of no, one and two full chunks and of one character more or less; a
  block holds two full chunks or three short ones, so that a chunk in the middle is deleted and
  its id used again by one of another size, and a request finds its block under a larger
  size, no block, or one of two.
* *btree*: nodes of two or three entries, so that every insertion and deletion may split,
  move or merge; from trees of two and three levels three calls change the height either way. With
  five frames `FramesSuffice` fails: a tree of three levels needs six. The code has eight.
* *myjql*: keys that share the characters a pointer's size lets through, an overwrite and
  two deletions among other keys, and reopenings that reset the frames. A leaf takes
  three entries, so that the fourth key splits it, with entries of deleted records in it or not. The tables are
  one block each; that a new item may go to any of several blocks is in the theorems only.
* *server*: two clients overlap in every order, and the signal falls between any two steps;
  two signals are what it takes for a handler to run on a thread that holds the mutex.
* *wire*: a command before and after every kind of line, so that a rest of the one would be
  met by the next.

The bounds in guards are `MaxPins` and `MaxPages` (pool), `Supplied` (map), `MaxBlocks` and
`MaxStrings` (strings), `MaxCalls` (btree), `MaxUpdates` (myjql), `MaxRequests` and
`MaxSignals` (server) and `MaxLines` (wire).

**Constraints.** The run `myjql` explores fewer updates than `Next` allows: `Alternating` leaves one value
for an update to choose, by its number and the key, and `OthersOnce` has two of the four keys set at most once
and never deleted.

**Views.** Three runs identify states that differ only in what no later step reads:
`btree` and `myjql` in the record of the last call and its answer, `strings` in the bytes of a
page outside its items and in the last RID once it was taken over. An action property
is still evaluated for every transition, before its result is identified with another
state, so the answers themselves are all checked; the invariants of these runs, but
for the type of the last answer, do not mention what is left out. `myjql_lost`, whose
invariant is about the answer, has no view.

**Deadlock** is not checked where the system rightly stops: in the server runs the process
exits, or all clients have left and no signal is coming; in the runs of `Wire` the shell has ended or the
bound on the lines is reached; in those of `MyJQL` memory was misread. All other runs
check for it.

**Fairness.** `FairSpec` of `Server` has weak fairness for each thread's steps
(`InstanceThread`) and for each handler's steps. A thread that can run is run by the
kernel, and a step once possible stays possible, except for `Enter`, which another thread may
disable by taking the mutex. Weak fairness is all the code justifies for it, since pthread
mutexes are not fair, and it is enough: the requests of other clients are finitely
many in a run, so each waiting thread finds the mutex free in the end. No client is
assumed to ask for anything, to leave or to stay, and no signal is assumed to arrive.
`FairSpec` of `Wire` has weak fairness for the driver inside a command and for the thread: the
kernel runs both processes and delivers what was sent. Nobody is assumed to type, and the
server is assumed neither to stop nor to stay.

**Findings.**

* `server_window`: ctrl+c is not quite safe (`README.md:73`): between `LeaveCriticalSection`
  and `exit` a waiting thread enters the closed store.
* `server_phantom`: a client that closes its connection without a farewell, as
  the shell does at end of file, makes its thread take the code of its own last answer for a
  request: after a key that was refused with 2 it goes for a `del` nobody sent, of a key nobody sent.
* `myjql_lost`: `myjql.h:21` says `myjql_get` answers -1 if the key does not exist. Since
  `rid_row_row_cmp` reads the same record twice, any two records are equal for the index, which
  then keeps the order of insertion; a search stops at the first entry above the key, and answers -1 for a
  key that was set after a greater one.
* `wire_stopped`: `myjqlclient.cpp:253` takes 1 for the server's "ok". At end of file the
  driver reads nothing and finds in `code` the length it has sent last; when the server stops between receiving
  a `del` and carrying it out, the shell prints `OK` if the key has one character.

What holds of the store in spite of `myjql_lost` is stated with its limits. `AscendingServed` has keys set
in ascending order, and is not true without any of the rest: with keys longer than a pointer
(`ShortKeys`), of which `rid_ptr_row_cmp` loads too little to find them (`myjql.c:66`); with more keys than a
leaf takes, as `ReAdj` overwrites the first separator that compares as equal (`b_tree.c:774`), which is
another leaf's; with deletions, which take away the first entry whenever the RID of the key's string is that of
some live record (`myjql.c:148`); with a `strcmp` that answers 2 (`b_tree.c:647`). `LoneKeyServed` has
`ShortKeys`, tables of one block, and a store that never held two keys at a time; it may be
changed and emptied at will, under any `strcmp`. With two keys a deletion that the comparators misguide
leaves the entry of its record behind. `OwnedOnce` and `AnswersBelong` have no such limit: no call leaves a
string without its record, and a get answers with no other key's value as long as it meets no entry
whose record is gone (`SearchMisreads`), where it may answer anything. `OwnedOnce` does not say that
every record is found: one that a search misses stays for ever, with its strings, and so does
the one that an overwriting `myjql_set` misses.

`StopTerminates` excepts one thing that does happen. While the first handler waits for the mutex, a
second ctrl+c reaches another thread, and if that one holds the mutex its handler waits for it for ever
(`SelfLocked`, `myjqlserver.c:407`): the server neither stops nor serves. The run `server_rough` reaches this, and shows that
nothing else keeps a stop from ending the process.

`LeavesChained` is about trees of one and two levels: with three,
`FindMostLeft` goes down by the last child and the chain is wrong, but nothing follows it.

## 4. Proofs

Everything below holds for every value of the constants that the named assumptions admit.

| module | theorem | states |
|---|---|---|
| `BufferPoolProofs` | `InvariantHolds` | `Spec => []IInv` |
| | `TypeCorrect` | `Spec => []TypeOK` |
| | `NoDuplicateFrames` | `Spec => []OneFramePerPage` |
| | `PointersStayValid` | `Spec => []PointersValid` |
| | `WriteThrough` | `Spec => []UnpinnedIsClean` |
| | `PoolIsPageStore` | `Spec => ImplementsPageStore` |
| `HashMapProofs` | `Invariance` | `Spec => []IInv` |
| | `TypeCorrect` | `Spec => []TypeOK` |
| | `PackedChains` | `Spec => []ChainsPacked` |
| | `LoopsEnd` | `Spec => []NeverSpins` |
| | `ControlSpared` | `Spec => []ControlIntact` |
| | `OneOwnerEach` | `Spec => []OneOwner` |
| | `SpaceIndexImplemented` | `Spec => ImplementsSpaceIndex` |
| `TableProofs` | `WellFormedAlways` | `Spec => []BlocksWellFormed` |
| | `FsmAlwaysExact` | `Spec => []FsmExact` |
| | `GrowsWhenFull` | `Spec => GrowsOnlyWhenFull` |
| | `TableIsRecordStore` | `Spec => ImplementsRecordStore` |
| `StrProofs` | `OwnedOnceAlways` | `SpecStr => []ChunksOwnedOnce` |
| | `StringsAreTable` | `SpecStr => Spec` of `Table` |
| | `LoadsBackAlways` | `SpecStr => []LoadsBack` |
| | `ComparesAlways` | `SpecStr => []ComparesAsText` |
| `BTreeProofs` | `NoPinLeftAlways` | `Spec => []NoPinLeft` |
| `MyJQLProofs` | `FilesAlways` | `Spec => []FilesInv` |
| | `OwnedOnceAlways` | `Spec => []OwnedOnce` |
| | `AnswersBelongAlways` | `Spec => []AnswersBelong` |
| | `AscendingServedAlways` | `Spec => []AscendingServed` |
| | `LoneKeyServedAlways` | `Spec => []LoneKeyServed` |
| `ServerProofs` | `LockHolds` | `Spec => []LockInv` |
| | `CallsExclude` | `Spec => []MutualExclusion` |
| | `TypeCorrect` | `Spec => []TypeOK` |
| | `ServerIsKVService` | `Spec => ImplementsKVService`, if clients leave with a farewell |
| `WireProofs` | `Invariance` | `Spec => []IInv` |
| | `TypeCorrect` | `Spec => []TypeOK` |
| | `TrueResults` | `Spec => []ResultsTrue` |
| | `StaysInStep` | `Spec => []InStep` |

*Buffer pool* (under `SizeAssumption`, `DataAssumption`: any number of frames, length of the
file and set of contents). None of the four invariants is inductive alone. A frame is found
by its address, so pins and holders agree only while an address has one frame;
`OneFramePerPage` gives that for pages of the file, but the address -1 has a frame for every
empty one. `PinnedIsFirst` closes the gap: among the frames of one address only the first,
which is the one `get_page` finds, is ever pinned. `InFile` says that cached pages lie inside
the file, so that a write-back never appends. And `UnpinnedIsClean` is what makes eviction
without the update mark harmless, since the page that replaces an unpinned frame then loses
nothing. `IInv` is the conjunction. The proof has one lemma per action with one step per
conjunct it can disturb, and `WriteFramesValue`, which says what a write of several
frames leaves in the file, whatever their order. The refinement maps a page to its content
wherever it is (`Content`): hits, evictions and write-backs are stutters or acquisitions
(`MissRefines`, `WriteBackKeeps`), and only `Store` changes a content.

*Free-space map* (under `ParameterAssumption`: any number of blocks, addresses in them and
addresses listed, any page size of eight words or more that divides 2^`SizeBits`, as 128 does, and any
sizes from -4 up). Besides its type and `~spinning`, `IInv` is `MapInv`. That chains are packed is not
inductive alone, since what a pop moves, and where, depends on all links. `BlocksKept` says that blocks are
handed out in the order of the file: those from `Head` on are free, empty and in a line, the others lead to
others or nowhere. `DirectoryKept` lets only sizes lead to chains, `ChainsApart` keeps the chains
disjoint, and `ListedOnce` says that no address is in two places, so that a search meets the right one. That
the wrapped directory words of different sizes are different and none is a control field is arithmetic
(`ControlIntact` needs the eight words). A walk along a chain is a recursive function; what it reaches is
argued by its rounds (`Rounds`, by induction over the set of numbers that have one), and a packed chain
has a last round, which is `LoopsEnd`. The refinement takes the pages to the set of pairs they list
(`Contents`): an insertion adds one, a pop removes one, and packing moves one within its chain.

*Table* (under `LayoutAssumption` of `Block`, `RecordAssumption`, `BoundAssumption`: any page,
header and id size, any records that fit a page, any bound on blocks).
The first half of `TableProofs` has what the operators on a block do: `Filled` says that the items lie one after
the other up to the end of the page in some order; `NewItemStores` and `DeleteItemFills` say that
an insertion or deletion keeps that, and that every other item reads as before although
compaction has moved it. `IInv` is `BlocksTyped /\ BlocksWellFormed /\ FsmExact`:
`NewItem` does the right thing only if the item fits, which only an exact map tells,
and the map stays exact only if every block is well formed, so that its size is what
`BlockSize` computes. The refinement follows from the lemmas on single blocks
(`InsertRefines`, `DeleteRefines`).

*Strings* (under the assumptions of the table, `ChunkAssumption`, `TextAssumption`, `ChunksFit`:
any texts, any length of a chunk that fits a page). Neither `ChunksOwnedOnce` nor `LoadsBack` is inductive: the first
says nothing of how a chain ends, the second nothing of a string half written. `StrInv` describes
the chains. `Chained` numbers the chunks of one from the last, which is the order
`write_string` writes them in, so that a new chunk extends a chain and a deleted one shortens it;
no chunk occurs twice. `Spells` gives each chunk the place where it begins in the text, and says
that no chunk is empty but the only one of an empty string, without which `next_char` would read past the
end of a chunk. A string that is being written (`Writing`) has spelled its text from the character
on that it has come to; one that is being deleted (`Deleting`) is a chain still linked to its end. Every
string keeps its chunks under calls for others because those own other chunks, which is why `ChunksOwnedOnce` is part of
the induction. Reading is argued by place: `ReaderAt` says that a reader which has taken `n`
characters stands in the chunk of character `n`, or at the end of the one before, as `next_char` changes
chunks only when asked for more. The rounds of the two loops are recursive functions, argued
by `Rounds`; texts that agree in `n` characters are still compared (`Agree`), and the first difference or
the first end of a text gives the verdict. `StringsAreTable` shows that the calls `str.c` makes satisfy
what `table.c` expects (every record deleted is stored), so the table's theorems hold under strings.

*Index* (under `DegreeAssumption`, `CacheAssumption`, `GrowthAssumption`: any `DEGREE`, any tree that
insertions build, of whatever height, any number of calls, any cache of two frames or more, which
`b_tree_init` holds at once). `NoPinLeft` says that a call returns every pin it took, as
long as `get_page` has not failed; it says nothing of the inside of the index. `PinsInv` says per page
what it says per frame, and that the file has the control block and a root. The proof follows the
calls down: `Returns(s, t)` says that a function entered in `s` and left in `t` has raised no page's pins,
`Owes(s, t, a)` that it has raised those of `a` by at most one, and `OwesTwo`, `OwesThree` likewise;
each function of `b_tree.c` gets one of them, put together from `get_page`, what it calls between,
and `release` (`Bracket`). Nothing is assumed of the contents of a page, so it does not matter how many children a
node claims to have, whether two pages are the same, or that some are released twice: that only lowers
a count. What does matter is that the control block stays in its frame while it is pinned
(`HeldStays`): the root is looked up there, and the one released has to be the one that was got. The recursions are paths of
calls: every call on the path owes the pin of its node to the state it was made in (`CallsOwe`), and the
way up pays them back one by one (`UnwoundReturns`), both by induction over the set of numbers. (A path is as long as the cache at
most, `CachePage`, since every call pins a frame; so nothing is assumed of the tree's height.) What is
released twice may still be another holder's pin (`b_tree.c:147` takes that of `b_tree_insert` when the
root is a leaf), which this theorem allows.

*Store* (under `DegreeAssumption`, `CacheAssumption`, `TextAssumption`, `PtrAssumption`,
`RidAssumption`, `UpdatesAssumption`: any keys and values without the character 0, any size of a
pointer, any `DEGREE`, any cache of three frames or more, any number of updates). What makes this
hard is that the index goes wrong while the tables do not: a deletion takes the first entry away,
or none, or memory decides, so that entries of deleted records stay and come to name other records.

The first three theorems are about any index, with splits, moves and merges, and `FilesInv` says nothing
of it: `Owned` says that records share no string and that all strings are
theirs, which a deletion and an insertion keep because both go by the record and not by the entry;
`Given` says that every record is the key and value of some update. `AnswersBelong` follows from what
`BTreeSearch` does in an index of any shape: a path of calls ends, at the last of them at an entry
that compares as equal or at none, and its entry is among those it has `met`. A text
that compares equal to the first characters of a stored key is those characters.

The other two are about stores whose index is one leaf, because their hypotheses say so (at most `Limit`
updates, or no two keys at a time). `Holds` gives the frames, pins and file of such an index, up to
its entries and to what is parked in the frame of the root's missing parent; for that the module
works out what `b_tree_init`, `b_tree_search`, `b_tree_insert`, `b_tree_delete` and `b_tree_close`
leave of it (`BTreeInitIs`, `SearchIs`, `InsertIs`, `DeleteIs`, `Closes`), through every
`get_page`, `release` and store they make. `AscendingInv` says that the entries follow the updates one
by one, as no search finds anything to delete while keys ascend. `LoneInv` says that the tables are empty or
have one record, which is in the first place of its table as its key's string is in the first of the other,
which is why the RID that `b_tree_delete` is given hits; and so the leaf is empty again whenever the tables are, after any number of calls.

*Server* (under `ServerAssumption`: any clients, keys, values, numbers of requests and
signals, also when clients vanish except in `ServerIsKVService`). `MutualExclusion` alone is not
inductive: it does not say that the mutex belongs to the one who is inside. `LockInv` adds
that, and what only the order in `exit_nicely` gives: as long as the pools are open no
handler is past `myjql_close`, so the mutex has been neither given back by a handler nor
destroyed, and no handler runs `myjql_close` on top of a call of its own thread. The theorem ends
where the pools are closed, and it has to: `server_window` reaches calls that begin after that.
`TypeInv` adds to `TypeOK` that a thread that goes for the mutex has a request and one that replies has an
answer. The refinement needs `CallInv` beside `LockInv`: a call works on its own client's
request, and on the store as it is, because the mutex keeps it from changing under the
call; there is one lemma for each kind of step. The theorem supposes
`~MayVanish`, and has to: `server_phantom` is the counterexample without it.

*Wire* (under `SizeAssumption`, `LineAssumption`: any lines with words that are not empty, any
number of them, any `MAX_STR_LEN`, any cut a `recv` makes, a server that stops at any time). `IInv`
says what is on its way: `Between(m, i, j)` are the messages `i + 1` to `j` of `m`, end to end. In the
direction of the server they are those of the request (`Asked`) that the driver has sent (`Sent`)
and the thread not received (`Taken`, by its place); in the other those of the
answer (`Reply`, of the request served last) that the thread has sent (`Spoken`) and the driver not
received (`Heard`). `Receiving` and `UpFramed` relate what the thread has received so far to the command,
`Commanding` what is left to send. A driver that meets the end of the stream goes on with the old value of
`code`, so `Heard` may exceed `Spoken` once the server has stopped; what saves a get then is that
`code` is at least 1 after a length was sent, so it is never taken for "not found", and that a text of
no characters is not one of that length. After a `recv` of a part `DownLost` or `UpLost` holds instead: the
stream begins with a character, so the side that is next to receive an integer gets no further and
what is printed till then is still true. `StaysInStep` is what remains without short reads.

TLC has checked every one of these formulas on the instances of section 3, the inductive invariants before
they were proved (`Holds`, which quantifies over all environments of the index, for the one it has
between calls; of `PinsInv`, which quantifies over all pages, what it says of those in a frame, and
that is `NoPinLeft`).

Model-checked only: the other invariants and the refinement of `BTree`, which depend on the shape of
the tree and so on what recursive functions over it compute, and liveness
(`RequestsAnswered`, `StopTerminates`, `CommandEnds`), which is with `ENABLED` out of the
prover's reach.

## 5. Not modelled

* Disks that fail, and what a kill loses: `fwrite` leaves pages in stdio's buffer and
  nothing syncs or repairs, so the code promises nothing to check. A call into the store is
  one step for its callers; a process that ends inside one is not followed.
* `print_hash_table`, `print_block`: they only read, and nothing calls them.
* What the free-space map does once its 200000 blocks are used up: the last block is
  followed by the sentinel page and then by the control block, which is overwritten.
* What is misread after an index entry without a record was followed (`status` is
  `undefined`), after a stream got out of step (`astray`), or after a call on closed pools
  (`crashed`).
* The Windows build with its control handler (`myjqlserver.c:430-472`), the locks inside the C
  library that a signal handler may need (`myjqlserver.c:404`), and a thread that spins after end of
  file because its last code was above 3 (`myjqlserver.c:385`) other than by making no step.
* Prompts, messages, statistics in comments.
* `save/`, `save2/` (older copies of the sources that nothing compiles), `build/`
  (generated) and the tests, which were read for the calls' preconditions.

The whole store is not composed from the detailed modules of every layer in one run. From the file to
the tables, the strings and the index, each layer is shown to keep the promise the next one is written
over. `myjql.c` is where that ends: it promises a map, which `Server` and `Wire` are
written over, and the findings of section 3 show that it does not keep it. What is shown of `Server` and
`Wire` is therefore about the server, the driver and the shell over a store that works, and says of the
program as it is only that they add no errors of their own to those of its store.
