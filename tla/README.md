# A TLA+ model of BusTub in learning-journey

This directory holds TLA+ specifications of the parts of the repository that
have behaviour worth checking, the TLC configurations that check them on small
instances, and TLAPS proofs of the results that hold for every instance.
`PROJECT.json` lists components, runs, mutants, the mapping of definitions to
source lines, findings, hazards and theorems.

Run a model with `tlc -config Channel.cfg Channel` and check a proof module
with `tlapm PartsProofs.tla`.

## 1. The system

The repository is a learner's collection. Nearly all of the code is a checkout
of BusTub, a teaching database, in which some parts are complete and others are
stubs whose bodies throw `NotImplementedException` or are empty. Next to it are
small exercises (an arena allocator, a vector, thread exercises, smart pointers).

| Component | Source (under `src/bustub/src` unless given) | State | Operations | Hard behaviour |
|---|---|---|---|---|
| Disk manager, pages | `storage/disk/disk_manager.cpp` | `pages_`, `free_slots_`, `page_capacity_`, the file, the stream | `WritePage`, `ReadPage`, `DeletePage`, `ShutDown`, reopening | one of several I/O calls fails; slots reused; the file grows at a boundary |
| Disk manager, log | same file | log file, `flush_log_`, `buffer_used` | `WriteLog`, `ReadLog` | failing writes and flushes, sticky stream errors |
| In-memory disk | `storage/disk/disk_manager_memory.cpp`, `.h` | `data_`, page locks, latency ring | `WritePage`, `ReadPage`, `PostProcessLatency` | two levels of locks, a vector that grows meanwhile |
| Channel | `include/common/channel.h` | queue, mutex, condition variable | `Put`, `Get` | lost and spurious wakeups |
| Table page | `storage/page/table_page.cpp` | slot array, tuple data | insert, update meta, update in place | unsigned arithmetic at the edge of the page |
| Table heap, iterator | `storage/table/table_heap.cpp`, `table_iterator.cpp` | page chain, `last_page_id_`, latches | `InsertTuple`, `MakeIterator`, `operator++` | scans racing with inserts |
| Version links | `concurrency/transaction_manager_impl.cpp` | tuples, `version_info_`, three locks | read and update of tuple with undo link | atomicity over separate locks |
| Sessions | `common/bustub_instance.cpp`, `bustub_ddl.cpp`, `concurrency/transaction_manager.cpp` | `current_txn_`, transaction states | `ExecuteSql`, BEGIN, COMMIT, ABORT, `\txn` | every way out of a statement, exceptions in the handler |
| Catalog and DDL | `include/catalog/catalog.h`, `common/bustub_ddl.cpp` | five maps, `catalog_lock_` | CREATE TABLE, CREATE INDEX, binding, planning, `\dt`, `\di`, `\dbgmvcc` | readers without the lock |
| Type system | `type/`, `include/type/` | none (pure) | arithmetic, comparison, casts twice over, texts | widths, the NULL sentinels, dispatch on the left operand |
| Tuples, schemas | `storage/table/tuple.cpp`, `catalog/schema.cpp` | bytes | build, read a column, build a key, (de)serialise | offsets around NULLs and variable lengths |
| Binder | `binder/` | scope, CTE scope | one function per kind of node | names through aliases, subqueries and CTEs |
| Planner | `planner/` | `PlannerContext` | statements to plans | column numbers for names, two walks that must agree |
| Optimizer | `optimizer/` | none | five rewriting rules in two orders | equivalence, rules that depend on each other's order |
| Executors | `execution/` | cursors, left-over batches | `Init`, `Next` | batches that end inside batches |
| STL indexes | `include/storage/index/stl_*.h`, `generic_key.h` | two maps | insert, delete, look up, iterate | comparator, equality and hash must agree |
| Front ends | `src/bustub/tools/shell`, `nc-shell` | query so far, client's transaction | read, execute, disconnect | input cut anywhere |
| sqllogictest | `src/bustub/tools/sqllogictest` | records, options | parse, run, compare | a script that passes without having tested |
| Count-min sketch | `primer/count_min_sketch.cpp` | counters | `Insert`, `Count`, `Merge`, `Clear`, moves, `TopK` | concurrent inserts and estimates |
| OR-set driver | `primer/orset_driver.cpp` | saved copies, versions | `Add`, `Save`, `Load`, `Sync` | copies read in any order, merges that throw |
| Arena, vector | `src/Allocator`, `src/Containers/vector` | buffer, blocks | allocate; construct, copy, move, grow | ownership, failing allocations, alignment |
| Buffer pool, guards, replacers, disk scheduler | `buffer/`, `storage/page/page_guard.cpp`, `storage/disk/disk_scheduler.cpp` | | stubs | |
| Index pages and trees, lock manager, watermark, recovery | `storage/index/`, `container/`, `concurrency/`, `recovery/` | | stubs | |
| Other exercises | `src/Concurrency`, `src/Miscellaneous` | none that lasts | | |

How they interact: a front end or the sqllogictest runner collects a string and
gives it to a session; the session calls binder, planner, optimizer and
executors inside a transaction; binder and planner look names up in the catalog
and compute with values of the type system; executors reach tuples through the
table heap, whose pages are table pages under buffer pool guards; indexes hold
keys made of tuples; version links tie tuples to the undo logs of transactions;
the buffer pool is to reach the disk managers through the disk scheduler, which
is to use a channel. `Query` composes binder, planner, optimizer, executors and
type system; `TypeSystem` composes values with tuples; `DiskManager` is composed
with its abstract specification.

The buffer pool and its guards are unimplemented here. `TableHeap` and
`VersionLinks` therefore model a page guard by what their callers rely on: a
read guard is a shared latch of the page, a write guard an exclusive one.

## 2. Modules

| Module | Models | One step is |
|---|---|---|
| `PageStore` | what a disk manager promises: an abstract store of pages | a call |
| `DiskManager` | slots, capacity, file and stream of the file-backed disk manager; implements `PageStore` | a call (all hold `db_io_latch_` throughout) |
| `LogFile` | the log file of the same class | a call |
| `MemoryDisk` | `DiskManagerUnlimitedMemory` | a lock operation, half a page copy, a load or a store of `num_writes_` |
| `Channel` | `Channel<T>` | a lock operation, push, pop, notification or wakeup |
| `TablePage` | the slotted page, with `uint16_t` and `size_t` arithmetic | a call |
| `TableHeap` | heap and iterators; a page is its tuple count and next page | a latch or guard, with what is done under it |
| `VersionLinks` | `UpdateTupleAndUndoLink`, `GetTupleAndUndoLink` and the functions below them | a lock, with what is done under it |
| `Session` | `ExecuteSql`, transaction statements and commands of one managed session | a statement |
| `Catalog` | the catalog under the statements of several connections | an update of, or a lookup in, one of the maps |
| `Values`, `IntegerArith`, `Types`, `ValueFactory` | values and their texts; the overflow tests of `IntegerParentType`; the type objects; the factory's casts | operators |
| `Tuples`, `TypeSystem` | columns, schemas, tuples as bytes; a caller of all of these | a call of an operation |
| `Bound`, `Binder` | bound trees; the binder on parse trees | operators |
| `Plans`, `Planner` | expressions with their evaluation, plan nodes; the planner | operators |
| `Optimizer` | the rules and their two orders | operators |
| `MockTables`, `Executors` | the mock tables; executors as records, `NextBatch` | operators |
| `Meaning` | reference definitions: what a statement asks for, what a plan computes | operators |
| `Query` | a statement through `ExecuteSqlTxn` | bind, plan, optimize, create, or one call of `Next` |
| `StlIndex` | the ordered and the hashed index, given the same calls, and an iterator | a call, or a step of the iterator |
| `Shells` | one session of a front end | a read, an execution, the end of the input |
| `SqlLogicTest` | parser and main loop of the runner | the parse, an option, a record |
| `CountMinSketch` | the sketch | a row of `Insert` or `Count`; other calls are whole |
| `ORSetDriver` | nodes that publish and read versions | a call, up to the `Merge` that throws |
| `Arena`, `Vector` | the allocator over a buffer; the container over a heap | a call |
| `DiskManagerProofs`, `TableHeapProofs`, `CatalogProofs`, `TypeSystemProofs`, `CountMinSketchProofs` | theorems about the module of that name | |
| `StorageProofs` | theorems about `StlIndex`, `TablePage` and `VersionLinks`, the versions of a page's tuples | |
| `SessionProofs` | theorems about `Session`, and about `Arena`, `ORSetDriver` and `LogFile`, which share no state with it | |
| `PartsProofs` | theorems about `Vector`, `MemoryDisk` and `Channel` | |
| `MC...` | constants for TLC, where a configuration file cannot state them; `MCParts` also puts ten modules side by side | |

Variables carry the names of the members they stand for; history variables
(`acked`, `victim`, `written`, `stack`, `visited`, ...) are marked as such where
they are declared. `TypeOK` says what the variables of a module range over.
Operators named `X_Y` or `XSomething` directly before `X` and commented as
mutants are `X` with a defect, used to show that a property can fail.

Reductions worth knowing:

- Disk offsets are counted in pages, log offsets in records. A page that was
  only partly written is `Torn`. A stream is good, bad (badbit, sticky) or closed.
- `MemoryDisk` copies a page in two halves, enough for a torn read to show. The
  latency simulator is taken to be on; its sleeping is left out.
- `TablePage` keeps header, entry and page sizes as constants, and wraps at
  `U16` and `SizeT`. Of the page's bytes it keeps which tuple contents, or slot
  entry, wrote each of them last.
- `TableHeap` has three kinds of tuple and does not keep their lengths. Small and
  long ones fit an empty page, huge ones none; whether a page that has tuples
  takes another is left open. A long or huge tuple may also be longer than what
  is left below the last one: `GetNextTupleOffset` wraps and accepts it
  (`InsertWrapped`), and nothing is said of what follows.
- In `Session` timestamps stay 0, as `Begin` and `Commit` do not set them here.
  A statement is reduced to how it ends.
- `VersionLinks` numbers versions, and undo log `v` belongs to version `v`.
  The callers (executors that are still stubs) are modelled by the protocol the
  functions are made for: read, append an undo log, update with a check that the
  tuple has not changed, perhaps put the old version back.
- `CountMinSketch` takes the caller's obligation from the class: `Merge`,
  `Clear`, `TopK` and moves run alone, `Insert` and `Count` may overlap.
- In the type system an integer type is its half range (`Half`), so that widths
  can be scaled; the smallest value is NULL, as in `limits.h`. Arithmetic wraps
  at those widths before the overflow tests look at it. A DECIMAL is an exact
  fraction; an integer that becomes one is rounded to the nearest double (`Double`
  says up to where doubles are exact, how far apart they are beyond, and the
  limits the casts from text test). Rounding of the results of DECIMAL arithmetic
  and infinities are left out. A stored number is a sequence
  of pieces that know which number they are of, so a read at a wrong offset gives
  something that is no value.
- A call that throws returns a record that says so; the caller passes it on as
  the exception would travel. A failed `assert` is a result of its own: the
  default build is a debug build.
- Parse trees are records with the tags of the parser's nodes. Texts are
  sequences of character codes only where a conversion looks into them.
- An executor is a record of its fields, and `NextBatch` returns what `Next`
  leaves behind. Executors that throw here make a statement fail.
- `Shells` takes input as a sequence of tokens; a network client receives it cut
  anywhere. `SqlLogicTest` leaves the database's answer free, and keeps of each test
  that passed whether `main` came to run it.
- In `ORSetDriver` a set is the uids of the Adds that reached it, as ORSet itself
  throws; a `Merge` takes everything in or throws.

## 3. Runs

Every run finishes its bounded state space. Each property has a mutant of the
code that breaks it.

| Run | Instance | What it shows |
|---|---|---|
| `disk_manager` | 3 pages, 2 contents, capacity 2, 2 writes and 2 deletions between reopenings; writes, flushes, reads and resizes may fail | `SlotOwnership`: a slot belongs to one page or is free, once. `AckedIntact`: an I/O error costs at most the page it hits. `ImplementsPageStore`: the refinement |
| `channel` | 2 producers, 2 consumers, 2 elements, 4 puts; deadlock checked | `PopsInOrder`, `NoLostWakeup`, and, fairly, `ElementsTaken` |
| `table_page` | page of 19 bytes, lengths 1, 3, 5, 2 contents, 5 tuples | `TuplesInPage`: no overlap with slots, page end or each other. `TuplesReadBack`: `GetTuple` returns what was last stored in the slot |
| `table_page_large` | page of 30 bytes, lengths 3 and 20 | violation: see section 6 |
| `table_heap` | 2 inserters, 1 scanner, 4 pages of 2 slots, starting empty | `ScanIsSnapshot`, `ScanSeesReturned`, and, fairly, `CallsFinish` |
| `session` | strings of one or two statements and of three around a BEGIN, all `\txn` commands, 4 transactions | `OwnTxnFinished`, `NoTxnLost`, `FinishedForever` |
| `catalog` | 2 connections, 2 table names, 1 index name, 2 oids | `NamesResolve`, `BoundStays`, `OnlyIndexDisplayFails`, and, fairly, `StatementsFinish` |
| `types` | integers of 2, 3, 6 and 9 bits, doubles exact up to 2^7, all values of the narrow types and those near every limit of the wide ones, halves as DECIMALs, texts, timestamps, rows of up to 3 columns | `ArithmeticExact`, `CompareConsistent`, `CastExact`, `FactoryAgrees`, `TextsReadBack`, `RowKeepsValues` |
| `query` | 2 indexed tables of 3 rows with NULLs and repeated keys, mock tables of at most 4 rows; 16 FROM clauses with every condition and shape, and statements of every other kind; batches of 1 to 3 | `PlanMeansStatement`, `OptimizerKeepsMeaning`, `ExecutionExact`, `BatchesFilled`, `NamesFound` |
| `query_outer_join`, `query_nested_with` | one statement each | violations: see section 6 |
| `parts` | ten modules side by side, each explored by itself | see below |

The modules of `parts` share no state: a variable `part` says which of them
moves, so the run is the union of ten small ones.

| Part | Instance | Property |
|---|---|---|
| log file | 2 buffers, 2 records, 4 writes; writes and flushes may fail | `LogIsPrefix`: no gap after a lost record. `ReadsBack`: reads give what was written at the offset, then zeroes |
| in-memory disk | 2 threads, pages 0 to 2, empty `data_`, ring of 2, 3 accesses | `MemoryReadsBack`: no torn or stale read, and the latency ring is in order |
| version links | 3 threads, 2 tuples, 2 versions | `VersionsAtomic`: reads pair a tuple with its own link, no version drops out of a chain, and the locks do not deadlock |
| sketch | 2 threads, 2 sketches, 3 keys, 2 rows of 2, 2 inserts | `SketchesSound` |
| OR-set driver | 3 nodes, 1 Add, 2 saves of each | `ReadMeansMerged` |
| vector | 2 vectors, 3 blocks, up to 3 elements | `VectorsOwnTheirElements` |
| arena | 12 bytes, sizes 1 and 3, alignments 1, 2, 4, 3 blocks | `BlocksApart` |
| STL indexes | 3 rows, keys of 2 columns, 2 buckets, 4 calls, an iterator | `IndexesExact` |
| front ends | 3 lines out of 4, cut anywhere | `SessionsSound` |
| sqllogictest | every pair of 14 blocks with and without a blank line, every option before a statement without any | `ZeroMeansAsExpected` |

Why the bounds are enough to be interesting:

- Three pages with an initial capacity of two make the file grow, and two
  deletions put two slots on the free stack while other pages are accessed.
- Four puts for two consumers give a notification while one consumer waits and
  another is between its test and its wait.
- A page of 19 bytes is full after a few tuples, so the last tuple meets the slot
  array at every distance; both moduli are scaled down in the same proportion
  (`PageSize < U16 < SizeT`).
- Heap pages of two slots make inserters append pages during a scan, and starting
  empty includes the scan of an empty heap.
- Two oids are two tables and two indexes; both connections may create the same
  name at once.
- The scaled integer types keep the relations the code depends on: each is
  narrower than the next, and the product of two SMALLINTs fits an `int`. The
  operands lie on both sides of every limit of every type, so each overflow test
  is met where it turns. BIGINT goes further than doubles are exact, so casts and
  comparisons meet integers that are rounded.
- Three statements around a BEGIN are the strings in which something ran before it
  and something fails after it.
- The tables of `query` have rows that join, rows that do not, a NULL on each
  side and equal keys. With 3 or 4 rows and batches of 1 to 3 an operator's batch
  ends before, at and after the end of its child's.
- Two keys of the sketch share a counter in each row. `U32` is 4 with 2 inserts,
  so counters do not wrap.
- Three nodes of the driver are needed for a copy to arrive by way of another
  node, two saves for a version to be overwritten unread.
- The index keys take the columns in another order than the table and differ in
  one of them only.

Symmetry is used for model values in safety runs only. `CHECK_DEADLOCK FALSE` is
set where the modelled process can end: a failed assertion or null pointer
(`Catalog`, `TableHeap`), the bound on transactions (`Session`), the bounds of
`MCParts`.

### Fairness

- `TableHeap`: weak fairness of a thread that is inside a call. A thread waits
  for `latch_` only before it has entered, and for a page latch only while its
  holder can go on.
- `Catalog`: strong fairness of a connection that has begun a statement, because
  `catalog_lock_` can be taken by others again and again; `std::shared_mutex` is
  assumed not to starve a waiter for ever.
- `Channel`: weak fairness of the steps a thread takes while it holds the mutex or
  has yet to notify, strong fairness of a woken `wait` getting the mutex back, for
  the same reason. Calling `Put` or `Get` is never fair: it is the caller's choice.

## 4. Proofs

All theorems hold for every value of the constants that satisfies the named
`ASSUME`s of the component's module: any number of threads, pages, names,
versions or transactions, any page layout and any widths.

**`DiskManagerProofs`.** `TypeCorrect` needs nothing further. `OwnershipHolds`,
`AckedIntactHolds`, `ReadYourWritesHolds` and `ImplementsStore` assume
`FileSizeFits`: `stat` does not fail and the file stays below the size at which
`int` overflows. Section 6 says what happens otherwise. `SlotOwnership` alone is
not inductive: `AllocatePage` appends at `pages_.size()`, which is a fresh slot
only if the slots handed out are exactly the first ones of the file. The inductive
invariant `OwnershipInv` therefore adds that slots are covered without a gap
(`SlotsCover`), that they lie in the file (`SlotsInFile`, one slot further after a
failed resize), that the file never exceeds the capacity by more than one page, so
that a resize only extends it (`FileBound`), and that the capacity is bounded by
the pages (`CapacityBound`), which keeps the size within `int`. One lemma per
operation; `SlotFresh`, `RecordOwned`, `FileKept` and `AckedKept` hold the
arguments they share. `ImplementsStore` is the refinement: the initial states map
to initial states of `PageStore`, and under `OwnershipInv` every step maps to a
step of `PageStore` or leaves its variables alone.

**`StorageProofs`, the page.** `TuplesFit` and `TuplesAlwaysReadBack` assume
`SmallTuples`: no tuple is longer than the page header and one slot entry. This is
the exact condition under which the subtraction in `GetNextTupleOffset` cannot
wrap whatever the page holds. `TuplesInPage` is inductive with `TypeOK` because it
is stated for every pair of tuples, so that the last one bounds the new one
(`OffsetExact`). `TuplesReadBack` is inductive with it: a `memcpy` of the size kept
in the slot reaches no byte of another tuple or of the slot array.

**`StorageProofs`, the versions of its tuples.** `ReadsStayAtomic`,
`ChainsStayComplete` and `LatchesGuard`, about an instance of `VersionLinks`. The
two safety properties speak of a read that has returned and of a tuple no update
is at work on. `VersionInv` says what holds in between: the three locks have
exactly the holders the program counters say (`Locked`), the undo logs form chains
that go down (`Chains`), tuple and link differ only for the thread that holds the
page latch and has written one of them (`Links`), and what a thread has read under
the latch is still there (`Reading`, `Writing`). `StepFrame` says that a step of
one thread leaves the others' program counters and locals alone, and one lemma per
conjunct carries it over all steps.

**`TableHeapProofs`.** `HeapTypeCorrect`, `ScansAreSnapshots` and
`ScansSeeReturned`. A scan reads `last_page_id_` under `latch_`, the number of
tuples under the page's latch, and the tuples one at a time, so the proof needs
what the heap looks like at each of those points. `HeapInv`: the pages are chained
in the order they were made and all but the last hold tuples (`Chained`), latches
are held where the calls are (`Latched`), and an empty last page is one that the
holder of `latch_` is about to fill (`Growing`). `ScanInv`: the stop rid lies in
the heap and bounds the snapshot (`StopInv`), and the rids visited are exactly
those below the position (`PositionInv`), for the scans that were not made of an
empty heap (`Bounded`).

**`PartsProofs`, the channel.** `ChannelInOrder` and `ChannelWakes` are proved from
`ChannelInv`, the conjunction of the type invariant with `PopsSomething`,
`InOrder` and `NoLostWakeup`, for any number of threads. `NoLostWakeup` is
inductive because a consumer joins the waiters while it holds the mutex and the
queue is empty, and a `Put` that has pushed still has its notification to come.

**`SessionProofs`, the session.** Strings may have any number of statements in any order.
`OwnTxnAlwaysFinished` and `FinishedStays` hold for all of them, from
`IInv = Typed /\ OwnInv`: a transaction that BEGIN did not start and that is not
finished is the one of the call under way. `NoTxnEverLost` needs
no assumption either. `NoTxnLost` has an exception, because a statement after a
BEGIN runs in the transaction of the call: when it fails, the handler resets
`current_txn_` to null, which leaves the transaction of the BEGIN running (the
history variable `dropped`). The theorem shows that there is no other way to lose
one. Its invariant `LostInv` says the same of a call under way, whose own
transaction may also be live, and that this one is the current transaction only
if the user switched to it.

**`CatalogProofs`.** `NamesAlwaysResolve`, `BindingsStay`, `AssertionsHold` and
`CatalogTypeCorrect`. The maps are filled one after the other under
`catalog_lock_`, and binders and listings read them without it. So `IInv` says,
for the holder of the lock at each step, which oid it has taken and which maps
already have it (`Creating`, `Indexing`), that oids not handed out are in no map
(`Fresh`; so an `emplace`, which keeps an entry that is there, does insert), and
that the maps otherwise agree (`TableMaps`, `IndexMaps`). `Counted`
ties the bound on oids to the statements under way, so that the bound in the guards
never cuts a statement short.

**`TypeSystemProofs`.** `ArithmeticAlwaysExact`, `ComparisonsAgree`,
`CastsAreExact` and `FactoryAlwaysAgrees` hold for integer types of any widths
that grow from each to the next, as long as the product of two SMALLINTs fits an
`int` (`HalfAssumption`), doubles of any precision (`DoubleAssumption`), and any
operands that are values (`OperandsAssumption`). A call leaves its operands and its result behind
(`CallInv`), so the theorems are the lemmas `ArithmeticResult`, `CompareResult`,
`CastResult` and `CastsAgree` about the operators of `Types`, `IntegerArith` and
`ValueFactory`: what wrapping does to a sum, a difference and a product, that the
tests of `AddValue` and its neighbours see it, and that the order the comparison
macros compute is the order of the numbers as fractions. An integer that becomes
a double is the same number up to 2^53 and off by less than one part in 2^53
beyond (`IntegerAsDouble`, from what `Ulp` and `Nearest` choose); `CastExact`
says so of a BIGINT, and every other cast is exact or throws.

**`SessionProofs`, the arena.** `BlocksStayApart`: `BlocksApart` holds for every
buffer size and every request below the wrap of `size_t` (`ArenaAssumption`:
containers ask for at most `max_size()`), for the alignments of scalar types.
`BlocksApart` speaks of the blocks in use and is not inductive: the invariant says
that all blocks ever handed out lie one after the other below `next`, released
ones included, because `deallocate` gives nothing back.

**`SessionProofs`, the OR-set driver.** `ReadIsMerged`: `ReadMeansMerged` holds for
any number of nodes. It is inductive with the types: `Save` publishes under a
version no node has read (`SavePublishes`), and a load records versions only of
copies it has merged, also when a later `Merge` of the same `Sync` throws.

**`SessionProofs`, the log.** `LogStaysPrefix` and `LogReadsBack`: from `LogInv`,
which adds to the prefix that as long as the stream is good nothing is missing
from the file. `LogBound` says that the bound on the records is a positive number.

**`PartsProofs`, the in-memory disk.** `MemoryAlwaysReadsBack`, for any threads,
contents, capacity and ring. `MemoryReadsBack` speaks of a read that is over;
`MemoryInv` says what holds while the copies are under way. `LocksHeld`: `mutex_`
and each page's lock are held by exactly the threads inside the code they guard,
and only a thread inside the copy can be at its second half. `PagesStored`: a page
in memory is the one last written, but for the page that a writer has half
written. `Copied`: what a thread has copied so far is what the page holds, which
survives the steps of the others because they would need the page's lock. The
ring needs only that `access_ptr_` is where the next entry goes.

**`PartsProofs`, the vector.** `VectorsAlwaysOwn`, for any number of vectors and
blocks, any lengths, and allocations that fail at any point. The invariant `Owned`
is stated about any heap, objects and lists, not only the current ones, because
copy assignment, `reserve` and `push_back` pass through heaps that no state shows:
one lemma each for releasing a block, filling a free one, handing a block over and
writing one element, and each operation is a chain of these.

**`StorageProofs`, the indexes.** `IndexesAlwaysExact`, for any rows, any indexed
columns, any hash table size and any sequence of calls. `IndexesExact` compares
lookups with the history of calls. `MapsAgree`, its inductive form, says of every
key whether the two maps have it and which call put it there; it needs the
comparator to be a strict total order on keys (`BeforeTransitive` and its
neighbours: `Compare` finds the first column that differs) and equal keys to hash
alike. `OnItsWay` says where an iterator is: on the last key it visited, with
every key that stayed behind or ahead of it.

**`CountMinSketchProofs`.** `SketchesAlwaysSound`, for any finite sets of clients
and keys, any width, depth and hash functions, as long as there are fewer than
2^32 inserts. `CountBounds` says nothing of a row that some inserts have reached
and others have not. `CountsAdd` does: what the counters of a row have counted and
the inserts under way that have not reached that row (`Pending`) add up to the
inserts begun of the keys that meet there. `LockHeld` says that no increment is
lost between its read and its write, `Estimates` that a `Count` under way is
bounded by the rows it has read. Sums are cardinalities of sets of units
(`SumOf`), so that they can be reasoned about without induction.

Only model-checked:

- Liveness under fairness, which the prover does not do: `ElementsTaken`,
  `CallsFinish`, `StatementsFinish`. So is what `VersionsAtomic` says beyond
  `ReadsAtomic` and `ChainComplete`: that some step is enabled (`ENABLED`).
- What recursive definitions compute, for which the prover would need induction
  over data: `TextsReadBack` (texts of numbers, digit by digit), `RowKeepsValues`
  (offsets as sums over the columns) and all of `Query`, whose trees are walked by
  recursive operators.
- `SessionsSound` and `ZeroMeansAsExpected`, for the same reason: what `Shells`
  has read is compared with the input by filtering and joining sequences, and
  `SqlLogicTest` parses and sorts with recursive operators.

## 5. Limits of the models

- `Session` is one managed session. Consequences of the code that are visible in
  the model and not stated as properties: statements that follow a COMMIT in one
  string run in the finished transaction, and tainting a transaction that is no
  longer running ends the process (`std::terminate`). Only `bustub::Exception` is
  caught in `ExecuteSql` (`bustub_instance.cpp:263`), and the model throws nothing
  else.
- `UpdateTupleAndUndoLink` hands its check the new undo link and not the one in
  the map. The model checks the tuple, as a caller has to.
- The sketch's counters and the driver's versions wrap after 2^32 steps; the runs
  stay below.
- `Types` computes with exact fractions for DECIMAL. `FactoryAgrees` says nothing where one
  of the two casts throws: they do not refuse the same numbers.
- Timestamps with a zone below -12 are left out (`StampsAssumption`): the packed
  number wraps in `uint32_t` there.
- `Query` leaves out what has no defined result: a column reference inside
  VALUES, `t.*` of an unknown table, an UPDATE of an unknown column, CROSS JOIN
  (an assertion fails), and NULLs in an indexed column. `NamesFound` lists the
  cases in which the planner does not find a name the binder resolved; no
  statement of the run has a WITH inside another that uses a name of it again.
- Joins, aggregations, sorts, window functions and changes of tables are compared
  as plans; their executors are stubs, so `ExecutionExact` covers scans, values,
  filters and projections over mock tables.
- `StlIndex` interleaves whole calls. The iterators take no lock
  (`stl_ordered.h:98`), and a race inside a call is undefined.
- `Vector` follows a vector whose copy assignment failed only as `broken`, and
  `push_back` of an element of the vector itself is left out: both leave a
  dangling pointer.
- `CallsFinish` is about `InsertTuple` and scans of `MakeIterator`. A scan of
  `MakeEagerIterator` follows the inserts and need not end.
- `IndexesExact` takes from the standard that iterators of `std::map` stay valid
  when other keys are inserted or erased.
- `Shells` is one session; `ZeroMeansAsExpected` is about scripts the parser
  accepts.

## 6. Disagreements met

Shown by a violation run:

- `table_page.cpp:43`: for a tuple longer than the room below the last tuple,
  `slot_end_offset - tuple.GetLength()` wraps in `size_t`; the comparison that
  should refuse the tuple passes and an offset outside the page is stored
  (`table_page_large`).
- `merge_filter_nlj.cpp:90`: a filter above a LEFT JOIN whose condition is
  constantly true becomes the join's condition, and the rows it had removed come
  back padded with NULLs (`query_outer_join`).
- `plan_table_ref.cpp:144`: the body of a CTE in an inner WITH that names a CTE of
  the outer one is bound to it and planned with a later CTE of the inner list that
  has the same name (`query_nested_with`).

Visible in the models, without a run of their own. Storage:

- `disk_manager.cpp:122`: with `"stat"` in `Faults`, `PagesDistinct` fails.
  `ReadPage` pops a free slot, returns because the size is unknown, and the
  slot count is then one short: a later append gives out a slot in use.
- `disk_manager.cpp:253`: with `IntPages = 4`, `ReadYourWrites` fails: once the
  size does not fit an `int`, `ReadPage` takes stored pages for pages past the end.
- `disk_manager.cpp:201`: `FlushFails` of `LogFile` clears `flush_log_` although
  the record may be lost.
- `disk_manager_memory.cpp:97`: `CountLoad` and `CountStore` of two writers of
  different pages interleave and `num_writes_` loses an update.
- `table_page.cpp:77`: `num_deleted_tuples_` is not decremented when a tuple is
  undeleted and not incremented when one is inserted as deleted.
- `table_iterator.cpp:50`: the exception in `ScanIsSnapshot`. An iterator made of
  an empty heap and constructed after the first insert returns a tuple past its
  stop rid and fails "iterate out of bound".
- `table_heap.cpp:67`: a tuple that fits no page ends the process, where the
  comment at line 50 promises `std::nullopt`.

Sessions and catalog:

- `bustub_ddl.cpp:209`: BEGIN and COMMIT in one string fail the assertion
  "txn mismatched??" (`Mismatched` in `Session`).
- `bustub_instance.cpp:264`: when a string fails after its BEGIN, the transaction
  of the BEGIN is no longer current and stays unfinished (the exception in
  `NoTxnLost`).
- `bustub_instance.cpp:472`: `\txn -1` without a current transaction follows a
  null pointer (`TxnExit`).
- `bustub_instance.cpp:367`: `check_options` is moved away by the first statement
  of a string, so the others run without the checks.
- `bustub_ddl.cpp:64`: CREATE TABLE of an existing name with a primary key follows
  `NULL_TABLE_INFO` before testing it (`CreateBegin`).
- `bustub_instance.cpp:200`: `\di` without the lock can meet a table whose entry
  in `index_names_` is not there yet (the exception in `OnlyIndexDisplayFails`).

Types:

- `varlen_type.cpp:196` and `209`, `value_factory.h:265` and `323`: a VARCHAR cast
  to TINYINT or SMALLINT wraps without an error.
- `value_factory.h:153`: the DECIMAL 2^63 passes the factory's test, and the
  `static_cast` that follows is undefined; `CastAs` refuses it. The DECIMAL -2^63
  becomes NULL in `CastAs` (the exception in `CastExact`), as does every sum that
  equals the sentinel.
- `value.cpp:292`: comparing TIMESTAMPs fails the `CheckComparable` assertion.
- `value.cpp:292`: `'10' > 9` compares texts and `9 < '10'` numbers;
  `CompareConsistent` is about numbers and about values of one type.
- `bigint_type.cpp:325`: a BIGINT beyond 2^53 becomes the nearest double without an
  error (the other exception in `CastExact`).
- `value_factory.h:456`: a time zone from 15 to 26 runs into the day of the packed
  timestamp (`TextsReadBack` stops at 14).
- `column.h:97`: `TypeSize` returns `uint8_t`, so the length of VARCHAR(300) wraps;
  no offset depends on it.

Queries:

- `order_by_index_scan.cpp:52`: ORDER BY becomes an index scan without a look at
  NULLS LAST or at the kind of the index.
- `bind_select.cpp:756`: a column of a CTE under another name is bound under the
  CTE's own name, which the planner does not find (the exception in `NamesFound`).
- `plan_table_ref.cpp:144`: a CTE of an inner WITH that names an outer one of its
  own name is planned as itself, without end.
- `filter_executor.cpp:30`: `Init` of filter and projection keeps what is left of
  the child's last batch; no implemented executor calls `Init` twice.

Tools and exercises:

- `nc-shell.cpp:92`: line breaks are stripped from a network client's query, so the
  words of two lines run together, and where a query ends can depend on how the
  bytes arrive (line 98). `nc-shell.cpp:133`: at the end of its input the server's
  command line reads on for ever.
- `parser.cpp:90`: a statement that says neither ok nor error leaves `error`
  uninitialised. `sqllogictest.cpp:99`: `ensure:hash_join` also passes on a plan
  with a filter. `sqllogictest.cpp:195`: `timing` runs the statement again.
- `sqllogictest.cpp:336`: a `statement error` passes when one of its options throws,
  be it one that is not supported (line 223), and the statement is then never run
  (the exception in `ZeroMeansAsExpected`).
- `Vector.h:105`: copy assignment that fails to allocate leaves a dangling pointer.
- `Arena.h:63`: the comment says `n` is padded to the alignment; the code pads only
  the start.

## 7. Not modelled

- Parts that are stubs in this repository: buffer pool, guards, replacers, disk
  scheduler, B+ tree and extendible hash table with their pages, lock manager,
  watermark, recovery, most executors, the empty optimizer rules, SkipList, ORSet,
  Trie, HyperLogLog. There is nothing in them to be faithful to yet.
- Drawing and printing of trees, the benchmarks and the browser shells: output
  around the stubs.
- Formatting of plans, expressions and result tables, beyond the texts that other
  code reads.
- The thread and smart-pointer exercises: programs of a few lines in which every
  operation is one assignment or one library call.
- Third-party code, the parser included.

What would come next: the executors, once they are written, against `Denote`; the
buffer pool under `TableHeap` in place of the assumed guards.
