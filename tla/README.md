# QueryX in TLA+

QueryX is a small relational database in Python: SQL in, rows out, tables and
indexes in page files with a write-ahead log. It runs in one thread. What makes
it hard is therefore not interleaving of threads but what happens *between* the
steps of a call: the process may be killed between two page writes or in the
middle of one, a write may raise and the process go on, and long sequences of
legal calls must keep page layouts, trees and chains intact.

All paths below are relative to `src/queryx/`.

## The system

| component | state | operations | called by |
|---|---|---|---|
| Pager (`storage/pager.py`) | the data file, the free list, the log | open, read, allocate, free, write, sync, close | buffer pool |
| Log and recovery (`wal/`) | the `.wal` file | append, read until the first bad record, truncate; replay | pager |
| Buffer pool (`storage/buffer_pool.py`) | cached pages in LRU order, dirty set | get, new, mark dirty, flush one, flush all | heap, indexes |
| Slotted page (`storage/page.py`) | 4096 bytes | insert, get, delete a record; overwrite | heap, indexes |
| Heap file (`storage/heap_file.py`) | the last page | insert, delete, get, scan | statements |
| B+ tree (`index/btree.py`) | root page, max_keys | insert, delete, search, range scan | statements |
| Hash index (`index/hash_index.py`) | number of buckets | insert, delete, search | statements |
| Catalog (`catalog.py`) | schemas, indexes, row counts in one JSON file | create, drop, count | statements, planner |
| Statements (`database.py`) | open heaps and indexes | DDL, INSERT, UPDATE, DELETE, SELECT | shell |
| Planner, advisor (`planner/`) | predicate counters | choose a path, recommend an index | statements |
| Operators (`execution/`) | iterators | scan, filter, join, sort, aggregate | statements |
| SQL front end (`sql/`) | the position in the token list | tokens to trees | statements |
| Shell (`shell.py`) | none | text in, text out | |

Each table and each index has a file, a log, a pager and a pool of its own. A
statement flushes its table and that table's indexes one after the other when
it ends. Nothing joins the logs, so a statement is not atomic (the code's
`DESIGN.md` says so).

What makes each part correct:

* **Pager and log**: after a kill and an open, every page holds its last
  completed write or the one that was interrupted; the file opens; no page is
  handed out twice; the log is truncated only when nothing in it is needed.
* **Buffer pool**: reads give what was last written; a kill loses at most what
  was not flushed; a dirty page is never dropped unwritten.
* **Page and heap**: directory and records never overlap; a RowId names the same
  bytes from the insert that returned it to the delete that names it.
* **Indexes**: a search returns all entries of its key, a range scan all of its
  range in order; an insert adds one entry and a delete removes the one it names;
  a kill takes no entry but those of the statement it cuts short.
* **Statements**: heap, indexes and catalog agree; a statement that returned
  survives a kill; whichever way rows are reached, they are the same rows.
* **Planner**: whatever path it chooses returns the rows of the predicate, and
  what the advisor recommends serves the columns that were asked for.
* **SQL front end**: a statement is read as the grammar of `DESIGN.md` writes it,
  and nothing of an accepted text is ignored.
* **Operators**: what a query returns is an answer to the SELECT as written,
  with the rows, the order and the number of rows it asks for; what the
  validation accepts does not raise later, but for mistakes that can be listed; LIMIT stops the reading.

## Modules

| module | models | abstract specification |
|---|---|---|
| `Pager` | pager, log and recovery of one file | `AtomicPages` |
| `BufferPool` | the pool of one file | `BufferedPages` |
| `SlottedPage` | page layout, operators only | |
| `HeapFile` | a table over slotted pages | `RowStore` |
| `BPlusTree` | the B+ tree | `KeyIndex` |
| `HashIndex` | the hash index | `KeyIndex` |
| `Database` | statements and catalog over one table and its indexes | |
| `Planner` | access paths, their costs, the scans they lead to, the advisor | |
| `Comparisons`, `Queries` | a SELECT, its validation and its plan, operators only | |
| `SqlParser` | the recursive-descent parser, operators over a token list | |
| `SqlText` | the grammar, as the texts of a statement: what the parser is compared with | |
| `QueryPipeline` | a statement from its tokens on: parsed, and a SELECT run to its end | |
| `Counting`, `PagerProofs`, `BufferPoolProofs`, `HeapFileProofs`, `BPlusTreeProofs`, `HashIndexProofs`, `DatabaseProofs`, `PlannerProofs` | lemmas and theorems | |
| `BPlusTreeInvariant` | what holds of the B+ tree between its calls, operators only | |
| `MC*` | values for TLC | |

The modules are layered by what each promises: `Pager` implements `AtomicPages`
(a page write happens entirely or not at all, across kills). `BufferPool` takes
that for granted and implements `BufferedPages` (a kill takes each page back to
something written to it since its last flush). `HeapFile` takes that for
granted, in its operational form: any page may be written back at any moment.
`Database` takes from `RowStore` and `KeyIndex` what a table and an index hold,
and `Planner` takes from `Database` that index and rows agree, which is more than
`Agreement` gives once a tree has missed a delete. `QueryPipeline` takes from `Planner`
that a lookup or a probe returns the rows it should, and lets any index be chosen.

### Pager

A call of the pager is a list of page writes (`todo`); `pc` says which part of
`_persist_page` comes next: append the image to the log, write the page, or
checkpoint. `Open`, `ReplayStep` and `ReplayDone` are the constructor with
`replay`; `LoadHeader`, `LoadFails` and `CreateHeader` its end. `AllocateReuse`,
`AllocateExtend`, `FreePage`, `WritePage`, `Sync` and `Close` begin calls. `Kill`
can come at any step. When a log append is under way it may leave half a record,
when a page write is, a part of the new image (`TornWrite`). A record behind a torn
one cannot be read, as in `records`. A data page that is torn is `Torn`; of page 0 the
model says what is in it (`CutHeader`), because `_load_header` looks at the magic, the
version and the count only. A cut header may be too short to be loaded (`Torn`), may
be the first bytes of a file that is shorter than a page (`Short`, for which
`num_pages` is 0), or may have the count and the first entries of the new free list
over what was there before. What a file may be exposed to is its `env`, chosen once: the values
of `use_wal` it is opened with, whether a page may be torn while a torn record is
in the log, and how long the log may be when a kill comes (a bound). Recovery
works in one environment only, `OneTear`: the log always on, and no page torn
behind a torn record. The properties of recovery say so themselves. With the log, replay puts the whole header back before it is read (`AlwaysOpens`,
`Recoverable`). Without it, or behind a torn record, an open loads what is there:
`allocate_page` may then hand out page 0 and have the next header written over it.
The ghost `misread` says that this has happened, that is, that an open has loaded a
page 0 that is no header; `HeaderKept`, `HandedOutEmpty` and the second half of
`TypeOK` hold until then, in both modes and whatever a kill tears. The ghosts `acked`,
`limbo` and `owned` remember the last completed write of each page, the write a kill
interrupted, and the pages callers hold. The log limit is counted in records
(`LogLimit` for `_CHECKPOINT_BYTES`).

### BufferPool

`lru` and `copy` are the ordered dictionary; `disk` is what the pager would
read. `GetMiss` and `NewPage` go through `Admit`, which evicts in the same step
when the cache is full, or through `AdmitFails` when the pager's write raises
(`IOErrors`). `BufferedPages` lets such a call cost one page its last updates,
but only a call that returns no page (`held`). `flush_all` takes a step per page, so a kill or an error can come
in between. `Modify` is a caller changing the page it got last and marking it
dirty. The ghost `cand` holds what each page may be after a kill.

### SlottedPage and HeapFile

A page is its slot directory, its boundary and its bytes. The directory's bytes
are marked in the page, so that an overlap of directory and records would
destroy one or the other visibly: `GetRecord` reads the bytes. The sizes of the
header and of a slot entry are the code's; only the page is smaller. `HeapFile`
has `mem` (what callers see) and `disk`; `WriteBack` is an eviction or a step of
a flush, `Reopen` a kill or a clean stop followed by an open. `answer` is what
the last call returned, which ties the RowId returned to the row stored.

### BPlusTree and HashIndex

An insert or a delete is one step, as nothing runs beside it. The descent, the
split on the way up and the walks along leaves and overflow pages are recursive
functions over the page numbers. `Entries` is the bag of entries that can be
reached from the root or the bucket pages; `answer` is the last delete with its
result. `Hash` stands for the 32-bit product and is any function; `bisect` counts
keys.

The pages a call stores are in the pool and reach the file one by one, in any
order (`BufferedPages`). `cand` holds what each page of the file may be: what was
flushed, and every version stored since. `Reopen` is a kill, or a close after a
flush, with the open behind it: each page is one of its candidates (`Mixes`), and
root or bucket count come from the meta page. A page that was allocated is in the
file at once, as `Page.empty()`. Its bytes read as an inner node without keys and
child 16, or as a bucket without entries and a link to page 4096 (`Unwritten`).
`EmptyChild` and `EmptyLink` are these page numbers; both instances are smaller
files, so that such a link raises. The theorems about the hash index are about such
files too (`ShortFile`): in one of 4096 pages and more, the link leads to a page
that exists, which may be of another bucket or lie before it in the same chain, and
neither that chains stay apart nor that a walk along them ends is shown.

`KeyIndex` says what a kill may do: the entries touched since the last flush are
open, all others stay as they are. `KeepsEntries` shows this of both indexes. A
tree that had grown when the kill came is excepted (`sound`), as its parts may be
of different times. What is true of it then is `TornKeepsFlushed`: if every page
was written once, the entries that were flushed are found by scans, in order, and
by searches, because the leaves lead to what the parent, the root or the meta page
do not name yet. This confirms `DESIGN.md:348-354` ("the leaf chain may still find
them on a scan") and says more, as searches walk the same chain. It does not hold
when a page was never written: such a page looks like an inner node, so a scan or
a search that comes to it along a leaf link ends there without an error, and
flushed entries behind it are missing; one that descends to it goes on to page 16,
whatever that is, or raises if the file is shorter. A range scan on a torn tree
may also return keys below its lower bound.

For the hash index, `DESIGN.md:360-363` expects a leaked overflow page or a dropped
entry. A kill after the relink and before the write of the new page does more: the
chain then ends in a link to page 4096, and every search in that bucket raises from
then on, in each later session. No flushed entry has left the pages, and no other
bucket is affected: `BreaksOnlyGrowing` says that only a bucket that was getting a
page can end so.

### Database

One table with one INT column, its indexes, and the catalog. Each file is a
record: what the open pager and pool hold (`mem`), what the data file holds, and
what the log holds. Its content is one value, the rows by slot or the bag of
entries of an index, and is written back whole (`WriteBack` for an eviction,
`FlushNext` for `_flush_table`); pages of one file written at different times
are the matter of `HeapFile`, `BPlusTree` and `HashIndex`. `Tree` are the indexes that
are B+ trees.
`Recovered` is what `Pager.__init__` makes of file and log, `Opened` is `_heap`
and `_index`. An index in a new file cannot be opened after a kill before its
first flush (`Unreadable`): its meta page is in no file.

INSERT, UPDATE and DELETE are lists of row changes (`todo`). A step, `ChangeRow`,
makes one change to the heap and then to every index; evictions and kills come
between such steps. (That any subset of the files may have been written back
before a kill makes the order inside a step invisible.) `_update` and `_delete` ignore
what `index.delete` returns, and `KeyIndex` lets a tree miss an entry that is behind an
emptied leaf (finding 3). So `ChangeRow` lets any tree miss any entry it is to remove
(`MayMiss`), and the ghost `missed` remembers them: `Agreement` says that an index has
the entries of the rows and besides exactly those missed, which for a hash index are
none. With the keys 1 to 255 in a table, `DELETE ... WHERE k <= 128` leaves the entry of
128 in the tree, without an error; once another row takes the slot, range scans of the
tree that include 128 name that row. `Bad` is an INT literal
that the type check accepts and `serialize_row` cannot pack: the statement raises
there, in an UPDATE after it has deleted the old row. `RowsDone` saves the row
count and `FlushNext` flushes one file after the other. DROP saves the catalog
and then discards the files (`DiscardNext`), leaving their logs if they were not
open.

`catalog` is the catalog in memory and `saved` what its file holds. `_save` opens
the file for writing, which truncates it, and then writes: `Save` changes the memory
and leaves the file `Torn`, `SaveDone` writes it, and nothing but a kill comes in
between. `Open` reads `saved`; after a kill in a save it raises (`OpenRaises`), and
then the database cannot be opened again, although all its tables are intact. The
saves are those of the code: an INSERT and a DELETE save the row count before they
flush, an UPDATE saves nothing, CREATE INDEX saves twice, the second time behind its
flush (`SetIndexStats`). `ReturnedSurvives` says that none of this touches what a
statement that returned has done, if no save was under way: the catalog is then
the one it left.

The ghost `harm` says what befell the table since it was created: a statement
that raised midway (`failed`), a kill in a statement or with unwritten changes
(`cut`), old files found by a CREATE (`leftover`). The code promises no
atomicity of statements, so the properties say what holds without such harm, or
with `failed` only.

### Planner

One table of INT columns with its page count, and the indexes in the catalog's
order, each with the `n_distinct` that was counted when it was built. A lookup in
an index is the set of rows with such keys (`Search`, `RangeFrom`, `RangeTo`). A
predicate is what the topmost ANDs join; a conjunct is one comparison, which may
drive an index, or a set of alternatives that may not, which is what an OR or a
NOT comes to. `ChooseAccessPath` is `choose_access_path` with its costs in whole
pages, `Answer` is `_build_scan` pulled to its end, without the order of rows.
`Select` is what a query leaves behind, the advisor's counts; `ReturnsTheRows`
asks for the answer to every predicate in every state. Literals are integers:
the engine compares an INT column with a text literal differently on each path
(a scan finds nothing, an index raises `TypeError`), and no document says which
is meant.

`Raises` is true of a path that its index cannot serve: one driven by `!=`, or by a
range in a hash index. `RaisesOnlyUnequal` shows that only the first happens, only
on a column with a B+ tree, and only when the table has more than three pages. (A
hash index is left out of the choice for everything but `=`.)

### Queries, SqlParser and QueryPipeline

`Queries` has the nodes of `sql/ast.py`, and what `_select`, `_select_grouped` and
`_select_join` do before a row is read: `Accepted` is the validation, `Plan` the
list of operators from the scan up, with the choice of `_build_join` between the two
joins. A name is a sequence (`<<column>>`, `<<alias, column>>`), and `ColumnIndex`
resolves it as `column_index` does, ambiguous names included. A value is an integer or
one of a few strings in their order (`Strings`, the first of them empty).
`Evaluate` follows `evaluate` through any nesting of AND, OR, NOT and comparisons;
a truth value is 0 or 1, as Python's `bool` is an `int`, so that `(a = 1) != b` and
`WHERE b` mean what they mean there, `WHERE name` is false of the empty string, and
`<` of a string and a number raises (`CompareValues`). So do SUM and AVG of strings
(`Finalize`). `SargableComparisons` are those of WHERE that an index may be looked up
for, `Scan` is `_build_scan` with any of them chosen or none: which one is `Planner`'s
matter.

`SqlParser` has one operator per rule of the parser. A rule takes the position of
its first token and gives a node and the position behind it, or nothing for a
`SQLSyntaxError`. A token is a type and a value; which characters make one is the
lexer's affair. `Parse` is `parse` and the dispatch in `execute`.

`SqlText` is the other direction, from `DESIGN.md:85-129`: `Written` is the text of a
statement, with just the parentheses that the precedences ask for or with as many as
there can be. `ParsesAsWritten` says that the parser takes each such text back to the
statement it was written for. `NothingIgnored` looks at any other text: if it is
accepted, its parentheses match and writing its statement down gives the same tokens,
up to parentheses, an `ASC` and a semicolon. In two places the texts follow the parser
and not the grammar, so that there the one is not checked against the other:
`GROUP BY` takes bare names only (`parser.py:151`), where the grammar has `colref`; and
the list of a SELECT may have a `*` among other items, where the grammar has `*` alone.
`-0` is read as `0`, and the texts leave it out.

`QueryPipeline` runs the plan: `level` is the operator whose `next()` runs, `item`
what the one below has returned to it, and each call and each return is a step.
`OpenReads` and `OpenHasRead` are the `open()` of Sort and the aggregates, which
read everything first; Sort makes one pass per key. `Start` and `Collect` are
`list(root)`. A nested loop reads the right table when it is opened, an index join
row by row; nothing changes the table meanwhile, so both see `right`. `close()` frees
memory only and is left out.

`Answers` says what a SELECT means without operators: each row returned shows a
unit of its own (a row, a pair, a group, the whole table), in an order `ORDER BY`
allows, and a unit is left out only because its row is there already (DISTINCT) or
the limit is reached. Predicates are sets of units there (`Matching`), joined, cut
and complemented, where `Evaluate` goes through a tree for each row. It leaves open
which of several tied rows a limit cuts off.

`IndexScan` returns the rows for which the comparison holds that the index was looked
up for. The lookup itself is done while the operators are built (`_rowids_for`), before
the rest of the query is validated, and may raise there (`LookupRaises`).

The validation looks at names only. `Mistaken` lists what passes it and may raise in
the middle of the query:

* a qualified name outside a join (`WHERE t.a = 1`, whose bare name is what
  `_columns_in` checks): `KeyError`;
* an aggregate in WHERE or ON (`WHERE COUNT(*) = 1`): `KeyError`;
* `<`, `<=`, `>` or `>=` of a string and a number (`WHERE name > 5`): `TypeError`;
* SUM or AVG of a TEXT column: `TypeError`;
* `!=`, or a string for an INT column, in a conjunct for which an index is chosen
  (`WHERE a = 'x'`): `QueryError` or `TypeError`, on a query that a sequential scan
  answers;
* an equijoin in which a TEXT column probes an index: `TypeError`, where a nested loop
  finds no pairs.

`RaisesOnlyMistaken` shows that no other accepted query of the instance raises, whatever
the tables hold and whichever index is chosen. Whether a mistaken one raises depends on
the rows (AND and OR stop early) and on the index of the moment. LIMIT has no effect on
aggregates without GROUP BY: `SELECT COUNT(*) FROM t LIMIT 0` returns a row, and
`Answers` takes it so.

## What the runs check

| run | question | result |
|---|---|---|
| `pager_kills` | kills between all steps, also in the middle of a log append or a page write, in two environments: `OneTear`, and any modes and tears | in `OneTear`: `AllOrNothing`, `AlwaysOpens`, `NoDoubleHandout`, `TruncatesNothingNeeded`, the inductive invariant `Recoverable`, and the pager implements `AtomicPages` (`PagesAtomic`); in all: every open and every call ends (`CallsEnd`), and until an open loads a cut header `HeaderKept` and `HandedOutEmpty` |
| `pager_torn_both` | does replay repair every torn page? | no: finding 1 |
| `pool_cache` | any sequence of calls, kills and writes that raise | LRU order, nothing invented (`Coherent`); implements `BufferedPages` (`KeepsPromise`) |
| `pool_lost_update` | is a dirty page always in the cache when writes raise? | no: finding 2 |
| `heap_rows` | inserts, deletes, slot reuse, full pages, kills | `PagesLaidOut`; implements `RowStore` (`KeepsRows`) |
| `btree_index` | inserts, deletes, flushes and kills with any mix of written and unwritten pages, with duplicates | until a kill meets a tree that has grown: `WellShaped`, `ScansComplete`, `SearchFindsUnlessEmptied`; after it: `TornKeepsFlushed`; implements `KeyIndex` (`KeepsEntries`) |
| `btree_emptied_leaf` | does search stay correct after deletes? | no: finding 3 |
| `hash_index` | the same, with overflow chains and another number of buckets at each open | `ChainsApart`, `SearchFindsAll`, `BreaksOnlyGrowing`; implements `KeyIndex` (`KeepsEntries`) |
| `database_statements` | any sequence of statements, index deletes that miss, statements that raise, kills, also in a save of the catalog, DROP and CREATE | without harm, `Agreement` of rows and count, and of the index up to the entries that deletes have missed; no row hidden from an index by a statement that raised (`NoRowHidden`); what returned survives, in files and catalog (`ReturnedSurvives`) |
| `database_stale_entry` | do index scan and sequential scan agree after a statement raised? | no: finding 4 |
| `planner_paths` | every predicate of the instance, after any inserts, deletes, indexes made and dropped by hand or by recommendation | the answer is the rows of the predicate (`ReturnsTheRows`) unless a `!=` met a B+ tree (`RaisesOnlyUnequal`); every hot column is served (`HotColumnsServed`) |
| `select_pipeline` | every text of the instance, and every query among them over every table, with every index chosen that may be | parsed as written, nothing ignored (`ParsesAsWritten`, `NothingIgnored`); what returns is an answer (`AnswersQuery`); only the mistakes listed above raise (`RaisesOnlyMistaken`); LIMIT stops pulling (`LimitStopsPulling`); every statement ends (`EveryQueryEnds`) |

Findings:

1. `Pager.__init__` truncates the log only if replay applied something. When the
   *first* record is torn nothing is applied, the torn record stays, and the
   records appended behind it can never be read. A data page that a later kill
   tears is then not repaired, against `wal/recovery.py:8`.
2. `_evict_one` drops the victim before writing it. If the write raises, the
   update is lost and `flush_all` raises `KeyError` ever after, against
   `storage/buffer_pool.py:53`.
3. `search` and `delete` of the B+ tree stop at a leaf without keys. With
   `max_keys=2`: insert 1, 2, 3, delete 1, search 2 returns nothing. With the
   default of 254 keys, deleting the 127 keys left of a separator has the same
   effect on the separator's key. This is against `index/btree.py:36`. Range
   scans are not affected (`ScansComplete`). Because `delete` stops there too, a
   DELETE or UPDATE may leave index entries of rows that are gone (`missed`).
4. `_update` deletes the old row before it packs the new one. With an integer
   that does not fit (`UPDATE t SET a = 99999999999999999999`) it raises
   `struct.error`; the row is lost and its index entry stays. The next INSERT
   reuses the slot, and the index then returns that row for the old key, against
   `tests/test_optimizer_integration.py:5`. For the same reason a multi-row INSERT
   leaves the rows before the bad one, with their index entries and uncounted.
   The run has no tree that misses an entry, so that nothing but the statement that
   raised can be the cause.

One thing `ReturnsTheRows` leaves out: `Raises`. A `!=` on a column with a B+ tree
is costed like any comparison, and chosen when `n_distinct` is small and the
table has pages enough (with `n_distinct` 1, four); `_rowids_for` has no case for
it and raises `QueryError`, on a query that a sequential scan answers.
`apply_recommendations` can bring this about, as it creates a B+ tree for a
column of which some ranges were asked. It also counts `!=` as an equality and
then creates a hash index that cannot serve it.

Two things the models show without a run of their own, as they need a use of the
engine that nothing promises to support: a log left by a kill survives an open
with `use_wal=False` and is replayed over that session's writes by the next open
with `use_wal=True`; and DROP of a table that was not opened since a kill leaves
its `.wal` file, so that CREATE of the same name raises or brings old rows back
(`CreateTable` sets `leftover`).

### Bounds

* Pager: 2 data pages, one image of a caller's beside the empty page, log limit 2, free
  list of 1. One image is enough to tell a page's content from an empty page, a torn one
  and one that another caller was given; a free list of 1 is enough for a cut header to
  name page 0, or a page that is in use. This is enough for
  every order of free and reuse of a page beside another that is in use, for a
  checkpoint in the middle of a call and for a log that outgrows the limit through
  kills. `maxLog`, 3 in `OneTear` and 2 in the other environment, bounds only the
  kills: the process is not killed while the log is longer. `pager_torn_both` has
  a log limit of 3 and kills up to 5 records.
* Pool: 3 pages and a capacity of 2, so that every admission of the third page
  evicts, in each order of use.
* Heap: pages of 18 bytes, which hold two short records or the largest one, and
  two pages. The records are one shorter than a slot entry, one as long, the
  largest accepted, and two that are refused. Bytes are not reclaimed, so the
  number of inserts per page is bounded by the page itself.
* B+ tree: `max_keys` 2, the smallest the code accepts, 4 entries of 3 keys and
  2 RowIds in up to 7 nodes. A tree of three levels needs 7: root, two inner
  nodes, four leaves. Deletes let the tree grow beyond what 4 entries fill. The
  instance flushes after each call that changes anything, so that a kill meets the
  pages of one insert, up to a split on every level with a new root; pages of
  several unflushed calls would be more candidates for the same pages. A tree that
  such a kill has torn is left as it is, since nothing is promised of what a change
  makes of it.
* Hash index: 2 buckets, 2 entries to a page, 3 keys of which two collide, 5
  entries: chains of up to 3 pages. A flush after each call here too. Once a kill
  has met a growing bucket at most 2 entries are put in (`MaxHurt`), enough to fill
  the page before the broken link, to delete from it and to use the other bucket.
* Database: one index, 2 slots of one page, 2 keys and `Bad`, statements of one
  or two rows: slot reuse, a statement that raises at its first or second row, an
  index built before or after the rows. The index is a tree, of which a delete may miss
  any entry (without misses it is as good as a hash index). Without harm the count is
  at most 2, and the index holds at most 2 entries and those missed: `MaxEntries` 3 leaves
  room for one of them, and else bounds only tables after a statement raised, as
  `MaxCount` 2 does. The two keys are a symmetry. `Followed` leaves tables after a cut to
  DROP: nothing is claimed of what they hold.
* Planner: two columns, two rows, two keys, four pages and two indexes. A B+ tree
  costs at least 3 pages and a hash index 2, so both win and lose against the
  sequential scan, and against each other when each of two conjuncts has an
  index, or one column has both. `n_distinct` is 0, 1 or 2 and goes stale. Two
  recorded uses let a column see an equality and a range, or both columns be hot.
  `PlannerProofs` removes all these bounds for `ReturnsTheRows` and `RaisesOnlyUnequal`,
  but not the cost of a B+ tree's descent, which is that of tables under 128 rows.
* Queries: two INT columns of two keys, or one and a TEXT column of two strings, one of
  them empty; tables of up to three rows, joins of two and two. Three rows are the fewest with a duplicate beside a different row, a tie
  in the first sort key and an order in the second, and a group of two beside
  another. The queries have every clause, alone and with those it interacts with
  (DISTINCT with LIMIT, ORDER BY by one and two keys in both directions, HAVING by
  a column and by an aggregate that is not selected), and the joins an equijoin on
  each column, an inequality, a table with itself, and names that are bare,
  qualified and ambiguous, with every set of indexes. Predicates have up to three
  operators in every arrangement, so that each pair of neighbouring precedences
  meets on both sides. The queries over the TEXT column compare it with strings, with
  numbers and with the other column, group, sort, aggregate and join by it, and each
  mistake of the list above is among them, alone and beside what may keep it from
  raising.
* Texts: those of these queries and of every other statement, each written with the
  fewest and the most parentheses; every text that differs from one of a statement
  (with a SELECT that has all clauses) by a token left out, put in or exchanged with
  the next; and `WHERE` followed by any five of a name, `=`, `AND`, `OR`, `NOT` and
  parentheses.

### Fairness

`Pager` assumes weak fairness of `Step`, the next internal step of a call that has
begun: a call runs in one thread to its end unless the process is killed. Callers,
opens and kills have no fairness. `QueryPipeline` assumes weak fairness of `Next`,
for the same reason: it has no other actor, and nothing in it waits. Its run checks
no deadlock, as a statement that has ended stops; that none stops before is
`EveryQueryEnds`. No other module assumes fairness.

## What is proved

TLAPS proves for every value of the constants that their assumptions allow. Each
safety theorem names an inductive invariant; what TLC checks is its consequence.

* `PagerProofs`: `TypeCorrect` (`[]TypeOK`) and `HeaderMatchesFreeList`
  (`[]HeaderKept`) in every environment, both with the condition in the property: until
  an open loads a cut header (`misread`); `StaysRecoverable` (`[]Recoverable`),
  `RecoveryAllOrNothing` (`[]AllOrNothing`) and `OpenSucceeds` (`[]AlwaysOpens`),
  whose properties begin with `OneTear`: the log is always on, and no page is torn
  while a torn record is in the log. Neither half can be dropped (finding 1, and the
  switch of `use_wal` described above).
  The inductive invariant is `Recoverable` with `TypeOK` and `HeaderKept`:
  what the log says of a page, from the last intact record about it, agrees with
  the last completed write (`LogAgrees`); only the last record may be torn and
  only while nothing was appended behind it (`LogShape`); while replay runs,
  every page that replay has passed or will not touch is already good
  (`Replays`). `AllOrNothing` alone is not inductive: it says nothing of the log
  that a later replay will apply.
  `ImplementsAtomicPages` (`Spec => PagesAtomic`) maps every
  step to a step of `AtomicPages` or to a stutter. The abstract page is what a
  recovery from here would read (`View`: the last intact record, else the file), so
  the log record, not the page write, is where a write takes effect; the page write, the
  checkpoint and replay then change nothing, which needs `Recoverable`.
  `TruncationSafe` (`TruncatesNothingNeeded`) is the checkpoint's half of it: before a
  truncation, what the log says of each page is on file (`Settled`).
  `HandsOutEmptyPages` (`HandedOutEmpty`) needs that a call has the clearing of its page
  still to make, or has made it (`CallsTidy`), and that the page is not page 0, which the
  types give until an open is `misread`. In `OneTear` none ever is: `Recoverable` says so. `NoPageSharedTwice` (`[]NoDoubleHandout`)
  needs all the free lists at once: the one in memory, those on file, in the log and in
  the writes to come, and the one a kill left in doubt, none of which may name a page
  twice or one that a caller holds (`Unshared`). `PagesAtomic`,
  `TruncatesNothingNeeded` and `NoDoubleHandout` again assume `OneTear`.
* `BufferPoolProofs`: `PoolCoherent` (`[]Coherent`) and the refinement
  `PoolKeepsPromise` (`Spec => KeepsPromise`) for every capacity, with or without
  write errors; `DirtyIsCached` (`[]DirtyCached`) without them. `Coherent` strengthens the type
  invariant by: clean pages match the file, the pages that `flush_all` has passed
  match it too, and both copies of a page are among its candidates.
  `RecentPagesStay` (`[]KeepsRecent`) adds that all that is behind a page in the cache was
  requested after it (`RecencyKept`), and counts: the one in front of a full cache was
  passed by as many others as the cache holds.
* `HeapFileProofs` begins with the lemmas about one slotted page: what `InsertRecord` and
  `DeleteRecord` do to the records, the slots and the bytes of a page that is laid
  out (`InsertProperties`, `DeleteProperties`), for every page size. The
  heap's theorems are `HeapType` (`[]TypeOK`), `HeapPagesLaidOut`
  (`[]PagesLaidOut`), which are inductive only together (the last page is found by its
  layout, and the layout is of the pages up to the last one), and `HeapKeepsRows`
  (`Spec => KeepsRows`): the heap implements `RowStore`. Where the bytes of a record go
  matters here: a reused slot or a new one, the lowest record and the end of the
  directory are all in `Layout`.
* `DatabaseProofs`: `DatabaseType` (`[]TypeOK`), `EveryRowIndexed` (`[]NoRowHidden`),
  `IndexesAgree` (`[]Agreement`) and `StatementsSurvive` (`ReturnedSurvives`), for every
  set of keys and of indexes and any number of slots. Each is seen only between
  statements; the invariant has to say what holds in the middle of one.
  `Typed` says of each file what it, its buffer and its log may hold (`StoreOK`), that
  what was dropped is closed (`UnusedClosed`: otherwise a table created again would find
  old rows in memory), that an index is built in an empty file (`BuildOK`), and that
  what is left of a statement still fits (`RowsOK`: an INSERT has free slots left; each
  row an UPDATE or DELETE still has to take is there, as it was at the start).
  `Covered` is the part of agreement that statements which raise keep: an index has an
  entry for every row. It is kept because the heap changes first and a row that cannot
  be packed is not entered; it needs `RowsOK`, so that an entry that is removed is one
  of the row that is, and `Dropped`, so that what is discarded is in no catalog. `Matched` and
  `Counts` are agreement itself, with a count that is right in the middle of a
  statement: what is there, what is still to come, and what the catalog will say.
  A statement that raises at its first row may leave no harm, which is why `Counts`
  speaks of the rows at its start. An index delete may miss its entry in a tree, and
  `IndexesAgree` and its invariant count those entries (`missed`) with those of the rows.
  `Flushed` says that what is not in the files yet is
  what the statement in progress changed, or still has to flush.
  The assumptions on the constants are that markers such as `Closed` and `Emptied` are
  not contents of a file.
* `PlannerProofs`: `OptimizerKeepsAnswers` (`[]ReturnsTheRows`) for every set of
  columns, integers, rows, indexes and predicates. It needs of the state only that
  rows hold integers and that the indexes are a sequence (`TypesInvariant`), and
  nothing of the costs: a path that is chosen is driven by a sargable conjunct
  (`PathChosen`), turning a comparison round keeps its meaning
  (`NormalizedMeaning`), the bounds of `_rowids_for` are exact (`RowIdsExact`), and
  the residual filter does the rest (`AnswerExact`). `IndexIsAskedWhatItServes`
  (`[]RaisesOnlyUnequal`) needs the costs: an index is chosen only if it costs less
  than a page for each page of the table, and a path driven by `!=` costs three
  (`UnequalCost`), so that the table has more. It rests on the types of indexes and
  statistics, which `TypesInvariant` proves, and on RowIds being finitely many, as
  they are pairs of a 32-bit page number and a 16-bit slot. `RecommendationsServe`
  (`HotColumnsServed`) is about one step: every recommended column whose index name is
  free is in the order that the step takes (`OrderHasAll`), so that its index is behind
  those that were there.
* `BPlusTreeProofs`: `TreeType` (`[]TypeOK`) and `TreeWellShaped` (`[]WellShaped`), for
  every set of keys and RowIds, node size and number of pages. `BPlusTreeInvariant` holds
  the invariants, of which nothing is assumed. The first, `TreeInv`
  (enough for `TreeBalanced`, all leaves equally deep) has to bring along why a walk
  through the pages ends: there is a depth for every page, one less for what is below an
  inner node, and a rank for every leaf that the links to the right descend (`Good`). An
  insert is shown level by level: what a split leaves is a good tree in which the pages
  of before are as deep as before, and the right half is as deep as the left (`Outcome`,
  `InsertIntoOutcome`); the functions that the code's recursions become exist because
  of the depths and ranks (`DownExists`, `UpExists`, `FoundExists`). A kill may leave any
  mix of versions of the pages; while the tree has not grown, all versions of a page
  differ in what a leaf holds only (`WholeTree`), so that every mix is a tree again
  (`MixIsTree`). The rest of the shape is what `ShapeInv` adds: an assignment to every
  page of its place (`Placed`), which is the first leaf below it, the leaf behind the
  last one, and the range of keys it may hold. With it, order and routing are local to a
  page and its children (`Fits`); a split cuts one place in two (`SplitAs`) and its
  parent takes up the right half (`InsertedFits`, `HalvesFit`), level by level up to a
  new root (`InsertIntoShape`, `GrowsShape`). Every page is the child of one other at
  most (`Once`), without which a child's place would be cut behind another parent's
  back. Until the tree grows all versions of a page fit one place, so that a kill cannot
  break the shape (`InPlace`). That keys are routed and leaves linked in order then
  follows by induction along the depths (`IsRouted`, `LeavesAreChain`).
  `ScansAreComplete` (`[]ScansComplete`) and `SearchesFind`
  (`[]SearchFindsUnlessEmptied`) say what the traversals return. The chain of links from
  the leftmost leaf is all leaves, each once, because ranks fall along it and what is
  not below a page's first leaf is behind its last (`TheLeaves`); their ranges are in
  order (`NextInOrder`, `RangesFilled`), so the stream of entries from any leaf on is
  sorted and holds each entry as often as the leaves from there on do (`StreamOrdered`,
  `StreamTimes`). `_find_leaf` by the rule for a lower bound stops at a leaf before which
  every key is smaller (`FindLeafIs`, `AllBefore`): nothing of a range is missed on the
  left, and what a scan skips or stops before is a prefix or a suffix (`UpToIs`). The
  walk of search counts the same stream under one key (`SearchesHold`), and needs that no
  leaf is empty where it decides whether to walk on. `EntriesAreKept`
  (`Spec => KeepsEntries`) is the refinement of `KeyIndex`. Storing a node of a
  recursion's way back up changes the count of one entry by one, whether the node splits
  or not (`StoredTotals`), and the levels above change no count (`InsertIntoAddsOne`, by
  the induction along the depths); what delete finds is the entry it removes
  (`FoundInLeaf`, `DeleteStores`), and if it finds nothing while no leaf is empty its
  walk has passed all that search would return (`WalkPassesAll`). For a kill there is
  the invariant `Settled`: until the tree grows, every version of a page holds what the
  page holds but for the entries touched since the last flush. `FlushedSurviveTearing`
  (`[]TornKeepsFlushed`) is about the kills left out so far, of a tree that has grown.
  `MixInv` says of every version that the file may hold of a page what it may be (`May`)
  beside the tree that was to be flushed: the leaf itself, or it and the new leaf behind
  it in one, with the link past both, and as often every entry that was not touched
  (`AsLeaf`, `AsTwo`; `Leafwise` follows it through an insert); or an inner node whose
  children are as deep, and that sends no key past the leaf where its entries start
  (`AsInner`). Any mix of such versions is a good tree again (`MixGood`), though pages
  may have no parent or two. `TornInv` keeps that tree in mind after the kill (`Aligned`):
  the stream from any leaf on is in order and counts as before (`OnwardsAfter`), a scan
  starts at the first leaf and a search at one that has only smaller keys in front of it
  (`LeftmostAfter`, `FindLeafAfter`).
* `HashIndexProofs`: `HashType` (`[]TypeOK`), `ChainsStayApart` (`[]ChainsApart`) and
  `OnlyGrowingBreaks` (`[]BreaksOnlyGrowing`), for every hash function, number of
  buckets and page capacity, and for files of fewer than 4096 pages: all five theorems
  have the premise `ShortFile`, by which the link of a page that was never written leads
  behind the file. A kill may leave any mix of old and new
  pages, so the invariant speaks of every version of a page that the file may hold:
  its links lead forward (`Typed`); each page, in a chain or not, has a home bucket that
  all its entries and links are of, and outside the buckets that grew its link does not
  change (`Homed`); no version of another page links to where one of its versions does
  (`Apart`); every overflow page is linked to, unless a kill met a growing bucket
  (`Linked`). The chain is a function defined by recursion along the links: that it
  exists, and what holds of its pages, is shown from the last page backwards
  (`ChainsExist`, `FromTheEnd`), as links lead forward. `SearchesComplete`
  (`[]SearchFindsAll`) counts: how often an entry is on the pages of all chains together
  is how often the walk along its own bucket's chain meets it, as no page comes twice in a
  chain (`ChainDistinct`) and other chains hold no entry of the key (`KeyInChain`).
  `EntriesAreKept` (`Spec => KeepsEntries`) is the refinement of `KeyIndex`: each step
  changes that count for one entry by one, or not at all. A kill needs one invariant more,
  `Settled`: every version of a page holds what the page holds but for entries touched
  since the last flush, and where a version's link is older, the page that the newer one
  leads to was never flushed, so that nothing flushed is behind it. The pages on chains
  are the least set that the links close (`ChainsKnown`), by which the chains of before
  and after a kill are compared.
* `Counting` has no theorem about the code: it is the lemmas that these counts rest on,
  how often something occurs in a sequence (`TimesInsertAt`, `TimesRemoveAt`), on a set
  of pages (`TotalOnePageMore`, `TotalChanged`), in the bag of their entries
  (`BagPlusOne`, `BagMinusOne`) and in their concatenation (`Flattened`); and what a
  split or a new parent does to pages that are the child of one page each (`OnceSplit`).

Only model-checked:

* the parser and the pipeline, whose modules are built of recursive definitions: these
  need induction over data, which the provers do not do;
* liveness (`CallsEnd`, `EveryQueryEnds`), which TLAPS does not reach.

## What is not modelled, and the plan

Left out: the row format and the lexer (pure conversions of bytes and characters),
the shell (terminal input and output), the text of `EXPLAIN`, benchmarks, and the
pool's hit counters. What makes INSERT and UPDATE refuse their values before they
change anything (`_resolve_row`, `_check_literal_type`) is taken as given: the values
in `Database` have passed it. Statements over several tables share nothing but the
catalog, and `Database` has one table.

Taken as given: the pool's callers finish with one page before they ask for the
next one (`storage/buffer_pool.py`, lines 22 to 28); a kill is a kill of the
process, after which the operating system still holds all that was written.

Not done, the most useful first:

1. Power loss, as one more environment of `Pager`: writes reach the disk only at
   an `fsync`.
2. The hash index in files of 4096 pages and more.
