------------------------------ MODULE Database ------------------------------
(***************************************************************************)
(* The statements of queryx/database.py over one table with one INT        *)
(* column, its indexes and the catalog.                                    *)
(*                                                                         *)
(* The table and each index are a file with a log of its own.  Below, what *)
(* a file holds is one value: the rows of the table by slot, or the bag of *)
(* entries of an index (see HeapFile and KeyIndex).  A buffered value can  *)
(* be written back at any moment, and always entirely; a kill loses what   *)
(* was not.  The catalog is a file that each save truncates and writes     *)
(* again; a kill in between leaves one that cannot be parsed.              *)
(***************************************************************************)
EXTENDS Integers, Sequences, FiniteSets, Bags

CONSTANTS
  Table,       (* the file of the table                                    *)
  Index,       (* index names                                              *)
  Tree,        (* those of B+ trees; the others are hash indexes           *)
  Key,         (* values that fit the column                               *)
  Bad,         (* an INT literal that serialize_row cannot pack            *)
  MaxSlot,     (* the last slot of the instance (a bound)                  *)
  MaxCount,    (* bound of the catalog's row count                         *)
  MaxEntries,  (* bound of the entries of an index                         *)
  Followed,    (* what may have befallen a table that is still used (a     *)
               (* bound: any other is only dropped and created again)      *)
  Free,        (* no row in the slot                                       *)
  Missing,     (* there is no file                                         *)
  Unreadable,  (* a file that _load_header or _read_meta raises for: page  *)
               (* 0, or the pages of a new index, were never written       *)
  Closed,      (* the file is not open                                     *)
  Emptied,     (* the log has no records                                   *)
  Torn         (* a catalog file that was truncated and not yet written    *)

File == {Table} \cup Index
Slot == 0 .. MaxSlot

Entry == Key \X Slot

(* What a file holds: the rows by slot, or a bag of entries.               *)
TableContents == [Slot -> Key \cup {Free}]
BagOver(E) == [E -> Nat \ {0}]

LogRecord(C) == [has : C \cup {Unreadable}, whole : BOOLEAN]
CatalogFile == [exists : BOOLEAN, count : 0 .. MaxCount, index : Seq(Index)]

ASSUME DatabaseAssumption ==
  /\ MaxSlot \in Nat /\ MaxCount \in Nat /\ MaxEntries \in Nat
  /\ Table \notin Index /\ Tree \subseteq Index
  /\ Bad \notin Key /\ Free \notin Key
  /\ Missing # Unreadable
  /\ \A v \in {Closed, Missing, Unreadable} :
       v \notin TableContents /\ \A E \in SUBSET Entry : v \notin BagOver(E)
  /\ Emptied \notin LogRecord(TableContents)
  /\ \A E \in SUBSET Entry : Emptied \notin LogRecord(BagOver(E))
  /\ Torn \notin CatalogFile

VARIABLES
  catalog,   (* the catalog in memory                                      *)
  saved,     (* what its file holds                                        *)
  store,     (* per file: the buffered value, the file's, the log's        *)
  pc,        (* where the current statement is                             *)
  todo,      (* row changes it has still to make                           *)
  files,     (* files it has still to flush or to discard                  *)
  statement, (* its kind, its row count and the rows before it             *)
  missed,    (* ghost: per index, the entries that were to be deleted      *)
             (* since it was created and that the delete did not find      *)
  harm       (* ghost: what befell the table since it was created: a       *)
             (* statement that raised after a change ("failed"), a kill    *)
             (* that cut one short ("cut"), files of a dropped table or    *)
             (* index found again ("leftover")                             *)

vars == <<catalog, saved, store, pc, todo, files, statement, missed, harm>>

NoRows == [s \in Slot |-> Free]
NoTable == [exists |-> FALSE, count |-> 0, index |-> << >>]
NoStatement == [kind |-> "none", rows |-> 0, before |-> NoRows]

Start(f) == IF f = Table THEN NoRows ELSE EmptyBag

Init ==
  /\ catalog = NoTable /\ saved = NoTable
  /\ store = [f \in File |-> [mem |-> Closed, file |-> Missing, log |-> Emptied]]
  /\ pc = "idle"
  /\ todo = << >> /\ files = << >>
  /\ statement = NoStatement
  /\ missed = [i \in Index |-> EmptyBag]
  /\ harm = {}

-----------------------------------------------------------------------------
(* One file x.                                                             *)

(* What the log and the file give after replay.  Page 0 is only in the log *)
(* of a file that was never checkpointed.                                  *)
Recovered(x) ==
  IF x.log = Emptied THEN x.file
  ELSE IF x.file = Missing /\ ~x.log.whole THEN Unreadable
  ELSE x.log.has

(* _heap and _index: the file is opened when it is first used.  Replay     *)
(* empties the log.  An index in a new file allocates its pages at once    *)
(* and writes them at the next flush.                                      *)
Created(f) ==
  LET has == IF f = Table THEN NoRows ELSE Unreadable
  IN  [mem |-> Start(f), file |-> has, log |-> [has |-> has, whole |-> TRUE]]

Opened(f, x) ==
  IF x.mem # Closed THEN x
  ELSE IF Recovered(x) = Missing THEN Created(f)
  ELSE [mem |-> IF Recovered(x) = Unreadable THEN Closed ELSE Recovered(x),
        file |-> Recovered(x), log |-> Emptied]

(* A write goes to the log and to the file; a checkpoint may follow.       *)
Written(x) ==
  IF x.mem \in {Closed, x.file} THEN {x}
  ELSE {[x EXCEPT !.file = x.mem, !.log = l] :
          l \in {Emptied, [has |-> x.mem,
                           whole |-> x.log # Emptied /\ x.log.whole]}}

(* _discard_*_file: the pager is closed if it is open, which empties the   *)
(* log; the data file is removed and the log's file is not.                *)
Discarded(x) ==
  [mem |-> Closed, file |-> Missing,
   log |-> IF x.mem = Closed THEN x.log ELSE Emptied]

(* What a reader of file f would find in it.                               *)
Seen(f, x) ==
  IF x.mem # Closed THEN x.mem
  ELSE IF Recovered(x) = Missing \/ (f = Table /\ Recovered(x) = Unreadable)
    THEN Start(f)
  ELSE Recovered(x)

View(f) == Seen(f, store[f])
Rows == View(Table)
Live == {s \in Slot : Rows[s] # Free}
Indexed == {catalog.index[n] : n \in 1 .. Len(catalog.index)}

Entries(i) == IF View(i) = Unreadable THEN 0 ELSE BagCardinality(View(i))

CanOpen(x) == x.mem # Closed \/ Recovered(x) # Unreadable
Opens(f) == CanOpen(store[f])

OpenFiles(used) ==
  [f \in File |-> IF f \in used THEN Opened(f, store[f]) ELSE store[f]]

(* Catalog._save: memory has changed, and the file is truncated.  Nothing  *)
(* else happens until it is written.                                       *)
Save(changed) == catalog' = changed /\ saved' = Torn
SaveDone ==
  /\ saved = Torn /\ pc # "down"
  /\ saved' = catalog
  /\ UNCHANGED <<catalog, store, pc, todo, files, statement, missed, harm>>
SameCatalog == UNCHANGED <<catalog, saved>>

-----------------------------------------------------------------------------
(* The end of a statement.                                                 *)

End == /\ pc' = "idle" /\ todo' = << >> /\ files' = << >>
       /\ statement' = NoStatement

Return == End /\ UNCHANGED harm
Raise(changed) ==
  End /\ harm' = IF changed THEN harm \cup {"failed"} ELSE harm

(* _flush_table: the table, then its indexes one after the other.          *)
FlushNext ==
  /\ pc = "flush"
  /\ LET f == Head(files)
         x == Opened(f, store[f])
     IN  /\ \E y \in Written(x) : store' = [store EXCEPT ![f] = y]
         /\ IF x.mem = Closed THEN Raise(FALSE)
            ELSE IF Len(files) > 1
              THEN files' = Tail(files) /\ UNCHANGED <<pc, todo, statement, harm>>
            ELSE IF statement.kind = "index"
              THEN pc' = "stats" /\ files' = << >> /\ UNCHANGED <<todo, statement, harm>>
            ELSE Return
  /\ SameCatalog /\ UNCHANGED missed

(* set_index_stats, when a new index is flushed.                           *)
SetIndexStats ==
  /\ pc = "stats"
  /\ Save(catalog)
  /\ Return /\ UNCHANGED <<store, missed>>

-----------------------------------------------------------------------------
(* INSERT, UPDATE and DELETE: a sequence of row changes.  A change takes   *)
(* out at most one row and puts in at most one.                            *)

Insertion(v) == [gone |-> {}, new |-> {v}]
Matches(P) == {s \in Slot : Rows[s] \in P}

(* A scan of the heap meets the slots in ascending order.                  *)
InSlotOrder(S) ==
  {order \in [1 .. Cardinality(S) -> S] :
     \A m, n \in DOMAIN order : m < n => order[m] < order[n]}

Change(order, new) ==
  [n \in 1 .. Len(order) |->
     [gone |-> {<<Rows[order[n]], order[n]>>}, new |-> new]]

Usable == pc = "idle" /\ catalog.exists /\ harm \subseteq Followed

(* A statement on a table that cannot be opened raises (see Select).       *)
Begin(kind, changes) ==
  /\ Usable /\ Opens(Table)
  /\ pc' = "rows"
  /\ todo' = changes
  /\ statement' = [kind |-> kind, rows |-> Len(changes), before |-> Rows]
  /\ store' = OpenFiles({Table})
  /\ SameCatalog /\ UNCHANGED <<files, missed, harm>>

(* Types and column lists are checked before: the values are INT literals. *)
Insert(values) ==
  /\ Len(values) <= Cardinality(Slot \ Live)
  /\ \A i \in Indexed : Entries(i) + Len(values) <= MaxEntries
  /\ catalog.count + Len(values) <= MaxCount
  /\ Begin("insert", [n \in 1 .. Len(values) |-> Insertion(values[n])])
Update(P, v) ==
  \E order \in InSlotOrder(Matches(P)) : Begin("update", Change(order, {v}))
Delete(P) ==
  \E order \in InSlotOrder(Matches(P)) : Begin("delete", Change(order, {}))

FirstFree(rows) ==
  CHOOSE s \in Slot : rows[s] = Free /\ \A q \in 0 .. s - 1 : rows[q] # Free

(* The entry of the new row, which takes the first free slot.              *)
NewEntries(change, left) == {<<v, FirstFree(left)>> : v \in change.new}

Without(rows, gone) ==
  [s \in Slot |-> IF \E e \in gone : e[2] = s THEN Free ELSE rows[s]]
With(rows, added) ==
  [s \in Slot |-> IF \E e \in added : e[2] = s
                 THEN (CHOOSE e \in added : e[2] = s)[1] ELSE rows[s]]

(* Indexes are changed in the catalog's order up to one that cannot be     *)
(* opened.                                                                 *)
Reached(f) ==
  \E n \in 1 .. Len(catalog.index) :
    catalog.index[n] = f /\ \A m \in 1 .. n - 1 : Opens(catalog.index[m])

(* Mutants: the old entry stays; or an update does not enter the new one.  *)
ReindexedKeepsOld(f, gone, added) ==
  LET x == Opened(f, store[f])
  IN  IF x.mem = Closed THEN x
      ELSE [x EXCEPT !.mem = @ (+) SetToBag(added)]

ReindexedInPlace(f, gone, added) ==
  LET x == Opened(f, store[f])
  IN  IF x.mem = Closed THEN x
      ELSE IF gone # {} THEN [x EXCEPT !.mem = @ (-) SetToBag(gone)]
      ELSE [x EXCEPT !.mem = @ (+) SetToBag(added)]

Reindexed(f, gone, added) ==
  LET x == Opened(f, store[f])
  IN  IF x.mem = Closed THEN x
      ELSE [x EXCEPT !.mem = (@ (-) SetToBag(gone)) (+) SetToBag(added)]

(* BPlusTree.delete gives up at a leaf without keys, and _update and       *)
(* _delete ignore what it returns: any tree may miss the entry (KeyIndex   *)
(* promises no more), within MaxEntries.                                   *)
MayMiss(change) ==
  {i \in Tree :
     /\ Reached(i) /\ Opens(i) /\ change.gone \subseteq BagToSet(View(i))
     /\ Entries(i) + Cardinality(change.new) <= MaxEntries}

Found(f, gone, lost) == IF f \in lost THEN {} ELSE gone

(* The old row is deleted before the new one is packed; the indexes follow *)
(* the heap.                                                               *)
RowChanged(lost) ==
  LET change == Head(todo)
      left == Without(store[Table].mem, change.gone)
      added == NewEntries(change, left)
      rows == With(left, added)
  IN  IF Bad \in change.new
        THEN /\ store' = [store EXCEPT ![Table].mem = left]
             /\ Raise(left # statement.before) /\ UNCHANGED missed
        ELSE /\ store' = [f \in File |->
                  IF f = Table THEN [store[f] EXCEPT !.mem = rows]
                  ELSE IF Reached(f)
                    THEN Reindexed(f, Found(f, change.gone, lost), added)
                  ELSE store[f]]
             /\ missed' = [i \in Index |->
                  IF i \in lost THEN missed[i] (+) SetToBag(change.gone)
                  ELSE missed[i]]
             /\ IF \A f \in Indexed : Opens(f)
                  THEN todo' = Tail(todo) /\ UNCHANGED <<pc, files, statement, harm>>
                  ELSE Raise(rows # statement.before)

ChangeRow ==
  /\ pc = "rows" /\ todo # << >>
  /\ \E lost \in SUBSET MayMiss(Head(todo)) : RowChanged(lost)
  /\ SameCatalog

AtLeast0(n) == IF n < 0 THEN 0 ELSE n

(* Mutant: the count may fall below zero.                                  *)
CountedUnclamped ==
  CASE statement.kind = "insert" -> catalog.count + statement.rows
    [] statement.kind = "delete" -> catalog.count - statement.rows

Counted ==
  CASE statement.kind = "insert" -> catalog.count + statement.rows
    [] statement.kind = "delete" -> AtLeast0(catalog.count - statement.rows)

(* Mutant: the indexes are not flushed.                                    *)
RowsDoneTableOnly ==
  /\ pc = "rows" /\ todo = << >>
  /\ IF statement.kind = "update" THEN SameCatalog
     ELSE Save([catalog EXCEPT !.count = Counted])
  /\ files' = <<Table>>
  /\ pc' = "flush"
  /\ UNCHANGED <<store, todo, statement, missed, harm>>

(* The catalog's row count is saved before anything is flushed; an UPDATE  *)
(* does not save it.                                                       *)
RowsDone ==
  /\ pc = "rows" /\ todo = << >>
  /\ IF statement.kind = "update" THEN SameCatalog
     ELSE Save([catalog EXCEPT !.count = Counted])
  /\ files' = <<Table>> \o catalog.index
  /\ pc' = "flush"
  /\ UNCHANGED <<store, todo, statement, missed, harm>>

-----------------------------------------------------------------------------
(* The statements that change the catalog, which is saved first.           *)

(* A file or a log that was left of a dropped table is taken over, or      *)
(* makes the statement raise.                                              *)
CreateTable ==
  /\ pc = "idle" /\ ~catalog.exists
  /\ Save([NoTable EXCEPT !.exists = TRUE])
  /\ pc' = "create"
  /\ harm' = IF Recovered(store[Table]) \in {Missing, NoRows} THEN {}
             ELSE {"leftover"}
  /\ UNCHANGED <<store, todo, files, statement, missed>>

CreateFile ==
  /\ pc = "create"
  /\ store' = OpenFiles({Table})
  /\ Return /\ SameCatalog /\ UNCHANGED missed

Drop(discarded, left) ==
  /\ pc = "idle" /\ catalog.exists
  /\ Save(left)
  /\ pc' = "discard"
  /\ files' = discarded
  /\ missed' = [i \in Index |-> IF \E n \in DOMAIN discarded : discarded[n] = i
                                THEN EmptyBag ELSE missed[i]]
  /\ UNCHANGED <<store, todo, statement, harm>>

DropTable == Drop(<<Table>> \o catalog.index, NoTable)
DropIndex(i) ==
  \E n \in 1 .. Len(catalog.index) :
    /\ catalog.index[n] = i
    /\ Drop(<<i>>, [catalog EXCEPT
                     !.index = SubSeq(@, 1, n - 1) \o SubSeq(@, n + 1, Len(@))])

DiscardNext ==
  /\ pc = "discard"
  /\ store' = [store EXCEPT ![Head(files)] = Discarded(@)]
  /\ IF Len(files) = 1 THEN Return
     ELSE files' = Tail(files) /\ UNCHANGED <<pc, todo, statement, harm>>
  /\ SameCatalog /\ UNCHANGED missed

CreateIndex(i) ==
  /\ Usable /\ i \notin Indexed
  /\ Entries(i) + Cardinality(Live) <= MaxEntries
  /\ Save([catalog EXCEPT !.index = Append(@, i)])
  /\ pc' = "build"
  /\ files' = <<i>>
  /\ statement' = [NoStatement EXCEPT !.kind = "index"]
  /\ harm' = IF Recovered(store[i]) \in {Missing, EmptyBag} THEN harm
             ELSE harm \cup {"leftover"}
  /\ UNCHANGED <<store, todo, missed>>

BuildIndex ==
  /\ pc = "build"
  /\ LET i == Head(files)
         x == Opened(i, store[i])
     IN  IF x.mem = Closed \/ ~Opens(Table)
           THEN store' = [OpenFiles({Table}) EXCEPT ![i] = x] /\ Raise(TRUE)
           ELSE /\ store' = [OpenFiles({Table}) EXCEPT ![i] =
                     [x EXCEPT !.mem = @ (+) SetToBag({<<Rows[s], s>> : s \in Live})]]
                /\ pc' = "flush"
                /\ UNCHANGED <<todo, files, statement, harm>>
  /\ SameCatalog /\ UNCHANGED missed

-----------------------------------------------------------------------------
(* A SELECT changes nothing but opens the table and perhaps an index.      *)
Select(used) ==
  /\ Usable
  /\ store' = OpenFiles({Table} \cup used)
  /\ SameCatalog /\ UNCHANGED <<pc, todo, files, statement, missed, harm>>

(* An eviction, at any moment.                                             *)
WriteBack(f) ==
  /\ pc # "down"
  /\ store[f].mem \notin {Closed, store[f].file}
  /\ \E y \in Written(store[f]) : store' = [store EXCEPT ![f] = y]
  /\ SameCatalog /\ UNCHANGED <<pc, todo, files, statement, missed, harm>>

Close ==
  /\ pc = "idle"
  /\ store' = [f \in File |->
       IF store[f].mem = Closed THEN store[f]
       ELSE [mem |-> Closed, file |-> store[f].mem, log |-> Emptied]]
  /\ pc' = "down"
  /\ SameCatalog /\ UNCHANGED <<todo, files, statement, missed, harm>>

Dirty == \E f \in File : store[f].mem \notin {Closed, store[f].file}

Kill ==
  /\ pc # "down"
  /\ store' = [f \in File |-> [store[f] EXCEPT !.mem = Closed]]
  /\ pc' = "down" /\ todo' = << >> /\ files' = << >>
  /\ statement' = NoStatement
  /\ harm' = IF pc # "idle" \/ saved = Torn \/ Dirty THEN harm \cup {"cut"} ELSE harm
  /\ SameCatalog /\ UNCHANGED missed

(* Catalog._load: a torn file raises, and the database does not open.      *)
Open ==
  /\ pc = "down" /\ saved # Torn
  /\ pc' = "idle" /\ catalog' = saved
  /\ UNCHANGED <<saved, store, todo, files, statement, missed, harm>>
OpenRaises == pc = "down" /\ saved = Torn /\ UNCHANGED vars

Values == Key \cup {Bad}
Predicate == SUBSET Key \ {{}}

Statement ==
  \/ CreateTable \/ DropTable
  \/ \E i \in Index : CreateIndex(i) \/ DropIndex(i)
  \/ \E v \in Values : Insert(<<v>>) \/ \E w \in Values : Insert(<<v, w>>)
  \/ \E P \in Predicate : Delete(P) \/ \E v \in Values : Update(P, v)
  \/ \E used \in {{}} \cup {{i} : i \in Indexed} : Select(used)
  \/ ChangeRow \/ RowsDone \/ FlushNext \/ SetIndexStats
  \/ CreateFile \/ DiscardNext \/ BuildIndex

Next ==
  \/ saved # Torn /\ Statement
  \/ saved # Torn /\ \E f \in File : WriteBack(f)
  \/ saved # Torn /\ Close
  \/ SaveDone
  \/ Kill \/ Open \/ OpenRaises

Spec == Init /\ [][Next]_vars

-----------------------------------------------------------------------------
Readable(i) == View(i) # Unreadable
Copies(i, k, s) ==
  IF <<k, s>> \in BagToSet(View(i)) THEN View(i)[<<k, s>>] ELSE 0

(* Types; and the files that a closed database leaves are one value with   *)
(* their logs.                                                             *)
TypeOK ==
  /\ catalog.exists \in BOOLEAN /\ catalog.count \in 0 .. MaxCount
  /\ Indexed \subseteq Index /\ (~catalog.exists => catalog = NoTable)
  /\ Len(catalog.index) = Cardinality(Indexed)
  /\ DOMAIN store = File
  /\ Rows \in [Slot -> Key \cup {Free}]
  /\ \A i \in Index : Readable(i) => BagToSet(View(i)) \subseteq Entry
  /\ DOMAIN missed = Index
  /\ \A i \in Index : missed[i] # EmptyBag =>
       i \in Tree /\ BagToSet(missed[i]) \subseteq Entry
  /\ saved \in {catalog, Torn}
  /\ pc \in {"idle", "down", "rows", "flush", "stats", "create", "discard", "build"}
  /\ pc \in {"flush", "discard", "build"} => files # << >>
  /\ harm \subseteq {"failed", "cut", "leftover"}

(* As long as no statement was cut short or raised midway, the catalog     *)
(* counts the rows, and every index has exactly one entry for each of      *)
(* them, and besides only what a delete did not find in it, each as often  *)
(* as it was missed: through reused slots, indexes built before or after   *)
(* the rows, restarts, and kills between statements.                       *)
Agreement ==
  catalog.exists /\ pc \in {"idle", "down"} /\ harm = {} =>
    /\ catalog.count = Cardinality(Live)
    /\ \A i \in Indexed :
         View(i) = SetToBag({<<Rows[s], s>> : s \in Live}) (+) missed[i]

(* A statement that raises may leave entries of rows that are gone, but it *)
(* hides no row from an index.                                             *)
NoRowHidden ==
  catalog.exists /\ pc \in {"idle", "down"} /\ harm \subseteq {"failed"} =>
    \A i \in Indexed, s \in Live : Copies(i, Rows[s], s) > 0

(* What a statement that returned has done is there after a kill, in the   *)
(* catalog too, and the database opens.                                    *)
ReturnedSurvives ==
  [][pc = "idle" /\ saved # Torn /\ pc' = "down" =>
       /\ saved' = catalog
       /\ harm = {} => Rows' = Rows /\ \A i \in Indexed : View(i)' = View(i)]_vars

(* An index scan and a sequential scan give the same rows: the optimizer   *)
(* must never change answers (test_optimizer_integration.py, line 5).      *)
SameRowsByEveryPath ==
  catalog.exists /\ pc \in {"idle", "down"} /\ harm \subseteq {"failed"} =>
    \A i \in Indexed, s \in Live, k \in Key :
      Copies(i, k, s) = IF Rows[s] = k THEN 1 ELSE 0
=============================================================================
