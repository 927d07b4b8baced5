--------------------------- MODULE DatabaseProofs ---------------------------
(***************************************************************************)
(* What TLAPS proves of the statements, for every set of values, number of *)
(* slots and set of index names.                                           *)
(***************************************************************************)
EXTENDS Database, FiniteSetTheorems, SequenceTheorems, WellFoundedInduction,
        TLAPS

-----------------------------------------------------------------------------
(* The inductive invariant.  Typed holds whatever happened to the table;   *)
(* Covered as long as at most a statement has raised; the others as long   *)
(* as nothing has happened to it.                                          *)

EntryBags == UNION {BagOver(E) : E \in SUBSET Entry}
Contents(f) == IF f = Table THEN TableContents ELSE EntryBags

FileValue(f) ==
  [mem : Contents(f) \cup {Closed},
   file : Contents(f) \cup {Missing, Unreadable},
   log : {Emptied} \cup LogRecord(Contents(f))]

(* The log of an open file ends with what the file holds.                  *)
FileOK(f, x) ==
  /\ x \in FileValue(f)
  /\ x.mem # Closed /\ x.log # Emptied => x.log.has = x.file

StoreOK ==
  /\ store = [f \in File |-> store[f]]
  /\ \A f \in File : FileOK(f, store[f])

CatalogOK ==
  /\ catalog \in CatalogFile
  /\ \A m, n \in 1 .. Len(catalog.index) :
       catalog.index[m] = catalog.index[n] => m = n
  /\ ~catalog.exists => catalog = NoTable
  /\ saved \in {catalog, Torn}

ListedFiles == {files[n] : n \in 1 .. Len(files)}

StatementOK ==
  /\ pc \in {"idle", "down", "rows", "flush", "stats", "create", "discard", "build"}
  /\ pc \in {"rows", "flush", "stats", "create", "build"} => catalog.exists
  /\ files \in Seq(File)
  /\ pc \in {"flush", "discard", "build"} => files # << >>
  /\ pc = "flush" => ListedFiles \subseteq {Table} \cup Indexed
  /\ pc \in {"rows", "flush"} => store[Table].mem # Closed
  /\ statement \in [kind : {"none", "index", "insert", "update", "delete"},
                    rows : Nat, before : TableContents]
  /\ harm \subseteq {"failed", "cut", "leftover"}

(* The file of a table or an index that is not in the catalog is closed,   *)
(* unless it is still to be discarded.                                     *)
Unused(f) == IF f = Table THEN ~catalog.exists ELSE f \notin Indexed
UnusedClosed ==
  \A f \in File :
    Unused(f) /\ ~(pc = "discard" /\ f \in ListedFiles) => store[f].mem = Closed

(* A new index is built in an empty file.                                  *)
BuildOK ==
  pc = "build" =>
    \E i \in Indexed :
      /\ files = <<i>> /\ store[i].mem = Closed
      /\ "leftover" \notin harm => Recovered(store[i]) \in {Missing, EmptyBag}

LiveIn(rows) == {s \in Slot : rows[s] # Free}
PairsOf(rows) == {<<rows[s], s>> : s \in LiveIn(rows)}

(* What is left of an INSERT has room; what is left of an UPDATE or of a   *)
(* DELETE takes out rows that the table still has and had at the start.    *)
InsertLeft ==
  /\ catalog.count + statement.rows <= MaxCount
  /\ Len(todo) <= Cardinality(Slot \ Live)
  /\ \A n \in 1 .. Len(todo) :
       todo[n].gone = {} /\ \E v \in Values : todo[n].new = {v}

TakesOut(slot) ==
  /\ \A m, n \in 1 .. Len(todo) : slot[m] = slot[n] => m = n
  /\ \A n \in 1 .. Len(todo) :
       /\ Rows[slot[n]] # Free /\ statement.before[slot[n]] # Free
       /\ todo[n].gone = {<<Rows[slot[n]], slot[n]>>}
       /\ IF statement.kind = "delete" THEN todo[n].new = {}
          ELSE \E v \in Values : todo[n].new = {v}

RowsOK ==
  pc = "rows" =>
    /\ statement.kind \in {"insert", "update", "delete"}
    /\ todo \in Seq([gone : SUBSET Entry, new : SUBSET Values])
    /\ Len(todo) <= statement.rows
    /\ IF statement.kind = "insert" THEN InsertLeft
       ELSE \E slot \in [1 .. Len(todo) -> Slot] : TakesOut(slot)

Typed ==
  StoreOK /\ CatalogOK /\ StatementOK /\ UnusedClosed /\ BuildOK /\ RowsOK

(* The index that is being built.                                          *)
Building(i) == pc = "build" /\ i = Head(files)

(* No index hides a row.                                                   *)
Covered ==
  catalog.exists /\ harm \subseteq {"failed"} =>
    \A i \in Indexed : ~Building(i) =>
      View(i) \in EntryBags /\ PairsOf(Rows) \subseteq DOMAIN View(i)

(* Only deletes from a tree miss, and only in an index that is in use.     *)
MissedOK ==
  /\ missed \in [Index -> EntryBags]
  /\ \A i \in Index \ (Tree \cap Indexed) : missed[i] = EmptyBag
  /\ \A i \in Index : Building(i) => missed[i] = EmptyBag

(* Indexes and count agree with the rows.                                  *)
Matched ==
  catalog.exists /\ harm = {} =>
    \A i \in Indexed : ~Building(i) =>
      View(i) = SetToBag(PairsOf(Rows)) (+) missed[i]

Counts ==
  catalog.exists /\ harm = {} =>
    IF pc = "rows"
      THEN /\ catalog.count = Cardinality(LiveIn(statement.before))
           /\ CASE statement.kind = "insert" ->
                     Cardinality(Live) + Len(todo) = catalog.count + statement.rows
                [] statement.kind = "update" -> Cardinality(Live) = catalog.count
                [] statement.kind = "delete" ->
                     Cardinality(Live) + statement.rows = catalog.count + Len(todo)
      ELSE catalog.count = Cardinality(Live)

(* What is buffered is in the files, but for what the statement changed.   *)
IsClean(x) == x.mem \in {Closed, x.file}
Made(x) == x.mem # Closed \/ Recovered(x) # Missing

Flushed ==
  harm = {} =>
    /\ \A f \in File : \/ IsClean(store[f])
                       \/ pc = "flush" /\ f \in ListedFiles
                       \/ pc = "rows" /\ Len(todo) # statement.rows
    /\ \A i \in Indexed : ~Building(i) => Made(store[i])

-----------------------------------------------------------------------------
(* The values of one file.                                                 *)

LEMMA Sentinels ==
  ASSUME NEW f \in File
  PROVE  /\ Closed \notin Contents(f) /\ Missing \notin Contents(f)
         /\ Unreadable \notin Contents(f) /\ Missing # Unreadable
         /\ Emptied \notin LogRecord(Contents(f))
<1>1. CASE f = Table
  BY <1>1, DatabaseAssumption DEF Contents
<1>2. CASE f # Table
  <2>1. Contents(f) = EntryBags
    BY <1>2 DEF Contents
  <2>2. Emptied \notin LogRecord(EntryBags)
    <3>1. SUFFICES ASSUME Emptied \in LogRecord(EntryBags) PROVE FALSE
      OBVIOUS
    <3>2. \E E \in SUBSET Entry : Emptied.has \in BagOver(E) \cup {Unreadable}
      BY <3>1 DEF LogRecord, EntryBags
    <3>3. \E E \in SUBSET Entry : Emptied \in LogRecord(BagOver(E))
      BY <3>1, <3>2 DEF LogRecord
    <3> QED BY <3>3, DatabaseAssumption
  <2> QED BY <2>1, <2>2, DatabaseAssumption DEF EntryBags
<1> QED BY <1>1, <1>2

LEMMA EmptyBagType == EmptyBag \in EntryBags /\ DOMAIN EmptyBag = {}
<1>1. EmptyBag \in BagOver({})
  BY DEF BagOver, EmptyBag, SetToBag
<1> QED BY <1>1 DEF EntryBags, BagOver

LEMMA StartType == ASSUME NEW f \in File PROVE Start(f) \in Contents(f)
BY EmptyBagType DEF Start, Contents, NoRows, TableContents

LEMMA FileFields ==
  ASSUME NEW f \in File, NEW x, FileOK(f, x)
  PROVE  /\ x = [mem |-> x.mem, file |-> x.file, log |-> x.log]
         /\ x.mem \in Contents(f) \cup {Closed}
         /\ x.file \in Contents(f) \cup {Missing, Unreadable}
         /\ x.log # Emptied =>
              /\ x.log = [has |-> x.log.has, whole |-> x.log.whole]
              /\ x.log.has \in Contents(f) \cup {Unreadable}
              /\ x.log.whole \in BOOLEAN
         /\ x.mem # Closed /\ x.log # Emptied => x.log.has = x.file
BY DEF FileOK, FileValue, LogRecord

LEMMA MakeFile ==
  ASSUME NEW f \in File,
         NEW m \in Contents(f) \cup {Closed},
         NEW c \in Contents(f) \cup {Missing, Unreadable},
         NEW l \in {Emptied} \cup LogRecord(Contents(f)),
         m # Closed /\ l # Emptied => l.has = c
  PROVE  FileOK(f, [mem |-> m, file |-> c, log |-> l])
BY DEF FileOK, FileValue

LEMMA RecoveredType ==
  ASSUME NEW f \in File, NEW x, FileOK(f, x)
  PROVE  Recovered(x) \in Contents(f) \cup {Missing, Unreadable}
BY FileFields DEF Recovered

LEMMA SeenType ==
  ASSUME NEW f \in File, NEW x, FileOK(f, x)
  PROVE  /\ Seen(f, x) \in Contents(f) \cup {Unreadable}
         /\ f = Table => Seen(f, x) \in Contents(f)
         /\ x.mem # Closed => Seen(f, x) = x.mem /\ x.mem \in Contents(f)
         /\ f # Table /\ Seen(f, x) # Unreadable => CanOpen(x)
<1>1. CASE x.mem # Closed
  BY <1>1, FileFields DEF Seen, CanOpen
<1>2. CASE x.mem = Closed
  <2>1. Recovered(x) \in Contents(f) \cup {Missing, Unreadable}
    BY RecoveredType
  <2>2. Start(f) \in Contents(f)
    BY StartType
  <2>3. CASE Recovered(x) = Missing
    <3>1. Seen(f, x) = Start(f)
      BY <1>2, <2>3 DEF Seen
    <3>2. CanOpen(x)
      BY <2>3, Sentinels DEF CanOpen
    <3> QED BY <1>2, <2>2, <3>1, <3>2
  <2>4. CASE Recovered(x) # Missing /\ f = Table /\ Recovered(x) = Unreadable
    <3>1. Seen(f, x) = Start(f) /\ f = Table
      BY <1>2, <2>4 DEF Seen
    <3> QED BY <1>2, <2>2, <3>1
  <2>5. CASE Recovered(x) # Missing /\ ~(f = Table /\ Recovered(x) = Unreadable)
    <3>1. Seen(f, x) = Recovered(x)
      BY <1>2, <2>5 DEF Seen
    <3> QED BY <1>2, <2>1, <2>5, <3>1 DEF CanOpen
  <2> QED BY <2>3, <2>4, <2>5
<1> QED BY <1>1, <1>2

LEMMA CreatedOK ==
  ASSUME NEW f \in File
  PROVE  /\ FileOK(f, Created(f)) /\ Created(f).mem = Start(f)
         /\ f = Table => IsClean(Created(f))
<1> DEFINE has == IF f = Table THEN NoRows ELSE Unreadable
<1>1. has \in Contents(f) \cup {Unreadable}
  BY DEF Contents, TableContents, NoRows
<1>2. [has |-> has, whole |-> TRUE] \in LogRecord(Contents(f))
  BY <1>1 DEF LogRecord
<1>3. Created(f) = [mem |-> Start(f), file |-> has,
                    log |-> [has |-> has, whole |-> TRUE]]
  BY DEF Created
<1>4. FileOK(f, Created(f))
  <2> HIDE DEF has
  <2> QED BY <1>1, <1>2, <1>3, StartType, MakeFile
<1> QED BY <1>3, <1>4 DEF IsClean, Start

(* Opening a file changes nothing that a reader sees; it cannot be opened  *)
(* only if it is unreadable.                                               *)
LEMMA OpenedOK ==
  ASSUME NEW f \in File, NEW x, FileOK(f, x)
  PROVE  /\ FileOK(f, Opened(f, x))
         /\ Seen(f, Opened(f, x)) = Seen(f, x)
         /\ (Opened(f, x).mem # Closed) <=> CanOpen(x)
         /\ x.mem # Closed => Opened(f, x) = x
         /\ IsClean(x) /\ (f = Table \/ Made(x)) => IsClean(Opened(f, x))
         /\ Made(Opened(f, x))
<1> DEFINE y == Opened(f, x)
<1>1. CASE x.mem # Closed
  BY <1>1 DEF Opened, CanOpen, Made
<1>2. CASE x.mem = Closed /\ Recovered(x) = Missing
  <2>1. y = Created(f)
    BY <1>2 DEF Opened
  <2>2. y.mem = Start(f) /\ y.mem # Closed
    BY <2>1, CreatedOK, StartType, Sentinels
  <2>3. Seen(f, x) = Start(f) /\ Seen(f, y) = Start(f)
    BY <1>2, <2>2 DEF Seen
  <2> QED BY <1>2, <2>1, <2>2, <2>3, CreatedOK, Sentinels DEF CanOpen, Made
<1>3. CASE x.mem = Closed /\ Recovered(x) # Missing
  <2> DEFINE m == IF Recovered(x) = Unreadable THEN Closed ELSE Recovered(x)
  <2>1. y = [mem |-> m, file |-> Recovered(x), log |-> Emptied]
    BY <1>3 DEF Opened
  <2>2. /\ m \in Contents(f) \cup {Closed}
        /\ Recovered(x) \in Contents(f) \cup {Missing, Unreadable}
    BY <1>3, RecoveredType
  <2>3. FileOK(f, y)
    <3> HIDE DEF m
    <3> QED BY <2>1, <2>2, MakeFile
  <2>4. Recovered(y) = Recovered(x)
    BY <2>1 DEF Recovered
  <2>5. (m # Closed) <=> (Recovered(x) # Unreadable)
    BY <1>3, <2>2, Sentinels
  <2>6. Seen(f, y) = Seen(f, x)
    BY <1>3, <2>1, <2>4, <2>5 DEF Seen
  <2> QED BY <1>3, <2>1, <2>3, <2>4, <2>5, <2>6 DEF CanOpen, IsClean, Made
<1> QED BY <1>1, <1>2, <1>3

LEMMA WrittenOK ==
  ASSUME NEW f \in File, NEW x, FileOK(f, x), NEW y \in Written(x)
  PROVE  /\ FileOK(f, y) /\ y.mem = x.mem /\ Seen(f, y) = Seen(f, x)
         /\ IsClean(y) /\ (Made(x) => Made(y))
         /\ x.mem = Closed => y = x
<1>1. CASE x.mem \in {Closed, x.file}
  BY <1>1 DEF Written, IsClean
<1>2. CASE x.mem \notin {Closed, x.file}
  <2> DEFINE w == x.log # Emptied /\ x.log.whole
  <2>1. PICK l \in {Emptied, [has |-> x.mem, whole |-> w]} :
               y = [x EXCEPT !.file = x.mem, !.log = l]
    BY <1>2 DEF Written
  <2>2. w \in BOOLEAN
    OBVIOUS
  <2> HIDE DEF w
  <2>3. y = [mem |-> x.mem, file |-> x.mem, log |-> l]
    BY <2>1 DEF FileOK, FileValue
  <2>4. x.mem \in Contents(f)
    BY <1>2, FileFields
  <2>5. l \in {Emptied} \cup LogRecord(Contents(f)) /\ (l # Emptied => l.has = x.mem)
    BY <2>1, <2>2, <2>4 DEF LogRecord
  <2>6. FileOK(f, y)
    BY <2>3, <2>4, <2>5, MakeFile
  <2> QED BY <1>2, <2>3, <2>6 DEF Seen, IsClean, Made
<1> QED BY <1>1, <1>2

LEMMA DiscardedOK ==
  ASSUME NEW f \in File, NEW x, FileOK(f, x)
  PROVE  FileOK(f, Discarded(x)) /\ Discarded(x).mem = Closed
<1> DEFINE l == IF x.mem = Closed THEN x.log ELSE Emptied
<1>1. Discarded(x) = [mem |-> Closed, file |-> Missing, log |-> l]
  BY DEF Discarded
<1>2. l \in {Emptied} \cup LogRecord(Contents(f))
  BY DEF FileOK, FileValue
<1> HIDE DEF l
<1> QED BY <1>1, <1>2, MakeFile

(* What Close does to a file.                                              *)
LEMMA ClosedOK ==
  ASSUME NEW f \in File, NEW x, FileOK(f, x), x.mem # Closed,
         NEW y, y = [mem |-> Closed, file |-> x.mem, log |-> Emptied]
  PROVE  /\ FileOK(f, y) /\ y.mem = Closed /\ Seen(f, y) = Seen(f, x)
         /\ Made(y)
<1>1. x.mem \in Contents(f)
  BY FileFields
<1>2. FileOK(f, y)
  BY <1>1, MakeFile
<1>3. Recovered(y) = x.mem
  BY DEF Recovered
<1> QED BY <1>1, <1>2, <1>3, Sentinels DEF Seen, Made

(* A kill loses what was not written back.                                 *)
LEMMA KilledOK ==
  ASSUME NEW f \in File, NEW x, FileOK(f, x),
         NEW y, y = [x EXCEPT !.mem = Closed]
  PROVE  /\ FileOK(f, y) /\ y.mem = Closed
         /\ IsClean(x) => Seen(f, y) = Seen(f, x) /\ (Made(x) => Made(y))
<1>1. y = [mem |-> Closed, file |-> x.file, log |-> x.log]
  BY DEF FileOK, FileValue
<1>2. FileOK(f, y)
  <2>1. /\ x.log \in {Emptied} \cup LogRecord(Contents(f))
        /\ x.file \in Contents(f) \cup {Missing, Unreadable}
        /\ Closed \in Contents(f) \cup {Closed}
    BY DEF FileOK, FileValue
  <2>2. FileOK(f, [mem |-> Closed, file |-> x.file, log |-> x.log])
    BY ONLY <2>1, f \in File, MakeFile
  <2> QED BY <1>1, <2>2
<1>3. Recovered(y) = Recovered(x)
  BY <1>1 DEF Recovered
<1>4. CASE x.mem = Closed
  BY <1>1, <1>2, <1>3, <1>4 DEF Seen, Made
<1>5. CASE x.mem # Closed /\ IsClean(x)
  <2>1. x.mem = x.file /\ x.mem \in Contents(f)
    BY <1>5, FileFields DEF IsClean
  <2>2. y.file = x.mem /\ y.log = x.log /\ x.mem # Missing
    BY <1>1, <2>1, Sentinels
  <2>3. x.log # Emptied => x.log.has = x.mem
    BY <1>5, <2>1 DEF FileOK
  <2>4. Recovered(y) = x.mem
    BY <2>2, <2>3 DEF Recovered
  <2> QED BY <1>1, <1>2, <1>5, <2>1, <2>4, Sentinels DEF Seen, Made
<1> QED BY <1>1, <1>2, <1>4, <1>5

-----------------------------------------------------------------------------
(* Bags of entries.                                                        *)

LEMMA BagFields ==
  ASSUME NEW B
  PROVE  B \in EntryBags <=>
           /\ B = [e \in DOMAIN B |-> B[e]] /\ DOMAIN B \subseteq Entry
           /\ \A e \in DOMAIN B : B[e] \in Nat /\ B[e] > 0
<1>1. ASSUME B \in EntryBags
      PROVE  /\ B = [e \in DOMAIN B |-> B[e]] /\ DOMAIN B \subseteq Entry
             /\ \A e \in DOMAIN B : B[e] \in Nat /\ B[e] > 0
  BY <1>1 DEF EntryBags, BagOver
<1>2. ASSUME B = [e \in DOMAIN B |-> B[e]], DOMAIN B \subseteq Entry,
             \A e \in DOMAIN B : B[e] \in Nat /\ B[e] > 0
      PROVE  B \in EntryBags
  <2>1. B \in BagOver(DOMAIN B)
    BY <1>2 DEF BagOver
  <2> QED BY <1>2, <2>1 DEF EntryBags
<1> QED BY <1>1, <1>2

LEMMA SetToBagType ==
  ASSUME NEW S \in SUBSET Entry
  PROVE  SetToBag(S) \in EntryBags /\ DOMAIN SetToBag(S) = S
BY BagFields DEF SetToBag

(* What Reindexed does to the entries of an index.                         *)
LEMMA ReplaceEntries ==
  ASSUME NEW A \in EntryBags, NEW G \in SUBSET Entry, NEW N \in SUBSET Entry,
         NEW B, B = (A (-) SetToBag(G)) (+) SetToBag(N)
  PROVE  B \in EntryBags /\ (DOMAIN A \ G) \cup N \subseteq DOMAIN B
<1> DEFINE C == A (-) SetToBag(G)
           left(e) == IF e \in G THEN A[e] - 1 ELSE A[e]
<1>1. /\ DOMAIN A \subseteq Entry
      /\ \A e \in DOMAIN A : A[e] \in Nat /\ A[e] > 0
  BY BagFields
<1>2. /\ DOMAIN SetToBag(G) = G /\ \A e \in G : SetToBag(G)[e] = 1
      /\ DOMAIN SetToBag(N) = N /\ \A e \in N : SetToBag(N)[e] = 1
  BY DEF SetToBag
<1>3. /\ DOMAIN C = {e \in DOMAIN A : left(e) > 0}
      /\ \A e \in DOMAIN C : C[e] = left(e)
  BY <1>2 DEF (-)
<1>4. /\ DOMAIN C \subseteq DOMAIN A /\ DOMAIN A \ G \subseteq DOMAIN C
      /\ \A e \in DOMAIN C : C[e] \in Nat /\ C[e] > 0
  BY <1>1, <1>3
<1> HIDE DEF C
<1>5. /\ B = [e \in DOMAIN C \cup N |-> B[e]] /\ DOMAIN B = DOMAIN C \cup N
      /\ \A e \in DOMAIN B : B[e] = (IF e \in DOMAIN C THEN C[e] ELSE 0)
                                  + (IF e \in N THEN 1 ELSE 0)
  BY <1>2 DEF (+), C
<1>6. \A e \in DOMAIN B : B[e] \in Nat /\ B[e] > 0
  BY <1>4, <1>5
<1>7. B \in EntryBags
  BY <1>1, <1>4, <1>5, <1>6, BagFields
<1> QED BY <1>4, <1>5, <1>7

(* How many copies of an entry a bag has.                                  *)
CopiesOf(e, B) == IF e \in DOMAIN B THEN B[e] ELSE 0

LEMMA SameBag ==
  ASSUME NEW A \in EntryBags, NEW B \in EntryBags,
         \A e \in Entry : CopiesOf(e, A) = CopiesOf(e, B)
  PROVE  A = B
<1>1. /\ A = [e \in DOMAIN A |-> A[e]] /\ DOMAIN A \subseteq Entry
      /\ B = [e \in DOMAIN B |-> B[e]] /\ DOMAIN B \subseteq Entry
      /\ \A e \in DOMAIN A : A[e] \in Nat /\ A[e] > 0
      /\ \A e \in DOMAIN B : B[e] \in Nat /\ B[e] > 0
  BY BagFields
<1>2. ASSUME NEW e \in Entry
      PROVE  /\ e \in DOMAIN A <=> e \in DOMAIN B
             /\ e \in DOMAIN A => A[e] = B[e]
  <2>1. (IF e \in DOMAIN A THEN A[e] ELSE 0) = (IF e \in DOMAIN B THEN B[e] ELSE 0)
    BY DEF CopiesOf
  <2> QED BY <1>1, <2>1
<1>3. DOMAIN A = DOMAIN B
  BY <1>1, <1>2
<1> QED BY <1>1, <1>2, <1>3

LEMMA SetCopies ==
  ASSUME NEW S \in SUBSET Entry
  PROVE  /\ SetToBag(S) \in EntryBags
         /\ \A e : CopiesOf(e, SetToBag(S)) = IF e \in S THEN 1 ELSE 0
<1>1. DOMAIN SetToBag(S) = S /\ \A e \in S : SetToBag(S)[e] = 1
  BY DEF SetToBag
<1> QED BY <1>1, SetToBagType DEF CopiesOf

LEMMA SumCopies ==
  ASSUME NEW A \in EntryBags, NEW B \in EntryBags
  PROVE  /\ A (+) B \in EntryBags
         /\ \A e : CopiesOf(e, A (+) B) = CopiesOf(e, A) + CopiesOf(e, B)
<1> DEFINE C == A (+) B
<1>1. /\ DOMAIN A \subseteq Entry /\ \A e \in DOMAIN A : A[e] \in Nat /\ A[e] > 0
      /\ DOMAIN B \subseteq Entry /\ \A e \in DOMAIN B : B[e] \in Nat /\ B[e] > 0
  BY BagFields
<1>2. /\ C = [e \in DOMAIN A \cup DOMAIN B |-> C[e]]
      /\ DOMAIN C = DOMAIN A \cup DOMAIN B
      /\ \A e \in DOMAIN C : C[e] = (IF e \in DOMAIN A THEN A[e] ELSE 0)
                                  + (IF e \in DOMAIN B THEN B[e] ELSE 0)
  BY DEF (+)
<1>3. \A e \in DOMAIN C : C[e] \in Nat /\ C[e] > 0
  BY <1>1, <1>2
<1>4. C \in EntryBags
  BY <1>1, <1>2, <1>3, BagFields
<1>5. ASSUME NEW e PROVE CopiesOf(e, C) = CopiesOf(e, A) + CopiesOf(e, B)
  BY <1>2 DEF CopiesOf
<1> QED BY <1>4, <1>5

LEMMA TakenCopies ==
  ASSUME NEW A \in EntryBags, NEW G \in SUBSET Entry
  PROVE  /\ A (-) SetToBag(G) \in EntryBags
         /\ \A e : CopiesOf(e, A (-) SetToBag(G)) =
                   IF e \in G /\ e \in DOMAIN A THEN CopiesOf(e, A) - 1
                   ELSE CopiesOf(e, A)
<1> DEFINE C == A (-) SetToBag(G)
           left(e) == IF e \in G THEN A[e] - 1 ELSE A[e]
<1>1. /\ DOMAIN A \subseteq Entry /\ \A e \in DOMAIN A : A[e] \in Nat /\ A[e] > 0
      /\ DOMAIN SetToBag(G) = G /\ \A e \in G : SetToBag(G)[e] = 1
  BY BagFields DEF SetToBag
<1>2. /\ C = [e \in DOMAIN C |-> C[e]]
      /\ DOMAIN C = {e \in DOMAIN A : left(e) > 0}
      /\ \A e \in DOMAIN C : C[e] = left(e)
  BY <1>1 DEF (-)
<1> HIDE DEF C
<1>3. \A e \in DOMAIN C : C[e] \in Nat /\ C[e] > 0 /\ e \in Entry
  BY <1>1, <1>2
<1>4. C \in EntryBags
  BY <1>2, <1>3, BagFields
<1>5. ASSUME NEW e
      PROVE  CopiesOf(e, C) = IF e \in G /\ e \in DOMAIN A THEN CopiesOf(e, A) - 1
                              ELSE CopiesOf(e, A)
  BY <1>1, <1>2 DEF CopiesOf
<1> QED BY <1>4, <1>5 DEF C

(* A row change in the entries of an index that has those of S and besides *)
(* those of M: the delete finds its entry, or it misses it.                *)
LEMMA ReplaceBesides ==
  ASSUME NEW S \in SUBSET Entry, NEW M \in EntryBags,
         NEW G \in SUBSET S, NEW N \in SUBSET Entry, N \cap (S \ G) = {},
         NEW A, A = SetToBag(S) (+) M, NEW T, T = (S \ G) \cup N
  PROVE  /\ (A (-) SetToBag(G)) (+) SetToBag(N) = SetToBag(T) (+) M
         /\ (A (-) SetToBag({})) (+) SetToBag(N) =
              SetToBag(T) (+) (M (+) SetToBag(G))
<1>1. /\ A \in EntryBags
      /\ \A e : CopiesOf(e, A) = (IF e \in S THEN 1 ELSE 0) + CopiesOf(e, M)
  BY SetCopies, SumCopies
<1>2. \A e \in Entry : CopiesOf(e, M) \in Nat /\ (e \in DOMAIN A \/ CopiesOf(e, A) = 0)
  BY BagFields DEF CopiesOf
<1>3. T \in SUBSET Entry
  OBVIOUS
<1>4. /\ SetToBag(T) (+) M \in EntryBags
      /\ \A e : CopiesOf(e, SetToBag(T) (+) M) =
                  (IF e \in T THEN 1 ELSE 0) + CopiesOf(e, M)
  BY <1>3, SetCopies, SumCopies
<1>5. (A (-) SetToBag(G)) (+) SetToBag(N) = SetToBag(T) (+) M
  <2> DEFINE C == A (-) SetToBag(G)
             B == C (+) SetToBag(N)
  <2>1. /\ C \in EntryBags
        /\ \A e : CopiesOf(e, C) = IF e \in G /\ e \in DOMAIN A
                                  THEN CopiesOf(e, A) - 1 ELSE CopiesOf(e, A)
    BY <1>1, TakenCopies
  <2> HIDE DEF C
  <2>2. /\ B \in EntryBags
        /\ \A e : CopiesOf(e, B) = CopiesOf(e, C) + (IF e \in N THEN 1 ELSE 0)
    BY <2>1, SetCopies, SumCopies
  <2> HIDE DEF B
  <2>3. ASSUME NEW e \in Entry
        PROVE  CopiesOf(e, B) = CopiesOf(e, SetToBag(T) (+) M)
    <3>1. CASE e \in G
      <4>1. /\ CopiesOf(e, A) = 1 + CopiesOf(e, M) /\ CopiesOf(e, M) \in Nat
            /\ e \in DOMAIN A
        BY <1>1, <1>2, <2>3, <3>1
      <4>2. CopiesOf(e, C) = CopiesOf(e, M)
        BY <2>1, <3>1, <4>1
      <4>3. (e \in T) <=> (e \in N)
        BY <3>1
      <4>4. CopiesOf(e, B) = CopiesOf(e, M) + (IF e \in N THEN 1 ELSE 0)
        BY <2>2, <4>2
      <4>5. CopiesOf(e, SetToBag(T) (+) M) =
              (IF e \in N THEN 1 ELSE 0) + CopiesOf(e, M)
        BY ONLY <1>4, <4>3
      <4> QED BY ONLY <4>1, <4>4, <4>5
    <3>2. CASE e \notin G
      <4>1. CopiesOf(e, C) = (IF e \in S THEN 1 ELSE 0) + CopiesOf(e, M)
        BY <1>1, <2>1, <3>2
      <4> QED BY <1>2, <1>4, <2>2, <2>3, <3>2, <4>1
    <3> QED BY <3>1, <3>2
  <2>4. B = SetToBag(T) (+) M
    BY <1>4, <2>2, <2>3, SameBag
  <2> QED BY <2>4 DEF B, C
<1>6. (A (-) SetToBag({})) (+) SetToBag(N) = SetToBag(T) (+) (M (+) SetToBag(G))
  <2> DEFINE C == A (-) SetToBag({})
             B == C (+) SetToBag(N)
             L == M (+) SetToBag(G)
             D == SetToBag(T) (+) L
  <2>1. /\ C \in EntryBags /\ \A e : CopiesOf(e, C) = CopiesOf(e, A)
    BY <1>1, TakenCopies
  <2> HIDE DEF C
  <2>2. /\ B \in EntryBags
        /\ \A e : CopiesOf(e, B) = CopiesOf(e, C) + (IF e \in N THEN 1 ELSE 0)
    BY <2>1, SetCopies, SumCopies
  <2> HIDE DEF B
  <2>3. /\ L \in EntryBags
        /\ \A e : CopiesOf(e, L) = CopiesOf(e, M) + (IF e \in G THEN 1 ELSE 0)
    BY SetCopies, SumCopies
  <2> HIDE DEF L
  <2>4. /\ D \in EntryBags
        /\ \A e : CopiesOf(e, D) = (IF e \in T THEN 1 ELSE 0) + CopiesOf(e, L)
    BY <1>3, <2>3, SetCopies, SumCopies
  <2> HIDE DEF D
  <2>5. ASSUME NEW e \in Entry
        PROVE  CopiesOf(e, B) = CopiesOf(e, D)
    BY <1>1, <1>2, <2>1, <2>2, <2>3, <2>4
  <2>6. B = D
    BY <2>2, <2>4, <2>5, SameBag
  <2> QED BY <2>6 DEF B, C, L, D
<1> QED BY <1>5, <1>6

LEMMA NothingBesides ==
  ASSUME NEW S \in SUBSET Entry
  PROVE  SetToBag(S) (+) EmptyBag = SetToBag(S)
BY DEF EmptyBag, SetToBag, (+)

LEMMA AddToEmpty ==
  ASSUME NEW S \in SUBSET Entry
  PROVE  EmptyBag (+) SetToBag(S) = SetToBag(S)
BY DEF EmptyBag, SetToBag, (+)

-----------------------------------------------------------------------------
(* The rows by slot.                                                       *)

LEMMA SlotSets ==
  ASSUME NEW S \in SUBSET Slot
  PROVE  IsFiniteSet(S) /\ Cardinality(S) \in Nat /\ IsFiniteSet(Slot)
<1>1. IsFiniteSet(Slot)
  BY FS_Interval, DatabaseAssumption DEF Slot
<1> QED BY <1>1, FS_Subset, FS_CardinalityType

LEMMA LeastNumber ==
  ASSUME NEW T \in SUBSET Nat, T # {}
  PROVE  \E x \in T : \A y \in T : x <= y
<1>1. PICK x \in T : \A y \in T : ~(<<y, x>> \in OpToRel(<, Nat))
  BY NatLessThanWellFounded, WFMin
<1>2. ASSUME NEW y \in T PROVE x <= y
  <2>1. y \in Nat /\ x \in Nat
    OBVIOUS
  <2>2. ~(y < x)
    BY <1>1, <2>1 DEF OpToRel
  <2> QED BY <2>1, <2>2
<1> QED BY <1>2

LEMMA FirstFreeOK ==
  ASSUME NEW rows \in TableContents, LiveIn(rows) # Slot
  PROVE  FirstFree(rows) \in Slot /\ rows[FirstFree(rows)] = Free
<1> DEFINE T == {s \in Slot : rows[s] = Free}
<1>1. T \in SUBSET Nat /\ T # {}
  BY DatabaseAssumption DEF LiveIn, Slot
<1>2. PICK s \in T : \A y \in T : s <= y
  BY <1>1, LeastNumber
<1>3. \A q \in 0 .. s - 1 : rows[q] # Free
  BY <1>1, <1>2, DatabaseAssumption DEF Slot
<1>4. \E q \in Slot : rows[q] = Free /\ \A r \in 0 .. q - 1 : rows[r] # Free
  BY <1>2, <1>3
<1> QED BY <1>4 DEF FirstFree

LEMMA LiveRows ==
  ASSUME NEW rows \in TableContents
  PROVE  /\ \A s \in LiveIn(rows) : s \in Slot /\ rows[s] \in Key
         /\ PairsOf(rows) \subseteq Entry
BY DEF TableContents, LiveIn, PairsOf, Entry

LEMMA WithoutOne ==
  ASSUME NEW rows \in TableContents, NEW s \in Slot, rows[s] # Free,
         NEW e, e = <<rows[s], s>>, NEW left, left = Without(rows, {e})
  PROVE  /\ left \in TableContents
         /\ left[s] = Free /\ \A q \in Slot \ {s} : left[q] = rows[q]
         /\ LiveIn(left) = LiveIn(rows) \ {s} /\ LiveIn(left) # Slot
         /\ PairsOf(left) = PairsOf(rows) \ {e}
         /\ Cardinality(LiveIn(left)) = Cardinality(LiveIn(rows)) - 1
<1>1. left = [q \in Slot |-> IF q = s THEN Free ELSE rows[q]] /\ e[2] = s
  BY DEF Without
<1>2. left \in TableContents
  BY <1>1 DEF TableContents
<1>3. LiveIn(left) = LiveIn(rows) \ {s}
  BY <1>1 DEF LiveIn
<1>4. PairsOf(left) = PairsOf(rows) \ {e}
  <2>1. ASSUME NEW g \in PairsOf(left)
        PROVE  g \in PairsOf(rows) /\ g # e
    <3>1. PICK q \in LiveIn(left) : g = <<left[q], q>>
      BY <2>1 DEF PairsOf
    <3>2. q \in LiveIn(rows) /\ q # s /\ left[q] = rows[q]
      BY <1>1, <1>3, <3>1 DEF LiveIn
    <3> QED BY <3>1, <3>2 DEF PairsOf
  <2>2. ASSUME NEW g \in PairsOf(rows), g # e
        PROVE  g \in PairsOf(left)
    <3>1. PICK q \in LiveIn(rows) : g = <<rows[q], q>>
      BY <2>2 DEF PairsOf
    <3>2. q # s
      BY <2>2, <3>1
    <3>3. q \in LiveIn(left) /\ left[q] = rows[q]
      BY <1>1, <1>3, <3>2 DEF LiveIn
    <3> QED BY <3>1, <3>3 DEF PairsOf
  <2> QED BY <2>1, <2>2
<1>5. LiveIn(rows) \in SUBSET Slot /\ s \in LiveIn(rows)
  BY DEF LiveIn
<1>6. Cardinality(LiveIn(left)) = Cardinality(LiveIn(rows)) - 1
  BY <1>3, <1>5, SlotSets, FS_RemoveElement
<1> QED BY <1>1, <1>2, <1>3, <1>4, <1>6

LEMMA WithoutType ==
  ASSUME NEW rows \in TableContents, NEW gone
  PROVE  Without(rows, gone) \in TableContents
BY DEF Without, TableContents

LEMMA WithoutNone ==
  ASSUME NEW rows \in TableContents PROVE Without(rows, {}) = rows
BY DEF Without, TableContents

LEMMA WithOne ==
  ASSUME NEW left \in TableContents, NEW q \in Slot, left[q] = Free,
         NEW v \in Key, NEW rows, rows = With(left, {<<v, q>>})
  PROVE  /\ rows \in TableContents
         /\ rows[q] = v /\ \A s \in Slot \ {q} : rows[s] = left[s]
         /\ LiveIn(rows) = LiveIn(left) \cup {q}
         /\ PairsOf(rows) = PairsOf(left) \cup {<<v, q>>}
         /\ {<<v, q>>} \cap PairsOf(left) = {}
         /\ Cardinality(LiveIn(rows)) = Cardinality(LiveIn(left)) + 1
<1>1. rows = [s \in Slot |-> IF s = q THEN v ELSE left[s]]
  <2>1. ASSUME NEW s \in Slot
        PROVE  (IF \E e \in {<<v, q>>} : e[2] = s
                THEN (CHOOSE e \in {<<v, q>>} : e[2] = s)[1] ELSE left[s])
               = IF s = q THEN v ELSE left[s]
    <3>1. CASE s = q
      <4>1. (CHOOSE e \in {<<v, q>>} : e[2] = s) = <<v, q>>
        BY <3>1
      <4> QED BY <3>1, <4>1
    <3>2. CASE s # q
      BY <3>2
    <3> QED BY <3>1, <3>2
  <2> QED BY <2>1 DEF With
<1>2. rows \in TableContents /\ v # Free
  BY <1>1, DatabaseAssumption DEF TableContents
<1>3. LiveIn(rows) = LiveIn(left) \cup {q} /\ q \notin LiveIn(left)
  BY <1>1, <1>2 DEF LiveIn
<1>4. PairsOf(rows) = PairsOf(left) \cup {<<v, q>>}
  <2>1. \A p \in LiveIn(left) : p \in LiveIn(rows) /\ rows[p] = left[p]
    BY <1>1, <1>3 DEF LiveIn
  <2>2. q \in LiveIn(rows) /\ rows[q] = v
    BY <1>1, <1>3
  <2>3. ASSUME NEW e \in PairsOf(rows) PROVE e \in PairsOf(left) \cup {<<v, q>>}
    <3>1. PICK p \in LiveIn(rows) : e = <<rows[p], p>>
      BY <2>3 DEF PairsOf
    <3>2. CASE p = q
      BY <2>2, <3>1, <3>2
    <3>3. CASE p # q
      <4>1. p \in LiveIn(left) /\ rows[p] = left[p]
        BY <1>1, <1>3, <3>1, <3>3 DEF LiveIn
      <4> QED BY <3>1, <4>1 DEF PairsOf
    <3> QED BY <3>2, <3>3
  <2>4. \A e : e \in PairsOf(left) => e \in PairsOf(rows)
    BY <2>1 DEF PairsOf
  <2>5. <<v, q>> \in PairsOf(rows)
    BY <2>2 DEF PairsOf
  <2> QED BY <2>3, <2>4, <2>5
<1>5. LiveIn(left) \in SUBSET Slot
  BY DEF LiveIn
<1>6. Cardinality(LiveIn(rows)) = Cardinality(LiveIn(left)) + 1
  BY <1>3, <1>5, SlotSets, FS_AddElement
<1>7. {<<v, q>>} \cap PairsOf(left) = {}
  BY <1>3 DEF PairsOf
<1> QED BY <1>1, <1>2, <1>3, <1>4, <1>6, <1>7

LEMMA WithNone ==
  ASSUME NEW left \in TableContents PROVE With(left, {}) = left
BY DEF With, TableContents
-----------------------------------------------------------------------------
(* The first row change of todo.                                           *)

LEMMA TodoSeq ==
  ASSUME NEW S, NEW s \in Seq(S), s # << >>
  PROVE  /\ Len(s) \in Nat /\ Len(s) >= 1 /\ Head(s) = s[1] /\ Head(s) \in S
         /\ Tail(s) \in Seq(S) /\ Len(Tail(s)) = Len(s) - 1
         /\ \A n \in 1 .. Len(s) - 1 : Tail(s)[n] = s[n + 1]
         /\ Len(s) # 1 => Tail(s) # << >>
<1>1. /\ Len(s) \in Nat /\ Len(s) >= 1 /\ Head(s) = s[1] /\ Head(s) \in S
      /\ Tail(s) \in Seq(S) /\ Len(Tail(s)) = Len(s) - 1
      /\ \A n \in 1 .. Len(s) - 1 : Tail(s)[n] = s[n + 1]
  OBVIOUS
<1>2. ASSUME NEW t, t = << >> PROVE Len(t) = 0
  BY <1>2
<1>3. Tail(s) = << >> => Len(s) - 1 = 0
  BY <1>1, <1>2
<1>4. Len(s) \in Nat
  OBVIOUS
<1>5. Len(s) - 1 = 0 => Len(s) = 1
  BY ONLY <1>4
<1> QED BY <1>1, <1>3, <1>5

LEMMA TableRows ==
  ASSUME Typed
  PROVE  /\ Rows \in TableContents /\ Live = LiveIn(Rows)
         /\ pc \in {"rows", "flush"} => store[Table].mem = Rows
<1>1. Table \in File /\ FileOK(Table, store[Table])
  BY DEF Typed, StoreOK, File
<1> QED BY <1>1, SeenType
        DEF Typed, StatementOK, Rows, View, Contents, Live, LiveIn

LEMMA HeadChange ==
  ASSUME Typed, pc = "rows", todo # << >>,
         NEW change, change = Head(todo),
         NEW left, left = Without(store[Table].mem, change.gone)
  PROVE  /\ change \in [gone : SUBSET Entry, new : SUBSET Values]
         /\ left \in TableContents
         /\ statement.kind = "insert" =>
              change.gone = {} /\ left = Rows /\ LiveIn(left) # Slot
         /\ statement.kind # "insert" =>
              \E s \in Slot : /\ Rows[s] # Free /\ statement.before[s] # Free
                              /\ change.gone = {<<Rows[s], s>>}
         /\ statement.kind = "delete" => change.new = {}
         /\ statement.kind # "delete" => \E v \in Values : change.new = {v}
<1> DEFINE Changes == [gone : SUBSET Entry, new : SUBSET Values]
<1>1. /\ store[Table].mem = Rows /\ Rows \in TableContents /\ Live = LiveIn(Rows)
  BY TableRows
<1>2. RowsOK /\ todo \in Seq(Changes)
  BY DEF Typed, RowsOK
<1>3. change = todo[1] /\ change \in Changes /\ 1 \in 1 .. Len(todo)
  <2> HIDE DEF Changes
  <2> QED BY <1>2, TodoSeq
<1>4. CASE statement.kind = "insert"
  <2>1. InsertLeft
    BY <1>2, <1>4 DEF RowsOK
  <2>2. change.gone = {} /\ \E v \in Values : change.new = {v}
    BY <1>3, <2>1 DEF InsertLeft
  <2>3. left = Rows
    BY <1>1, <2>2, WithoutNone
  <2>4. Slot \ Live # {}
    <3>1. Len(todo) \in Nat /\ Len(todo) >= 1
      <4> HIDE DEF Changes
      <4> QED BY <1>2, TodoSeq
    <3>2. Cardinality(Slot \ Live) \in Nat
      BY SlotSets
    <3>3. Cardinality(Slot \ Live) # 0
      BY <2>1, <3>1, <3>2 DEF InsertLeft
    <3>4. Cardinality({}) = 0
      BY FS_EmptySet
    <3> QED BY <3>3, <3>4
  <2> QED BY <1>1, <1>3, <1>4, <2>2, <2>3, <2>4
<1>5. CASE statement.kind # "insert"
  <2>1. PICK slot \in [1 .. Len(todo) -> Slot] : TakesOut(slot)
    BY <1>2, <1>5 DEF RowsOK
  <2>2. /\ Rows[slot[1]] # Free /\ statement.before[slot[1]] # Free
        /\ change.gone = {<<Rows[slot[1]], slot[1]>>}
        /\ IF statement.kind = "delete" THEN change.new = {}
           ELSE \E v \in Values : change.new = {v}
    BY <1>3, <2>1 DEF TakesOut
  <2>3. slot[1] \in Slot
    BY <1>3, <2>1
  <2>4. left \in TableContents
    BY <1>1, WithoutType
  <2> QED BY <1>3, <1>5, <2>2, <2>3, <2>4
<1> QED BY <1>4, <1>5

(* The table after it: its pairs of value and slot change as the entries   *)
(* of an index do.                                                         *)
LEMMA NewRows ==
  ASSUME Typed, pc = "rows", todo # << >>,
         NEW change, change = Head(todo), Bad \notin change.new,
         NEW left, left = Without(store[Table].mem, change.gone),
         NEW added, added = NewEntries(change, left),
         NEW rows, rows = With(left, added)
  PROVE  /\ rows \in TableContents
         /\ change.gone \in SUBSET Entry /\ added \in SUBSET Entry
         /\ PairsOf(rows) = (PairsOf(Rows) \ change.gone) \cup added
         /\ added \cap (PairsOf(Rows) \ change.gone) = {}
         /\ \A s \in Slot : Rows[s] # Free /\ <<Rows[s], s>> \notin change.gone =>
              rows[s] = Rows[s]
         /\ statement.kind = "insert" =>
              Cardinality(LiveIn(rows)) = Cardinality(Live) + 1
         /\ statement.kind = "update" =>
              Cardinality(LiveIn(rows)) = Cardinality(Live)
         /\ statement.kind = "delete" =>
              Cardinality(LiveIn(rows)) = Cardinality(Live) - 1
<1>1. /\ store[Table].mem = Rows /\ Rows \in TableContents /\ Live = LiveIn(Rows)
      /\ statement.kind \in {"insert", "update", "delete"}
  BY TableRows DEF Typed, RowsOK
<1>2. Cardinality(Live) \in Nat /\ Cardinality(LiveIn(left)) \in Nat
  BY SlotSets DEF Live, LiveIn
<1>3. /\ change.gone \in SUBSET Entry /\ left \in TableContents
      /\ PairsOf(left) = PairsOf(Rows) \ change.gone
      /\ \A s \in Slot : Rows[s] # Free /\ <<Rows[s], s>> \notin change.gone =>
              left[s] = Rows[s]
      /\ statement.kind # "delete" => LiveIn(left) # Slot
      /\ Cardinality(LiveIn(left)) =
           IF statement.kind = "insert" THEN Cardinality(Live)
           ELSE Cardinality(Live) - 1
  <2>1. CASE statement.kind = "insert"
    BY <1>1, <2>1, HeadChange
  <2>2. CASE statement.kind # "insert"
    <3>1. PICK s \in Slot : Rows[s] # Free /\ change.gone = {<<Rows[s], s>>}
      BY <2>2, HeadChange
    <3>2. left = Without(Rows, {<<Rows[s], s>>})
      BY <1>1, <3>1
    <3>3. /\ left \in TableContents
          /\ \A q \in Slot \ {s} : left[q] = Rows[q]
          /\ LiveIn(left) # Slot
          /\ PairsOf(left) = PairsOf(Rows) \ {<<Rows[s], s>>}
          /\ Cardinality(LiveIn(left)) = Cardinality(LiveIn(Rows)) - 1
      <4> DEFINE old == Rows
                 e == <<old[s], s>>
      <4>1. /\ old \in TableContents /\ s \in Slot /\ old[s] # Free
            /\ left = Without(old, {e})
        BY <1>1, <3>1, <3>2
      <4>2. e = <<old[s], s>>
        OBVIOUS
      <4> HIDE DEF old, e
      <4>3. /\ left \in TableContents
            /\ \A q \in Slot \ {s} : left[q] = old[q]
            /\ LiveIn(left) # Slot
            /\ PairsOf(left) = PairsOf(old) \ {e}
            /\ Cardinality(LiveIn(left)) = Cardinality(LiveIn(old)) - 1
        BY ONLY <4>1, <4>2, WithoutOne
      <4> QED BY <4>3 DEF old, e
    <3>4. change.gone \in SUBSET Entry
      BY HeadChange
    <3> QED BY <1>1, <2>2, <3>1, <3>3, <3>4
  <2> QED BY <2>1, <2>2
<1>4. CASE statement.kind = "delete"
  <2>1. added = {}
    BY <1>4, HeadChange DEF NewEntries
  <2>2. rows = left
    BY <1>3, <2>1, WithNone
  <2> QED BY <1>3, <1>4, <2>1, <2>2
<1>5. CASE statement.kind # "delete"
  <2>1. PICK v \in Key : change.new = {v}
    BY <1>5, HeadChange DEF Values
  <2> DEFINE q == FirstFree(left)
  <2>2. q \in Slot /\ left[q] = Free
    BY <1>3, <1>5, FirstFreeOK
  <2>3. added = {<<v, q>>}
    BY <2>1 DEF NewEntries
  <2> HIDE DEF q
  <2>4. rows = With(left, {<<v, q>>})
    BY <2>3
  <2>5. /\ rows \in TableContents
        /\ \A s \in Slot \ {q} : rows[s] = left[s]
        /\ PairsOf(rows) = PairsOf(left) \cup {<<v, q>>}
        /\ {<<v, q>>} \cap PairsOf(left) = {}
        /\ Cardinality(LiveIn(rows)) = Cardinality(LiveIn(left)) + 1
    <3>1. left \in TableContents /\ v \in Key
      BY <1>3
    <3> QED BY ONLY <2>2, <2>4, <3>1, WithOne
  <2>6. added \in SUBSET Entry
    BY <2>2, <2>3 DEF Entry
  <2> QED BY <1>1, <1>2, <1>3, <1>5, <2>2, <2>3, <2>5, <2>6
<1> QED BY <1>4, <1>5

-----------------------------------------------------------------------------
(* The files in each step.                                                 *)

LEMMA NewValue ==
  ASSUME NEW f \in File, NEW x, FileOK(f, x), x.mem # Closed,
         NEW m \in Contents(f), NEW y, y = [x EXCEPT !.mem = m]
  PROVE  FileOK(f, y) /\ y.mem = m /\ Seen(f, y) = m /\ Made(y)
<1>1. y = [mem |-> m, file |-> x.file, log |-> x.log] /\ m # Closed
  BY Sentinels DEF FileOK, FileValue
<1>2. /\ x.log \in {Emptied} \cup LogRecord(Contents(f))
      /\ x.file \in Contents(f) \cup {Missing, Unreadable}
      /\ m # Closed /\ x.log # Emptied => x.log.has = x.file
      /\ m \in Contents(f) \cup {Closed}
  BY DEF FileOK, FileValue
<1>3. FileOK(f, y)
  BY ONLY <1>1, <1>2, f \in File, MakeFile
<1> QED BY <1>1, <1>3 DEF Seen, Made

LEMMA OpenFilesOK ==
  ASSUME StoreOK, NEW U \in SUBSET File, store' = OpenFiles(U)
  PROVE  /\ StoreOK' /\ \A f \in File : View(f)' = View(f)
         /\ \A f \in File :
              store'[f] = IF f \in U THEN Opened(f, store[f]) ELSE store[f]
<1>1. /\ store' = [f \in File |-> store'[f]]
      /\ \A f \in File :
           store'[f] = IF f \in U THEN Opened(f, store[f]) ELSE store[f]
  BY DEF OpenFiles
<1>2. ASSUME NEW f \in File
      PROVE  FileOK(f, store'[f]) /\ Seen(f, store'[f]) = Seen(f, store[f])
  BY <1>1, OpenedOK DEF StoreOK
<1> QED BY <1>1, <1>2 DEF StoreOK, View
LEMMA AddEntries ==
  ASSUME NEW A \in EntryBags, NEW N \in SUBSET Entry
  PROVE  A (+) SetToBag(N) \in EntryBags
<1> DEFINE B == A (+) SetToBag(N)
<1>1. DOMAIN SetToBag(N) = N /\ \A e \in N : SetToBag(N)[e] = 1
  BY DEF SetToBag
<1>2. /\ DOMAIN A \subseteq Entry
      /\ \A e \in DOMAIN A : A[e] \in Nat /\ A[e] > 0
  BY BagFields
<1>3. /\ B = [e \in DOMAIN A \cup N |-> B[e]] /\ DOMAIN B = DOMAIN A \cup N
      /\ \A e \in DOMAIN B : B[e] = (IF e \in DOMAIN A THEN A[e] ELSE 0)
                                  + (IF e \in N THEN 1 ELSE 0)
  BY <1>1 DEF (+)
<1>4. \A e \in DOMAIN B : B[e] \in Nat /\ B[e] > 0
  BY <1>2, <1>3
<1> QED BY <1>2, <1>3, <1>4, BagFields

(* An index after a row change.                                            *)
LEMMA ReindexedOK ==
  ASSUME NEW f \in File, f # Table, FileOK(f, store[f]),
         NEW gone \in SUBSET Entry, NEW added \in SUBSET Entry
  PROVE  /\ FileOK(f, Reindexed(f, gone, added)) /\ Made(Reindexed(f, gone, added))
         /\ Opens(f) =>
              /\ View(f) \in EntryBags /\ Reindexed(f, gone, added).mem # Closed
              /\ Seen(f, Reindexed(f, gone, added)) =
                   (View(f) (-) SetToBag(gone)) (+) SetToBag(added)
<1> DEFINE x == Opened(f, store[f])
           m == (x.mem (-) SetToBag(gone)) (+) SetToBag(added)
           y == [x EXCEPT !.mem = m]
<1>1. /\ FileOK(f, x) /\ Seen(f, x) = View(f) /\ Made(x)
      /\ Opens(f) <=> x.mem # Closed
  BY OpenedOK DEF View, Opens
<1>2. CASE x.mem = Closed
  BY <1>1, <1>2 DEF Reindexed
<1>3. CASE x.mem # Closed
  <2>1. x.mem \in EntryBags /\ View(f) = x.mem
    BY <1>1, <1>3, SeenType DEF Contents
  <2>2. m \in EntryBags
    BY <2>1, ReplaceEntries
  <2>3. m \in Contents(f) /\ m # Closed
    BY <2>2, Sentinels DEF Contents
  <2>4. Reindexed(f, gone, added) = y
    BY <1>3 DEF Reindexed
  <2> HIDE DEF m
  <2>5. FileOK(f, y) /\ y.mem = m /\ Seen(f, y) = m /\ Made(y)
    BY <1>1, <1>3, <2>3, NewValue
  <2> QED BY <2>1, <2>3, <2>4, <2>5 DEF m
<1> QED BY <1>2, <1>3
(* Every step but four leaves alone what readers see.                      *)
LEMMA Shapes ==
  ASSUME Typed, [Next]_vars
  PROVE  \/ ChangeRow \/ DiscardNext \/ BuildIndex \/ Kill \/ Close
         \/ store' = store
         \/ \E U \in SUBSET File : store' = OpenFiles(U)
         \/ \E f \in File : \E x \in {store[f], Opened(f, store[f])} :
              \E y \in Written(x) : store' = [store EXCEPT ![f] = y]
<1>1. CASE UNCHANGED vars
  BY <1>1 DEF vars
<1>2. CASE Statement
  <2>1. CASE CreateTable \/ DropTable \/ RowsDone \/ SetIndexStats
    BY <2>1 DEF CreateTable, DropTable, Drop, RowsDone, SetIndexStats
  <2>2. CASE \E i \in Index : CreateIndex(i) \/ DropIndex(i)
    BY <2>2 DEF CreateIndex, DropIndex, Drop
  <2>3. ASSUME NEW kind, NEW changes, Begin(kind, changes)
        PROVE  \E U \in SUBSET File : store' = OpenFiles(U)
    BY <2>3 DEF Begin, File
  <2>4. CASE \E v \in Values : Insert(<<v>>) \/ \E w \in Values : Insert(<<v, w>>)
    BY <2>3, <2>4 DEF Insert
  <2>5. CASE \E P \in Predicate : Delete(P) \/ \E v \in Values : Update(P, v)
    BY <2>3, <2>5 DEF Delete, Update
  <2>6. CASE \E used \in {{}} \cup {{i} : i \in Indexed} : Select(used)
    <3>1. Indexed \subseteq File
      BY DEF Typed, CatalogOK, CatalogFile, Indexed, File
    <3>2. PICK used \in {{}} \cup {{i} : i \in Indexed} : Select(used)
      BY <2>6
    <3>3. {Table} \cup used \in SUBSET File
      BY <3>1 DEF File
    <3> QED BY <3>2, <3>3 DEF Select
  <2>7. CASE CreateFile
    BY <2>7 DEF CreateFile, File
  <2>8. CASE FlushNext
    <3>1. Head(files) \in File
      BY <2>8, TodoSeq DEF FlushNext, Typed, StatementOK
    <3> QED BY <2>8, <3>1 DEF FlushNext
  <2> QED BY <1>2, <2>1, <2>2, <2>4, <2>5, <2>6, <2>7, <2>8 DEF Statement
<1>3. CASE \E f \in File : WriteBack(f)
  BY <1>3 DEF WriteBack
<1>4. CASE SaveDone \/ Open \/ OpenRaises
  BY <1>4 DEF SaveDone, Open, OpenRaises, vars
<1> QED BY <1>1, <1>2, <1>3, <1>4 DEF Next

LEMMA StoreStep ==
  ASSUME Typed, [Next]_vars
  PROVE  /\ StoreOK'
         /\ ~ChangeRow /\ ~DiscardNext /\ ~BuildIndex /\ ~Kill =>
              \A f \in File : View(f)' = View(f)
<1> DEFINE Same == \A f \in File : View(f)' = View(f)
<1>0. StoreOK /\ \A f \in File : FileOK(f, store[f])
  BY DEF Typed, StoreOK
<1>9. ASSUME NEW f \in File, NEW y, FileOK(f, y), store' = [store EXCEPT ![f] = y]
      PROVE  /\ StoreOK'
             /\ Seen(f, y) = Seen(f, store[f]) => Same
  <2>1. /\ store' = [g \in File |-> IF g = f THEN y ELSE store[g]]
        /\ store' = [g \in File |-> store'[g]]
    BY <1>0, <1>9 DEF StoreOK
  <2> QED BY <1>0, <1>9, <2>1 DEF StoreOK, View
<1>1. CASE store' = store
  BY <1>0, <1>1 DEF StoreOK, View
<1>2. CASE \E U \in SUBSET File : store' = OpenFiles(U)
  BY <1>0, <1>2, OpenFilesOK
<1>3. CASE \E f \in File : \E x \in {store[f], Opened(f, store[f])} :
             \E y \in Written(x) : store' = [store EXCEPT ![f] = y]
  <2>1. PICK f \in File : \E x \in {store[f], Opened(f, store[f])} :
               \E y \in Written(x) : store' = [store EXCEPT ![f] = y]
    BY <1>3
  <2>2. PICK x \in {store[f], Opened(f, store[f])} :
               \E y \in Written(x) : store' = [store EXCEPT ![f] = y]
    BY <2>1
  <2>3. PICK y \in Written(x) : store' = [store EXCEPT ![f] = y]
    BY <2>2
  <2>4. FileOK(f, x) /\ Seen(f, x) = Seen(f, store[f])
    BY <1>0, <2>2, OpenedOK
  <2>5. FileOK(f, y) /\ Seen(f, y) = Seen(f, store[f])
    BY <2>4, WrittenOK
  <2> QED BY <1>9, <2>3, <2>5
<1>4. CASE Close
  <2>1. /\ store' = [f \in File |-> store'[f]]
        /\ \A f \in File : store'[f] =
             IF store[f].mem = Closed THEN store[f]
             ELSE [mem |-> Closed, file |-> store[f].mem, log |-> Emptied]
    BY <1>4 DEF Close
  <2>2. ASSUME NEW f \in File
        PROVE  FileOK(f, store'[f]) /\ Seen(f, store'[f]) = Seen(f, store[f])
    BY <1>0, <2>1, ClosedOK
  <2> QED BY <2>1, <2>2 DEF StoreOK, View
<1>5. CASE Kill
  <2>1. /\ store' = [f \in File |-> store'[f]]
        /\ \A f \in File : store'[f] = [store[f] EXCEPT !.mem = Closed]
    BY <1>5 DEF Kill
  <2>2. ASSUME NEW f \in File PROVE FileOK(f, store'[f])
    BY <1>0, <2>1, KilledOK
  <2> QED BY <1>5, <2>1, <2>2 DEF StoreOK
<1>6. CASE DiscardNext
  <2>1. Head(files) \in File
    BY <1>6, TodoSeq DEF DiscardNext, Typed, StatementOK
  <2>2. FileOK(Head(files), Discarded(store[Head(files)]))
    BY <1>0, <2>1, DiscardedOK
  <2>3. store' = [store EXCEPT ![Head(files)] = Discarded(store[Head(files)])]
    BY <1>6 DEF DiscardNext
  <2> QED BY <1>6, <1>9, <2>1, <2>2, <2>3
<1>7. CASE BuildIndex
  <2>1. PICK i \in Indexed : files = <<i>>
    BY <1>7 DEF BuildIndex, Typed, BuildOK
  <2>2. i \in File /\ i # Table /\ Head(files) = i
    BY <2>1, DatabaseAssumption DEF Typed, CatalogOK, CatalogFile, Indexed, File
  <2> DEFINE x == Opened(i, store[i])
             S == {<<Rows[s], s>> : s \in Live}
             open == OpenFiles({Table})
  <2>3. FileOK(i, x)
    BY <1>0, <2>2, OpenedOK
  <2>4. /\ open = [f \in File |-> open[f]]
        /\ \A f \in File : FileOK(f, open[f])
    BY <1>0, OpenedOK DEF OpenFiles
  <2>5. CASE store' = [open EXCEPT ![i] = x]
    <3> HIDE DEF x, open
    <3>1. store' = [f \in File |-> IF f = i THEN x ELSE open[f]]
      BY <2>4, <2>5
    <3> QED BY <1>7, <2>3, <2>4, <3>1 DEF StoreOK
  <2>6. CASE /\ x.mem # Closed
             /\ store' = [open EXCEPT ![i] = [x EXCEPT !.mem = @ (+) SetToBag(S)]]
    <3> DEFINE m == x.mem (+) SetToBag(S)
               y == [x EXCEPT !.mem = m]
    <3>1. S = PairsOf(Rows) /\ S \in SUBSET Entry
      BY TableRows, LiveRows DEF PairsOf
    <3>2. x.mem \in EntryBags
      BY <2>2, <2>3, <2>6, FileFields DEF Contents
    <3>3. m \in EntryBags
      BY <3>1, <3>2, AddEntries
    <3>4. m \in Contents(i)
      BY <2>2, <3>3 DEF Contents
    <3> HIDE DEF m
    <3>5. FileOK(i, y)
      BY <2>2, <2>3, <2>6, <3>4, NewValue
    <3>6. store' = [open EXCEPT ![i] = y]
      BY <2>6 DEF m
    <3> HIDE DEF y, open
    <3>7. store' = [f \in File |-> IF f = i THEN y ELSE open[f]]
      BY <2>4, <3>6
    <3> QED BY <1>7, <2>4, <3>5, <3>7 DEF StoreOK
  <2> QED BY <1>7, <2>2, <2>5, <2>6 DEF BuildIndex
<1>8. CASE ChangeRow
  <2> DEFINE change == Head(todo)
             left == Without(store[Table].mem, change.gone)
             added == NewEntries(change, left)
             rows == With(left, added)
  <2>1. pc = "rows" /\ todo # << >>
    BY <1>8 DEF ChangeRow
  <2>5. PICK lost : RowChanged(lost)
    BY <1>8 DEF ChangeRow
  <2>2. Table \in File /\ store[Table].mem # Closed
    BY <2>1 DEF File, Typed, StatementOK
  <2>3. CASE Bad \in change.new
    <3>1. store' = [store EXCEPT ![Table].mem = left]
      BY <2>3, <2>5 DEF RowChanged
    <3>2. left \in Contents(Table)
      BY <2>1, HeadChange DEF Contents
    <3> DEFINE y == [store[Table] EXCEPT !.mem = left]
    <3>3. FileOK(Table, y)
      <4> HIDE DEF left
      <4> QED BY <1>0, <2>2, <3>2, NewValue
    <3>4. store' = [store EXCEPT ![Table] = y]
      BY <3>1
    <3> HIDE DEF y
    <3> QED BY <1>8, <1>9, <2>2, <3>3, <3>4
  <2>4. CASE Bad \notin change.new
    <3>1. store' = [f \in File |->
                     IF f = Table THEN [store[f] EXCEPT !.mem = rows]
                     ELSE IF Reached(f)
                       THEN Reindexed(f, Found(f, change.gone, lost), added)
                     ELSE store[f]]
      BY <2>4, <2>5 DEF RowChanged
    <3>2. /\ rows \in TableContents
          /\ change.gone \in SUBSET Entry /\ added \in SUBSET Entry
      <4>1. /\ change = Head(todo)
            /\ left = Without(store[Table].mem, change.gone)
            /\ added = NewEntries(change, left)
            /\ rows = With(left, added)
        OBVIOUS
      <4> HIDE DEF change, left, added, rows
      <4> QED BY ONLY <2>1, <2>4, <4>1, Typed, NewRows
    <3> HIDE DEF rows, added, change
    <3>3. FileOK(Table, [store[Table] EXCEPT !.mem = rows])
      BY <1>0, <2>2, <3>2, NewValue DEF Contents
    <3>4. ASSUME NEW f \in File, f # Table
          PROVE  FileOK(f, Reindexed(f, Found(f, change.gone, lost), added))
      <4>1. Found(f, change.gone, lost) \in SUBSET Entry
        BY <3>2 DEF Found
      <4> QED BY <1>0, <3>2, <3>4, <4>1, ReindexedOK
    <3>5. /\ store' = [f \in File |-> store'[f]]
          /\ \A f \in File : FileOK(f, store'[f])
      BY <1>0, <3>1, <3>3, <3>4
    <3> QED BY <1>8, <3>5 DEF StoreOK
  <2> QED BY <2>3, <2>4
<1> QED BY <1>1, <1>2, <1>3, <1>4, <1>5, <1>6, <1>7, <1>8, Shapes
LEMMA NewTable ==
  ASSUME Typed, ChangeRow, Bad \notin Head(todo).new
  PROVE  LET left == Without(store[Table].mem, Head(todo).gone)
         IN  With(left, NewEntries(Head(todo), left))
               \in TableContents
<1> DEFINE change == Head(todo)
           left == Without(store[Table].mem, change.gone)
           added == NewEntries(change, left)
           rows == With(left, added)
<1>1. pc = "rows" /\ todo # << >> /\ Bad \notin change.new
  BY DEF ChangeRow
<1>2. /\ change = Head(todo)
      /\ left = Without(store[Table].mem, change.gone)
      /\ added = NewEntries(change, left)
      /\ rows = With(left, added)
  OBVIOUS
<1>3. rows \in TableContents
  <2> HIDE DEF change, left, added, rows
  <2> QED BY ONLY <1>1, <1>2, Typed, NewRows
<1> QED BY <1>3

(* What a row change does in the indexes.                                  *)
Follow(lost, change, added) ==
  /\ \A f \in File \ {Table} :
       store'[f] = IF Reached(f)
                     THEN Reindexed(f, Found(f, change.gone, lost), added)
                   ELSE store[f]
  /\ missed' = [i \in Index |->
                  IF i \in lost THEN missed[i] (+) SetToBag(change.gone)
                  ELSE missed[i]]

(* What a row change does, if no index fails.                              *)
LEMMA ChangeRowEffect ==
  ASSUME Typed, ChangeRow,
         NEW change, change = Head(todo),
         NEW left, left = Without(store[Table].mem, change.gone),
         NEW added, added = NewEntries(change, left),
         NEW rows, rows = With(left, added)
  PROVE  /\ Bad \in change.new =>
              /\ Rows' = left /\ Raise(left # statement.before)
              /\ \A f \in File \ {Table} : store'[f] = store[f]
              /\ UNCHANGED missed
         /\ Bad \notin change.new =>
              /\ Rows' = rows /\ store'[Table].mem = rows
              /\ IF \A f \in Indexed : Opens(f)
                   THEN todo' = Tail(todo) /\ UNCHANGED <<pc, files, statement, harm>>
                   ELSE Raise(rows # statement.before)
<1>1. pc = "rows" /\ todo # << >>
  BY DEF ChangeRow
<1>7. Bad \notin change.new => rows \in TableContents
  <2>1. ASSUME Bad \notin change.new PROVE rows \in TableContents
    BY ONLY <1>1, <2>1, Typed, NewRows, change = Head(todo),
         left = Without(store[Table].mem, change.gone),
         added = NewEntries(change, left),
         rows = With(left, added)
  <2> QED BY <2>1
<1>6. PICK lost \in SUBSET MayMiss(change) : RowChanged(lost)
  BY DEF ChangeRow
<1>2. Table \in File /\ FileOK(Table, store[Table]) /\ store[Table].mem # Closed
  BY <1>1 DEF Typed, StoreOK, StatementOK, File
<1>3. store = [f \in File |-> store[f]]
  BY DEF Typed, StoreOK
<1>4. CASE Bad \in change.new
  <2>1. /\ store' = [store EXCEPT ![Table].mem = left]
        /\ Raise(left # statement.before) /\ UNCHANGED missed
    BY <1>4, <1>6 DEF RowChanged
  <2>2. left \in Contents(Table)
    BY <1>1, HeadChange DEF Contents
  <2>3. /\ store'[Table] = [store[Table] EXCEPT !.mem = left]
        /\ \A f \in File \ {Table} : store'[f] = store[f]
    BY <1>2, <1>3, <2>1
  <2>4. Seen(Table, store'[Table]) = left
    BY <1>2, <2>2, <2>3, NewValue
  <2> QED BY <1>4, <2>1, <2>3, <2>4 DEF Rows, View
<1>5. CASE Bad \notin change.new
  <2>1. /\ store' = [f \in File |->
                     IF f = Table THEN [store[f] EXCEPT !.mem = rows]
                     ELSE IF Reached(f)
                       THEN Reindexed(f, Found(f, change.gone, lost), added)
                     ELSE store[f]]
        /\ missed' = [i \in Index |->
                     IF i \in lost THEN missed[i] (+) SetToBag(change.gone)
                     ELSE missed[i]]
        /\ IF \A f \in Indexed : Opens(f)
             THEN todo' = Tail(todo) /\ UNCHANGED <<pc, files, statement, harm>>
             ELSE Raise(rows # statement.before)
    BY <1>5, <1>6 DEF RowChanged
  <2>2. rows \in TableContents
    BY <1>5, <1>7
  <2>3. /\ store'[Table] = [store[Table] EXCEPT !.mem = rows]
        /\ \A f \in File \ {Table} :
             store'[f] = IF Reached(f)
                           THEN Reindexed(f, Found(f, change.gone, lost), added)
                         ELSE store[f]
    BY <1>2, <2>1
  <2>4. Seen(Table, store'[Table]) = rows /\ store'[Table].mem = rows
    BY <1>2, <2>2, <2>3, NewValue DEF Contents
  <2> QED BY <1>5, <2>1, <2>3, <2>4 DEF Rows, View
<1> QED BY <1>4, <1>5

(* What it does in the indexes, when the new row can be packed.            *)
LEMMA ChangeRowFollows ==
  ASSUME Typed, ChangeRow,
         NEW change, change = Head(todo),
         NEW left, left = Without(store[Table].mem, change.gone),
         NEW added, added = NewEntries(change, left),
         NEW rows, rows = With(left, added),
         Bad \notin change.new
  PROVE  \E lost \in SUBSET MayMiss(change) : Follow(lost, change, added)
<1>1. PICK lost \in SUBSET MayMiss(change) : RowChanged(lost)
  BY DEF ChangeRow
<1>2. Bad \notin change.new
  OBVIOUS
<1>3. /\ store' = [f \in File |->
                  IF f = Table THEN [store[f] EXCEPT !.mem = rows]
                  ELSE IF Reached(f)
                    THEN Reindexed(f, Found(f, change.gone, lost), added)
                  ELSE store[f]]
      /\ missed' = [i \in Index |->
                  IF i \in lost THEN missed[i] (+) SetToBag(change.gone)
                  ELSE missed[i]]
      /\ IF \A f \in Indexed : Opens(f)
           THEN todo' = Tail(todo) /\ UNCHANGED <<pc, files, statement, harm>>
           ELSE Raise(rows # statement.before)
  BY <1>1, <1>2 DEF RowChanged
<1>4. Follow(lost, change, added)
  BY <1>3 DEF Follow
<1> QED BY <1>4

-----------------------------------------------------------------------------
(* The catalog.                                                            *)

NoDup(s) == \A m, n \in 1 .. Len(s) : s[m] = s[n] => m = n
Elems(s) == {s[n] : n \in 1 .. Len(s)}

LEMMA CutOut ==
  ASSUME NEW S, NEW s \in Seq(S), NEW n \in 1 .. Len(s)
  PROVE  LET t == SubSeq(s, 1, n - 1) \o SubSeq(s, n + 1, Len(s))
         IN  /\ t \in Seq(S) /\ Len(t) = Len(s) - 1
             /\ \A k \in 1 .. Len(s) - 1 : t[k] = IF k < n THEN s[k] ELSE s[k + 1]
<1> DEFINE a == SubSeq(s, 1, n - 1)
           b == SubSeq(s, n + 1, Len(s))
           t == a \o b
<1>1. Len(s) \in Nat /\ n \in Nat /\ n >= 1 /\ n <= Len(s)
  OBVIOUS
<1>2. /\ a \in Seq(S) /\ Len(a) = n - 1
      /\ \A k \in 1 .. n - 1 : a[k] = s[k]
  BY <1>1
<1>3. /\ b \in Seq(S) /\ Len(b) = Len(s) - n
      /\ \A k \in 1 .. Len(s) - n : b[k] = s[k + n]
  BY <1>1
<1> HIDE DEF a, b
<1>4. /\ t \in Seq(S) /\ Len(t) = Len(a) + Len(b)
      /\ \A k \in 1 .. Len(a) + Len(b) :
           t[k] = IF k <= Len(a) THEN a[k] ELSE b[k - Len(a)]
  BY ONLY <1>2, <1>3, ConcatProperties
<1> HIDE DEF t
<1>5. ASSUME NEW k \in 1 .. Len(s) - 1
      PROVE  t[k] = IF k < n THEN s[k] ELSE s[k + 1]
  <2>0. k \in 1 .. Len(s) - 1
    OBVIOUS
  <2>3. Len(a) + Len(b) = Len(s) - 1 /\ k \in 1 .. Len(a) + Len(b)
    BY ONLY <1>1, <1>2, <1>3, <2>0
  <2>4. t[k] = IF k <= Len(a) THEN a[k] ELSE b[k - Len(a)]
    BY ONLY <1>4, <2>3
  <2>5. t[k] = IF k <= n - 1 THEN a[k] ELSE b[k - (n - 1)]
    BY ONLY <1>2, <2>4
  <2>1. CASE k < n
    <3>1. k <= n - 1 /\ k \in 1 .. n - 1
      BY ONLY <1>1, <2>0, <2>1
    <3> QED BY ONLY <1>2, <2>1, <2>5, <3>1
  <2>2. CASE k >= n
    <3>1. k - (n - 1) \in 1 .. Len(s) - n /\ k - (n - 1) + n = k + 1
      BY ONLY <1>1, <2>0, <2>2
    <3>2. ~(k <= n - 1)
      BY ONLY <1>1, <2>0, <2>2
    <3>3. t[k] = b[k - (n - 1)]
      BY ONLY <2>5, <3>2
    <3> QED BY ONLY <1>1, <1>3, <2>0, <2>2, <3>1, <3>3
  <2> QED BY ONLY <1>1, <2>0, <2>1, <2>2
<1>6. t \in Seq(S) /\ Len(t) = Len(s) - 1
  BY ONLY <1>1, <1>2, <1>3, <1>4
<1> QED BY <1>5, <1>6 DEF t, a, b

LEMMA RemoveOne ==
  ASSUME NEW S, NEW s \in Seq(S), NoDup(s), NEW n \in 1 .. Len(s),
         NEW t \in Seq(S), Len(t) = Len(s) - 1,
         \A k \in 1 .. Len(s) - 1 : t[k] = IF k < n THEN s[k] ELSE s[k + 1]
  PROVE  NoDup(t) /\ Elems(t) = Elems(s) \ {s[n]}
<1>1. Len(s) \in Nat /\ n \in Nat /\ n >= 1 /\ n <= Len(s)
  OBVIOUS
<1>2. NoDup(t)
  BY <1>1 DEF NoDup
<1>3. ASSUME NEW k \in 1 .. Len(t) PROVE t[k] \in Elems(s) \ {s[n]}
  BY <1>1 DEF NoDup, Elems
<1>4. ASSUME NEW k \in 1 .. Len(s), k # n PROVE s[k] \in Elems(t)
  <2>1. CASE k < n
    BY <1>1, <2>1 DEF Elems
  <2>2. CASE k > n
    <3>1. k - 1 \in 1 .. Len(t) /\ t[k - 1] = s[k]
      BY <1>1, <2>2
    <3> QED BY <3>1 DEF Elems
  <2> QED BY <1>4, <2>1, <2>2
<1>5. Elems(s) \ {s[n]} \subseteq Elems(t)
  BY <1>4 DEF Elems
<1>6. Elems(t) \subseteq Elems(s) \ {s[n]}
  BY <1>3 DEF Elems
<1> QED BY <1>2, <1>5, <1>6

LEMMA AppendOne ==
  ASSUME NEW S, NEW s \in Seq(S), NoDup(s), NEW x \in S, x \notin Elems(s)
  PROVE  /\ Append(s, x) \in Seq(S) /\ NoDup(Append(s, x))
         /\ Elems(Append(s, x)) = Elems(s) \cup {x}
<1>1. /\ Len(Append(s, x)) = Len(s) + 1 /\ Len(s) \in Nat
      /\ \A n \in 1 .. Len(s) : Append(s, x)[n] = s[n]
      /\ Append(s, x)[Len(s) + 1] = x /\ Append(s, x) \in Seq(S)
  OBVIOUS
<1>2. 1 .. Len(s) + 1 = (1 .. Len(s)) \cup {Len(s) + 1}
  BY <1>1
<1> QED BY <1>1, <1>2 DEF NoDup, Elems

LEMMA CatalogFields ==
  ASSUME CatalogOK
  PROVE  /\ catalog = [exists |-> catalog.exists, count |-> catalog.count,
                       index |-> catalog.index]
         /\ catalog.exists \in BOOLEAN
         /\ catalog.count \in 0 .. MaxCount /\ catalog.count \in Nat
         /\ catalog.index \in Seq(Index) /\ NoDup(catalog.index)
         /\ Indexed = Elems(catalog.index) /\ Indexed \subseteq Index
         /\ Indexed \subseteq File \ {Table}
         /\ ~catalog.exists => Indexed = {}
<1>1. /\ catalog = [exists |-> catalog.exists, count |-> catalog.count,
                    index |-> catalog.index]
      /\ catalog.exists \in BOOLEAN
      /\ catalog.count \in 0 .. MaxCount
      /\ catalog.index \in Seq(Index) /\ NoDup(catalog.index)
  BY DEF CatalogOK, CatalogFile, NoDup
<1>2. Indexed = Elems(catalog.index) /\ Indexed \subseteq Index
  BY <1>1 DEF Indexed, Elems
<1>3. Indexed \subseteq File \ {Table}
  BY <1>2, DatabaseAssumption DEF File
<1>4. ~catalog.exists => Indexed = {}
  BY <1>2 DEF CatalogOK, NoTable, Elems
<1> QED BY <1>1, <1>2, <1>3, <1>4

LEMMA MakeCatalog ==
  ASSUME NEW c, NEW e \in BOOLEAN, NEW n \in 0 .. MaxCount,
         NEW s \in Seq(Index), NoDup(s), e \/ c = NoTable,
         c = [exists |-> e, count |-> n, index |-> s],
         catalog' = c, saved' \in {c, Torn}
  PROVE  CatalogOK' /\ Indexed' = Elems(s)
<1>1. c \in CatalogFile /\ c.index = s /\ c.exists = e
  BY DEF CatalogFile
<1> QED BY <1>1 DEF CatalogOK, Indexed, Elems, NoDup
LEMMA CatalogStep ==
  ASSUME Typed, [Next]_vars
  PROVE  CatalogOK'
<1>1. CatalogOK
  BY DEF Typed
<1>2. /\ catalog = [exists |-> catalog.exists, count |-> catalog.count,
                    index |-> catalog.index]
      /\ catalog.exists \in BOOLEAN
      /\ catalog.count \in 0 .. MaxCount /\ catalog.count \in Nat
      /\ catalog.index \in Seq(Index) /\ NoDup(catalog.index)
      /\ Indexed = Elems(catalog.index) /\ MaxCount \in Nat
      /\ ~catalog.exists => Indexed = {}
  BY <1>1, CatalogFields, DatabaseAssumption
<1>3. /\ NoTable = [exists |-> FALSE, count |-> 0, index |-> << >>]
      /\ << >> \in Seq(Index) /\ NoDup(<< >>) /\ 0 \in 0 .. MaxCount
  BY <1>2 DEF NoTable, NoDup
<1>4. CASE catalog' = catalog /\ saved' \in {catalog, Torn}
  BY <1>1, <1>4 DEF CatalogOK, NoDup
<1>5. CASE UNCHANGED <<catalog, saved>>
  BY <1>1, <1>5 DEF CatalogOK, NoDup
<1>6. CASE CreateTable
  <2> DEFINE c == [exists |-> TRUE, count |-> 0, index |-> << >>]
  <2>1. catalog' = c /\ saved' = Torn
    BY <1>6 DEF CreateTable, Save, NoTable
  <2> QED BY ONLY <1>3, <2>1, MakeCatalog
<1>7. CASE DropTable
  <2>1. catalog' = NoTable /\ saved' = Torn
    BY <1>7 DEF DropTable, Drop, Save
  <2> QED BY ONLY <1>3, <2>1, MakeCatalog
<1>8. CASE \E i \in Index : DropIndex(i)
  <2>1. PICK i \in Index, n \in 1 .. Len(catalog.index) :
               /\ catalog.index[n] = i
               /\ Drop(<<i>>, [catalog EXCEPT
                     !.index = SubSeq(@, 1, n - 1) \o SubSeq(@, n + 1, Len(@))])
    BY <1>8 DEF DropIndex
  <2> DEFINE s == catalog.index
             t == SubSeq(s, 1, n - 1) \o SubSeq(s, n + 1, Len(s))
  <2>2. t \in Seq(Index) /\ NoDup(t)
    <3>1. /\ t \in Seq(Index) /\ Len(t) = Len(s) - 1
          /\ \A k \in 1 .. Len(s) - 1 : t[k] = IF k < n THEN s[k] ELSE s[k + 1]
      BY <1>2, CutOut
    <3> HIDE DEF t
    <3> QED BY <1>2, <3>1, RemoveOne
  <2>3. catalog' = [catalog EXCEPT !.index = t] /\ saved' = Torn /\ catalog.exists
    BY <2>1 DEF Drop, Save
  <2> HIDE DEF t
  <2>4. catalog' = [exists |-> TRUE, count |-> catalog.count, index |-> t]
    BY <1>2, <2>3
  <2> QED BY <1>2, <2>2, <2>3, <2>4, MakeCatalog
<1>9. CASE \E i \in Index : CreateIndex(i)
  <2>1. PICK i \in Index : CreateIndex(i)
    BY <1>9
  <2> DEFINE t == Append(catalog.index, i)
  <2>2. t \in Seq(Index) /\ NoDup(t)
    BY <1>2, <2>1, AppendOne DEF CreateIndex
  <2>3. /\ catalog' = [catalog EXCEPT !.index = t] /\ saved' = Torn
        /\ catalog.exists
    BY <2>1 DEF CreateIndex, Usable, Save
  <2> HIDE DEF t
  <2>4. catalog' = [exists |-> TRUE, count |-> catalog.count, index |-> t]
    BY <1>2, <2>3
  <2> QED BY <1>2, <2>2, <2>3, <2>4, MakeCatalog
<1>10. CASE RowsDone
  <2>1. pc = "rows" /\ catalog.exists /\ RowsOK
    BY <1>10 DEF RowsDone, Typed, StatementOK
  <2>2. CASE statement.kind = "update"
    BY <1>5, <1>10, <2>2 DEF RowsDone, SameCatalog
  <2>3. CASE statement.kind # "update"
    <3>1. catalog' = [catalog EXCEPT !.count = Counted] /\ saved' = Torn
      BY <1>10, <2>3 DEF RowsDone, Save
    <3>2. Counted \in 0 .. MaxCount
      <4>1. statement.rows \in Nat
        BY DEF Typed, StatementOK
      <4>2. CASE statement.kind = "insert"
        <5>1. catalog.count + statement.rows <= MaxCount
          BY <2>1, <4>2 DEF RowsOK, InsertLeft
        <5>2. Counted = catalog.count + statement.rows
          BY <4>2 DEF Counted
        <5> QED BY <1>2, <4>1, <5>1, <5>2
      <4>3. CASE statement.kind = "delete"
        <5>1. Counted = AtLeast0(catalog.count - statement.rows)
          BY <4>3 DEF Counted
        <5> QED BY <1>2, <4>1, <5>1 DEF AtLeast0
      <4> QED BY <2>1, <2>3, <4>2, <4>3 DEF RowsOK
    <3> DEFINE n == Counted
    <3> HIDE DEF n
    <3>3. catalog' = [exists |-> TRUE, count |-> n, index |-> catalog.index]
      BY <1>2, <2>1, <3>1 DEF n
    <3>4. n \in 0 .. MaxCount
      BY <3>2 DEF n
    <3> QED BY <1>2, <3>1, <3>3, <3>4, MakeCatalog
  <2> QED BY <2>2, <2>3
<1>11. CASE SetIndexStats
  BY <1>4, <1>11 DEF SetIndexStats, Save
<1>12. CASE SaveDone
  BY <1>4, <1>12 DEF SaveDone
<1>13. CASE Open
  BY <1>1, <1>5, <1>13 DEF Open, CatalogOK
<1>14. CASE OpenRaises \/ Kill \/ Close \/ FlushNext \/ ChangeRow \/ CreateFile
            \/ DiscardNext \/ BuildIndex \/ UNCHANGED vars
  BY <1>5, <1>14 DEF OpenRaises, Kill, Close, FlushNext, ChangeRow, CreateFile,
       DiscardNext, BuildIndex, SameCatalog, vars
<1>15. CASE \E f \in File : WriteBack(f)
  BY <1>5, <1>15 DEF WriteBack, SameCatalog
<1>16. CASE \E used \in {{}} \cup {{i} : i \in Indexed} : Select(used)
  BY <1>5, <1>16 DEF Select, SameCatalog
<1>17. ASSUME NEW kind, NEW changes, Begin(kind, changes) PROVE CatalogOK'
  BY <1>5, <1>17 DEF Begin, SameCatalog
<1>18. CASE \E v \in Values : Insert(<<v>>) \/ \E w \in Values : Insert(<<v, w>>)
  BY <1>17, <1>18 DEF Insert
<1>19. CASE \E P \in Predicate : Delete(P) \/ \E v \in Values : Update(P, v)
  BY <1>17, <1>19 DEF Delete, Update
<1> QED BY <1>6, <1>7, <1>8, <1>9, <1>10, <1>11, <1>12, <1>13, <1>14, <1>15, <1>16,
           <1>18, <1>19 DEF Next, Statement
LEMMA OrderLength ==
  ASSUME NEW S \in SUBSET Slot, NEW order \in InSlotOrder(S), NEW new
  PROVE  /\ order \in Seq(S) /\ Len(order) = Cardinality(S) /\ Len(order) \in Nat
         /\ Change(order, new) \in Seq({[gone |-> {<<Rows[s], s>>}, new |-> new] : s \in S})
         /\ Len(Change(order, new)) = Len(order)
<1>1. Cardinality(S) \in Nat
  BY SlotSets
<1>2. order \in Seq(S) /\ Len(order) = Cardinality(S)
  BY <1>1 DEF InSlotOrder
<1> QED BY <1>1, <1>2 DEF Change
-----------------------------------------------------------------------------
(* The statement that runs.                                                *)

LEMMA EndOK ==
  ASSUME Typed, End, harm' \subseteq {"failed", "cut", "leftover"}
  PROVE  StatementOK' /\ pc' = "idle"
<1>1. << >> \in Seq(File)
  OBVIOUS
<1>2. NoStatement \in [kind : {"none", "index", "insert", "update", "delete"},
                       rows : Nat, before : TableContents]
  BY DEF NoStatement, NoRows, TableContents
<1> QED BY <1>1, <1>2 DEF End, StatementOK

LEMMA StatementFields ==
  ASSUME Typed
  PROVE  /\ harm \subseteq {"failed", "cut", "leftover"}
         /\ files \in Seq(File)
         /\ pc \in {"flush", "discard", "build"} =>
              /\ files # << >> /\ Head(files) \in File /\ Head(files) \in ListedFiles
              /\ Tail(files) \in Seq(File) /\ Elems(Tail(files)) \subseteq ListedFiles
              /\ \A f \in ListedFiles : f = Head(files) \/ f \in Elems(Tail(files))
              /\ Len(files) \in Nat /\ Len(files) >= 1
              /\ Len(files) # 1 => Tail(files) # << >>
              /\ Len(files) = 1 => ListedFiles = {Head(files)}
         /\ ListedFiles = Elems(files)
<1>1. files \in Seq(File) /\ ListedFiles = Elems(files)
  BY DEF Typed, StatementOK, ListedFiles, Elems
<1>2. ASSUME files # << >>
      PROVE  /\ Head(files) \in File /\ Head(files) \in ListedFiles
             /\ Tail(files) \in Seq(File) /\ Elems(Tail(files)) \subseteq ListedFiles
             /\ \A f \in ListedFiles : f = Head(files) \/ f \in Elems(Tail(files))
             /\ Len(files) \in Nat /\ Len(files) >= 1
             /\ Len(files) # 1 => Tail(files) # << >>
             /\ Len(files) = 1 => ListedFiles = {Head(files)}
  <2>1. /\ Len(files) \in Nat /\ Len(files) >= 1 /\ Head(files) = files[1]
        /\ Head(files) \in File
        /\ Tail(files) \in Seq(File) /\ Len(Tail(files)) = Len(files) - 1
        /\ \A n \in 1 .. Len(files) - 1 : Tail(files)[n] = files[n + 1]
    BY <1>1, <1>2, TodoSeq
  <2>2. Head(files) \in ListedFiles /\ Elems(Tail(files)) \subseteq ListedFiles
    BY <2>1 DEF ListedFiles, Elems
  <2>3. ASSUME NEW f \in ListedFiles, f # Head(files) PROVE f \in Elems(Tail(files))
    <3>1. PICK n \in 1 .. Len(files) : files[n] = f
      BY DEF ListedFiles
    <3>2. n - 1 \in 1 .. Len(Tail(files)) /\ Tail(files)[n - 1] = f
      BY <2>1, <2>3, <3>1
    <3> QED BY <3>2 DEF Elems
  <2>4. Len(files) = 1 => ListedFiles = {Head(files)}
    BY <2>1 DEF ListedFiles
  <2>5. Len(files) # 1 => Tail(files) # << >>
    BY <1>1, <1>2, TodoSeq
  <2> QED BY <2>1, <2>2, <2>3, <2>4, <2>5
<1> QED BY <1>1, <1>2 DEF Typed, StatementOK

(* A step that may open and write files only.                              *)
LEMMA SameStatement ==
  ASSUME Typed, UNCHANGED <<catalog, pc, files, statement, harm>>,
         store[Table].mem # Closed => store'[Table].mem # Closed
  PROVE  StatementOK'
BY DEF Typed, StatementOK, ListedFiles, Indexed

LEMMA WriteBackMem ==
  ASSUME Typed, NEW g \in File, WriteBack(g), NEW f \in File
  PROVE  store'[f].mem = store[f].mem
<1>1. PICK y \in Written(store[g]) : store' = [store EXCEPT ![g] = y]
  BY DEF WriteBack
<1>2. y.mem = store[g].mem
  BY WrittenOK DEF Typed, StoreOK
<1>3. store = [h \in File |-> store[h]]
  BY DEF Typed, StoreOK
<1> QED BY <1>1, <1>2, <1>3

LEMMA FlushMem ==
  ASSUME Typed, FlushNext, NEW f \in File
  PROVE  /\ f # Head(files) => store'[f] = store[f]
         /\ f = Head(files) => /\ store'[f] \in Written(Opened(f, store[f]))
                               /\ store'[f].mem = Opened(f, store[f]).mem
                               /\ IsClean(store'[f]) /\ Made(store'[f])
         /\ store[f].mem # Closed => store'[f].mem = store[f].mem
<1>1. Head(files) \in File /\ pc = "flush"
  BY StatementFields DEF FlushNext
<1> DEFINE g == Head(files)
           x == Opened(g, store[g])
<1>2. PICK y \in Written(x) : store' = [store EXCEPT ![g] = y]
  BY DEF FlushNext
<1>3. /\ FileOK(g, x) /\ (store[g].mem # Closed => x = store[g]) /\ Made(x)
  BY <1>1, OpenedOK DEF Typed, StoreOK
<1>4. y.mem = x.mem /\ IsClean(y) /\ Made(y)
  BY <1>1, <1>3, WrittenOK
<1>5. store = [h \in File |-> store[h]]
  BY DEF Typed, StoreOK
<1> HIDE DEF x
<1>6. /\ store'[g] = y /\ \A h \in File \ {g} : store'[h] = store[h]
  BY <1>1, <1>2, <1>5
<1> QED BY <1>2, <1>3, <1>4, <1>6 DEF x

LEMMA StatementStep ==
  ASSUME Typed, [Next]_vars
  PROVE  StatementOK'
<1>1. /\ StatementOK /\ StoreOK /\ CatalogOK /\ Table \in File
      /\ harm \subseteq {"failed", "cut", "leftover"}
      /\ files \in Seq(File)
  BY DEF Typed, File, StatementOK
<1>2. /\ Indexed = Elems(catalog.index) /\ Indexed \subseteq File
      /\ catalog.index \in Seq(Index)
  BY <1>1, CatalogFields
<1>3. CASE UNCHANGED vars \/ SaveDone \/ OpenRaises
  BY <1>3, SameStatement DEF vars, SaveDone, OpenRaises
<1>4. CASE \E f \in File : WriteBack(f)
  BY <1>1, <1>4, WriteBackMem, SameStatement DEF WriteBack, SameCatalog
<1>5. CASE \E used \in {{}} \cup {{i} : i \in Indexed} : Select(used)
  BY <1>1, <1>5 DEF Select, Usable, SameCatalog, StatementOK
<1>6. CASE Open \/ Close
  BY <1>1, <1>6 DEF Open, Close, SameCatalog, StatementOK
<1>7. CASE Kill
  <2>1. /\ pc' = "down" /\ files' = << >> /\ << >> \in Seq(File)
        /\ statement' = NoStatement
        /\ harm' \subseteq {"failed", "cut", "leftover"}
    BY <1>1, <1>7 DEF Kill
  <2> QED BY <2>1 DEF StatementOK, NoStatement, NoRows, TableContents
<1>8. CASE CreateTable
  BY <1>1, <1>8 DEF CreateTable, Save, StatementOK, NoTable
<1>9. CASE CreateFile
  BY <1>1, <1>9, EndOK DEF CreateFile, Return
<1>10. CASE DropTable
  <2>1. /\ files' = <<Table>> \o catalog.index /\ pc' = "discard"
        /\ UNCHANGED <<statement, harm, store>>
    BY <1>10 DEF DropTable, Drop
  <2>2. files' \in Seq(File) /\ files' # << >>
    BY <1>1, <1>2, <2>1 DEF File
  <2> QED BY <1>1, <2>1, <2>2 DEF StatementOK
<1>11. CASE \E i \in Index : DropIndex(i)
  <2>1. PICK i \in Index : /\ files' = <<i>> /\ pc' = "discard"
                           /\ UNCHANGED <<statement, harm, store>>
    BY <1>11 DEF DropIndex, Drop
  <2>2. files' \in Seq(File) /\ files' # << >>
    BY <2>1 DEF File
  <2> QED BY <1>1, <2>1, <2>2 DEF StatementOK
<1>12. CASE DiscardNext
  <2>1. CASE Len(files) = 1
    BY <1>1, <1>12, <2>1, EndOK DEF DiscardNext, Return
  <2>2. CASE Len(files) # 1
    <3>1. /\ files' = Tail(files) /\ pc' = "discard" /\ UNCHANGED <<statement, harm>>
      BY <1>12, <2>2 DEF DiscardNext
    <3>2. Tail(files) \in Seq(File) /\ Tail(files) # << >>
      <4>1. pc = "discard"
        BY <1>12 DEF DiscardNext
      <4> QED BY <2>2, <4>1, StatementFields
    <3> QED BY <1>1, <3>1, <3>2 DEF StatementOK
  <2> QED BY <2>1, <2>2
<1>13. CASE \E i \in Index : CreateIndex(i)
  <2>1. PICK i \in Index : CreateIndex(i)
    BY <1>13
  <2>2. /\ files' = <<i>> /\ pc' = "build" /\ catalog.exists
        /\ catalog' = [catalog EXCEPT !.index = Append(@, i)]
        /\ statement' = [NoStatement EXCEPT !.kind = "index"]
        /\ harm' \subseteq {"failed", "cut", "leftover"}
    BY <1>1, <2>1 DEF CreateIndex, Usable, Save
  <2>3. catalog'.exists
    BY <1>1, <2>2, CatalogFields
  <2>4. files' \in Seq(File) /\ files' # << >>
    BY <2>2 DEF File
  <2> QED BY <2>2, <2>3, <2>4 DEF StatementOK, NoStatement, NoRows, TableContents
<1>14. CASE BuildIndex
  <2>1. PICK i \in Indexed : files = <<i>>
    BY <1>14 DEF BuildIndex, Typed, BuildOK
  <2>2. i \in File /\ i # Table /\ Head(files) = i /\ ListedFiles = {i}
    BY <1>1, <2>1, CatalogFields DEF ListedFiles
  <2> DEFINE x == Opened(i, store[i])
             y == [x EXCEPT !.mem = @ (+) SetToBag({<<Rows[s], s>> : s \in Live})]
  <2>3. CASE x.mem = Closed \/ ~Opens(Table)
    BY <1>1, <1>14, <2>2, <2>3, EndOK DEF BuildIndex, Raise
  <2>4. CASE x.mem # Closed /\ Opens(Table)
    <3>1. /\ pc = "build" /\ store' = [OpenFiles({Table}) EXCEPT ![i] = y]
          /\ pc' = "flush" /\ UNCHANGED <<catalog, saved, todo, files, statement, harm>>
      BY <1>14, <2>2, <2>4 DEF BuildIndex, SameCatalog
    <3> HIDE DEF y
    <3>2. store'[Table] = Opened(Table, store[Table])
      BY <1>1, <2>2, <3>1 DEF OpenFiles
    <3>3. store'[Table].mem # Closed
      BY <1>1, <2>4, <3>2, OpenedOK DEF Opens, StoreOK
    <3>4. Indexed' = Indexed /\ ListedFiles' = ListedFiles
      BY <3>1 DEF Indexed, ListedFiles
    <3> QED BY <1>1, <2>1, <2>2, <3>1, <3>3, <3>4 DEF StatementOK
  <2> QED BY <2>3, <2>4
<1>15. ASSUME NEW kind \in {"insert", "update", "delete"},
              NEW changes, Len(changes) \in Nat, Begin(kind, changes)
       PROVE  StatementOK'
  <2>1. /\ catalog.exists /\ Opens(Table) /\ pc' = "rows"
        /\ statement' = [kind |-> kind, rows |-> Len(changes), before |-> Rows]
        /\ store' = OpenFiles({Table})
        /\ UNCHANGED <<catalog, files, harm>>
    BY <1>15 DEF Begin, Usable, SameCatalog
  <2>2. store'[Table].mem # Closed
    BY <1>1, <2>1, OpenedOK DEF Opens, StoreOK, OpenFiles
  <2>3. statement' \in [kind : {"none", "index", "insert", "update", "delete"},
                        rows : Nat, before : TableContents]
    BY <1>15, <2>1, TableRows
  <2> QED BY <1>1, <2>1, <2>2, <2>3 DEF StatementOK
<1>16. CASE \E v \in Values : Insert(<<v>>) \/ \E w \in Values : Insert(<<v, w>>)
  <2>1. ASSUME NEW values \in Seq(Values), Insert(values) PROVE StatementOK'
    <3> DEFINE changes == [n \in 1 .. Len(values) |-> Insertion(values[n])]
    <3>1. Begin("insert", changes) /\ Len(changes) \in Nat
      BY <2>1 DEF Insert
    <3> HIDE DEF changes
    <3> QED BY <1>15, <3>1
  <2>2. \A v, w \in Values : <<v>> \in Seq(Values) /\ <<v, w>> \in Seq(Values)
    OBVIOUS
  <2> QED BY <1>16, <2>1, <2>2
<1>17. CASE \E P \in Predicate : Delete(P) \/ \E v \in Values : Update(P, v)
  <2>1. \E P \in Predicate : \E order \in InSlotOrder(Matches(P)) :
          \E new \in SUBSET Values : \E kind \in {"update", "delete"} :
            Begin(kind, Change(order, new))
    BY <1>17 DEF Delete, Update
  <2>2. ASSUME NEW P \in Predicate, NEW order \in InSlotOrder(Matches(P)), NEW new
        PROVE  Len(Change(order, new)) \in Nat
    BY OrderLength DEF Matches
  <2> QED BY <1>15, <2>1, <2>2
<1>18. CASE ChangeRow
  <2>1. pc = "rows" /\ catalog.exists /\ UNCHANGED <<catalog, saved>>
    BY <1>1, <1>18 DEF ChangeRow, StatementOK, SameCatalog
  <2>2. \/ \E b \in BOOLEAN : Raise(b)
        \/ UNCHANGED <<pc, files, statement, harm>> /\ store'[Table].mem \in TableContents
    <3> DEFINE change == Head(todo)
               left == Without(store[Table].mem, change.gone)
               added == NewEntries(change, left)
               rows == With(left, added)
    <3>1. CASE Bad \in change.new
      BY <1>18, <3>1 DEF ChangeRow, RowChanged
    <3>2. CASE Bad \notin change.new
      <4>1. /\ store'[Table].mem = rows
            /\ IF \A f \in Indexed : Opens(f)
                 THEN todo' = Tail(todo) /\ UNCHANGED <<pc, files, statement, harm>>
                 ELSE Raise(rows # statement.before)
        <5>1. /\ change = Head(todo)
              /\ left = Without(store[Table].mem, change.gone)
              /\ added = NewEntries(change, left)
              /\ rows = With(left, added)
          OBVIOUS
        <5> HIDE DEF change, left, added, rows
        <5>2. store'[Table].mem = rows
          BY ONLY <1>18, <3>2, <5>1, Typed, ChangeRowEffect DEF Raise, End
        <5>3. IF \A f \in Indexed : Opens(f)
                THEN todo' = Tail(todo) /\ UNCHANGED <<pc, files, statement, harm>>
                ELSE Raise(rows # statement.before)
          BY ONLY <1>18, <3>2, <5>1, Typed, ChangeRowEffect DEF Raise, End
        <5> QED BY ONLY <5>2, <5>3
      <4>2. rows \in TableContents
        BY <1>18, <3>2, NewTable
      <4> QED BY <4>1, <4>2
    <3> QED BY <3>1, <3>2
  <2>3. CASE \E b \in BOOLEAN : Raise(b)
    BY <1>1, <2>3, EndOK DEF Raise
  <2>4. CASE /\ UNCHANGED <<pc, files, statement, harm>>
             /\ store'[Table].mem \in TableContents
    BY <2>1, <2>4, SameStatement, DatabaseAssumption
  <2> QED BY <2>2, <2>3, <2>4
<1>19. CASE RowsDone
  <2>1. /\ files' = <<Table>> \o catalog.index /\ pc' = "flush" /\ pc = "rows"
        /\ UNCHANGED <<store, statement, harm>>
        /\ catalog' \in {catalog, [catalog EXCEPT !.count = Counted]}
    BY <1>19 DEF RowsDone, Save, SameCatalog
  <2>2. catalog'.exists /\ catalog'.index = catalog.index
    BY <1>1, <2>1, CatalogFields DEF StatementOK
  <2>3. /\ files' \in Seq(File) /\ files' # << >>
        /\ \A n \in 1 .. Len(files') : files'[n] \in {Table} \cup Indexed
    <3>1. /\ catalog.index \in Seq(Index) /\ <<Table>> \in Seq(File)
          /\ \A n \in 1 .. Len(catalog.index) : catalog.index[n] \in Indexed
          /\ Len(<<Table>>) = 1 /\ <<Table>>[1] = Table
          /\ catalog.index \in Seq(File)
      BY <1>2 DEF Indexed, File
    <3>2. /\ files' \in Seq(File) /\ Len(files') = 1 + Len(catalog.index)
          /\ \A n \in 1 .. 1 + Len(catalog.index) :
               files'[n] = IF n <= 1 THEN <<Table>>[n] ELSE catalog.index[n - 1]
      BY <2>1, <3>1, ConcatProperties
    <3>3. ASSUME NEW n \in 1 .. Len(files')
          PROVE  files'[n] \in {Table} \cup Indexed
      BY SMTT(30), <3>1, <3>2
    <3>4. Len(files') # 0
      BY <3>1, <3>2
    <3> QED BY <3>2, <3>3, <3>4
  <2>4. ListedFiles' \subseteq {Table} \cup Indexed'
    BY <2>2, <2>3 DEF ListedFiles, Indexed
  <2> QED BY <1>1, <2>1, <2>2, <2>3, <2>4 DEF StatementOK
<1>20. CASE FlushNext
  <2>1. /\ pc = "flush" /\ UNCHANGED <<catalog, saved>> /\ Indexed' = Indexed
        /\ store'[Table].mem # Closed /\ catalog.exists
    <3>1. pc = "flush" /\ UNCHANGED <<catalog, saved>> /\ catalog.exists
      BY <1>1, <1>20 DEF FlushNext, SameCatalog, StatementOK
    <3> QED BY <1>1, <1>20, <3>1, FlushMem DEF Indexed, StatementOK
  <2>2. \/ \E b \in BOOLEAN : Raise(b)
        \/ Return
        \/ /\ Len(files) > 1 /\ files' = Tail(files)
           /\ UNCHANGED <<pc, todo, statement, harm>>
        \/ pc' = "stats" /\ files' = << >> /\ UNCHANGED <<todo, statement, harm>>
    BY <1>20 DEF FlushNext
  <2>3. CASE Return \/ \E b \in BOOLEAN : Raise(b)
    BY <1>1, <2>3, EndOK DEF Raise, Return
  <2>4. CASE /\ Len(files) > 1 /\ files' = Tail(files)
             /\ UNCHANGED <<pc, todo, statement, harm>>
    <3>1. ListedFiles' = Elems(Tail(files))
      BY <2>4 DEF ListedFiles, Elems
    <3> QED BY <1>1, <2>1, <2>4, <3>1, StatementFields DEF StatementOK
  <2>5. CASE pc' = "stats" /\ files' = << >> /\ UNCHANGED <<todo, statement, harm>>
    <3>1. << >> \in Seq(File)
      OBVIOUS
    <3> QED BY <1>1, <2>1, <2>5, <3>1 DEF StatementOK
  <2> QED BY <2>2, <2>3, <2>4, <2>5
<1>21. CASE SetIndexStats
  BY <1>1, <1>21, EndOK DEF SetIndexStats, Return
<1> QED BY <1>3, <1>4, <1>5, <1>6, <1>7, <1>8, <1>9, <1>10, <1>11, <1>12, <1>13, <1>14,
           <1>16, <1>17, <1>18, <1>19, <1>20, <1>21 DEF Next, Statement
-----------------------------------------------------------------------------
(* Files that are not in use.                                              *)

(* A step that leaves the catalog, the statement's place and its files.    *)
LEMMA StaysUnused ==
  ASSUME Typed, UNCHANGED catalog, pc' = pc \/ pc # "discard",
         pc' = "discard" => UNCHANGED files,
         \A f \in File : Unused(f) /\ store[f].mem = Closed => store'[f].mem = Closed
  PROVE  UnusedClosed'
<1>1. SUFFICES ASSUME NEW f \in File, Unused(f)', ~(pc' = "discard" /\ f \in ListedFiles')
               PROVE  store'[f].mem = Closed
  BY DEF UnusedClosed
<1>2. Unused(f)
  BY <1>1 DEF Unused, Indexed
<1>3. ~(pc = "discard" /\ f \in ListedFiles)
  BY <1>1 DEF ListedFiles
<1> QED BY <1>2, <1>3 DEF Typed, UnusedClosed

LEMMA UsedFiles ==
  ASSUME Typed, catalog.exists
  PROVE  \A f \in {Table} \cup Indexed : ~Unused(f)
BY CatalogFields DEF Typed, Unused

LEMMA UnusedStep ==
  ASSUME Typed, [Next]_vars
  PROVE  UnusedClosed'
<1>1. /\ UnusedClosed /\ CatalogOK /\ StoreOK /\ StatementOK
      /\ store = [f \in File |-> store[f]] /\ Table \in File
  BY DEF Typed, StoreOK, File
<1>2. /\ Indexed = Elems(catalog.index) /\ Indexed \subseteq File \ {Table}
      /\ catalog.index \in Seq(Index) /\ NoDup(catalog.index)
      /\ catalog.exists \in BOOLEAN
      /\ ~catalog.exists => Indexed = {}
  BY <1>1, CatalogFields
<1>3. catalog.exists => \A f \in {Table} \cup Indexed : ~Unused(f)
  BY UsedFiles
<1>4. CASE \/ UNCHANGED vars \/ SaveDone \/ OpenRaises \/ SetIndexStats
           \/ UNCHANGED <<catalog, store>> /\ pc # "discard" /\ pc' # "discard"
  BY <1>4, StaysUnused DEF vars, SaveDone, OpenRaises, SetIndexStats, Save, Return, End
<1>5. CASE \E f \in File : WriteBack(f)
  BY <1>1, <1>5, WriteBackMem, StaysUnused DEF WriteBack, SameCatalog
<1>6. ASSUME NEW U \in SUBSET ({Table} \cup Indexed), store' = OpenFiles(U),
             catalog.exists, pc # "discard", pc' # "discard", UNCHANGED catalog
      PROVE  UnusedClosed'
  <2>1. \A f \in File : Unused(f) => store'[f] = store[f]
    BY <1>3, <1>6 DEF OpenFiles
  <2> QED BY <1>6, <2>1, StaysUnused
<1>7. CASE \E used \in {{}} \cup {{i} : i \in Indexed} : Select(used)
  <2>1. PICK used \in {{}} \cup {{i} : i \in Indexed} : Select(used)
    BY <1>7
  <2>2. {Table} \cup used \in SUBSET ({Table} \cup Indexed)
    BY <2>1
  <2> QED BY <1>6, <2>1, <2>2 DEF Select, Usable, SameCatalog
<1>8. CASE CreateFile
  BY <1>1, <1>6, <1>8 DEF CreateFile, Return, End, SameCatalog, StatementOK
<1>9. ASSUME NEW kind, NEW changes, Begin(kind, changes)
      PROVE  UnusedClosed'
  BY <1>6, <1>9 DEF Begin, Usable, SameCatalog
<1>10. CASE \E v \in Values : Insert(<<v>>) \/ \E w \in Values : Insert(<<v, w>>)
  BY <1>9, <1>10 DEF Insert
<1>11. CASE \E P \in Predicate : Delete(P) \/ \E v \in Values : Update(P, v)
  BY <1>9, <1>11 DEF Delete, Update
<1>12. CASE RowsDone
  <2>1. /\ pc = "rows" /\ pc' = "flush" /\ UNCHANGED store
        /\ catalog' \in {catalog, [catalog EXCEPT !.count = Counted]}
    BY <1>12 DEF RowsDone, Save, SameCatalog
  <2>2. catalog'.exists = catalog.exists /\ catalog'.index = catalog.index
    BY <1>1, <2>1, CatalogFields
  <2>3. \A f : Unused(f)' <=> Unused(f)
    BY <2>2 DEF Unused, Indexed
  <2> QED BY <1>1, <2>1, <2>3 DEF UnusedClosed
<1>13. CASE FlushNext
  <2>1. pc = "flush" /\ catalog.exists /\ Head(files) \in {Table} \cup Indexed
    BY <1>1, <1>13, StatementFields DEF FlushNext, StatementOK
  <2>2. \A f \in File : Unused(f) => store'[f] = store[f]
    BY <1>3, <1>13, <2>1, FlushMem
  <2>3. pc' # "discard" /\ UNCHANGED catalog
    BY <1>13, <2>1 DEF FlushNext, Raise, Return, End, SameCatalog
  <2> QED BY <2>1, <2>2, <2>3, StaysUnused
<1>14. CASE Close \/ Kill
  <2>1. \A f \in File : store'[f].mem = Closed
    BY <1>14, ClosedOK, KilledOK, <1>1 DEF Close, Kill, StoreOK
  <2> QED BY <2>1 DEF UnusedClosed
<1>15. CASE Open
  <2>1. UNCHANGED <<catalog, store>> /\ pc # "discard" /\ pc' # "discard"
    BY <1>1, <1>15 DEF Open, CatalogOK
  <2> QED BY <1>4, <2>1
<1>16. CASE CreateTable
  <2>1. /\ UNCHANGED store /\ ~catalog.exists /\ pc = "idle"
        /\ catalog' = [NoTable EXCEPT !.exists = TRUE]
    BY <1>16 DEF CreateTable, Save
  <2>2. \A f \in File : store[f].mem = Closed
    <3>1. \A f \in File : Unused(f)
      BY <1>2, <2>1 DEF Unused
    <3> QED BY <1>1, <2>1, <3>1 DEF UnusedClosed
  <2> QED BY <2>1, <2>2 DEF UnusedClosed
<1>17. CASE DropTable
  <2>1. /\ UNCHANGED store /\ catalog.exists /\ pc = "idle" /\ pc' = "discard"
        /\ files' = <<Table>> \o catalog.index
    BY <1>17 DEF DropTable, Drop
  <2>2. {Table} \cup Indexed \subseteq ListedFiles'
    <3>1. /\ <<Table>> \in Seq(File) /\ Len(<<Table>>) = 1 /\ <<Table>>[1] = Table
          /\ catalog.index \in Seq(File) /\ Len(catalog.index) \in Nat
      BY <1>2 DEF File
    <3>2. /\ Len(files') = 1 + Len(catalog.index)
          /\ \A n \in 1 .. 1 + Len(catalog.index) :
               files'[n] = IF n <= 1 THEN <<Table>>[n] ELSE catalog.index[n - 1]
      BY <2>1, <3>1, ConcatProperties
    <3>3. Table \in ListedFiles'
      <4>1. 1 \in 1 .. Len(files') /\ files'[1] = Table
        BY <3>1, <3>2
      <4> QED BY <4>1 DEF ListedFiles
    <3>4. ASSUME NEW i \in Indexed PROVE i \in ListedFiles'
      <4>1. PICK n \in 1 .. Len(catalog.index) : catalog.index[n] = i
        BY DEF Indexed
      <4>2. n + 1 \in 1 .. Len(files') /\ files'[n + 1] = i
        BY <3>1, <3>2, <4>1
      <4> QED BY <4>2 DEF ListedFiles
    <3> QED BY <3>3, <3>4
  <2>3. \A f \in File : ~Unused(f) => f \in {Table} \cup Indexed
    BY DEF Unused
  <2>4. \A f \in File : f \notin ListedFiles' => store'[f].mem = Closed
    BY <1>1, <2>1, <2>2, <2>3 DEF UnusedClosed
  <2> QED BY <2>1, <2>4 DEF UnusedClosed
<1>18. CASE \E i \in Index : DropIndex(i)
  <2>1. PICK i \in Index, n \in 1 .. Len(catalog.index) :
               /\ catalog.index[n] = i
               /\ Drop(<<i>>, [catalog EXCEPT
                     !.index = SubSeq(@, 1, n - 1) \o SubSeq(@, n + 1, Len(@))])
    BY <1>18 DEF DropIndex
  <2> DEFINE s == catalog.index
             t == SubSeq(s, 1, n - 1) \o SubSeq(s, n + 1, Len(s))
  <2>2. Elems(t) = Elems(s) \ {i}
    <3>1. /\ t \in Seq(Index) /\ Len(t) = Len(s) - 1
          /\ \A k \in 1 .. Len(s) - 1 : t[k] = IF k < n THEN s[k] ELSE s[k + 1]
      BY <1>2, CutOut
    <3>2. s \in Seq(Index) /\ NoDup(s) /\ n \in 1 .. Len(s) /\ s[n] = i
      BY <1>2, <2>1
    <3> HIDE DEF s, t
    <3>3. Elems(t) = Elems(s) \ {s[n]}
      BY ONLY <3>1, <3>2, RemoveOne
    <3> QED BY <3>2, <3>3
  <2>3. /\ catalog' = [catalog EXCEPT !.index = t] /\ catalog.exists
        /\ UNCHANGED store /\ files' = <<i>> /\ pc = "idle" /\ pc' = "discard"
    BY <2>1 DEF Drop, Save
  <2> HIDE DEF t
  <2>4. catalog'.exists /\ catalog'.index = t
    BY <1>1, <2>3, CatalogFields
  <2>5. Indexed' = Indexed \ {i} /\ i \in ListedFiles'
    <3>1. Indexed' = Elems(t)
      BY <2>4 DEF Indexed, Elems
    <3>2. 1 \in 1 .. Len(files') /\ files'[1] = i
      BY <2>3
    <3> QED BY <1>2, <2>2, <3>1, <3>2 DEF ListedFiles
  <2>6. \A f \in File : Unused(f)' => Unused(f) \/ f = i
    BY <2>4, <2>5 DEF Unused
  <2> QED BY <1>1, <2>3, <2>5, <2>6 DEF UnusedClosed
<1>19. CASE DiscardNext
  <2>1. /\ pc = "discard" /\ UNCHANGED catalog
        /\ store' = [store EXCEPT ![Head(files)] = Discarded(store[Head(files)])]
        /\ IF Len(files) = 1 THEN pc' = "idle"
           ELSE files' = Tail(files) /\ pc' = pc
    BY <1>19 DEF DiscardNext, Return, End, SameCatalog
  <2>2. Head(files) \in File
    BY <2>1, StatementFields
  <2>3. /\ store'[Head(files)].mem = Closed
        /\ \A f \in File \ {Head(files)} : store'[f] = store[f]
    BY <1>1, <2>1, <2>2, DiscardedOK DEF StoreOK
  <2>4. \A f : Unused(f)' <=> Unused(f)
    BY <2>1 DEF Unused, Indexed
  <2>5. SUFFICES ASSUME NEW f \in File, Unused(f), f # Head(files),
                        ~(pc' = "discard" /\ f \in ListedFiles')
                 PROVE  f \notin ListedFiles
    BY <1>1, <2>3, <2>4 DEF UnusedClosed
  <2>6. CASE Len(files) = 1
    BY <2>1, <2>5, <2>6, StatementFields
  <2>7. CASE Len(files) # 1
    <3>1. ListedFiles' = Elems(Tail(files))
      BY <2>1, <2>7 DEF ListedFiles, Elems
    <3> QED BY <2>1, <2>5, <2>7, <3>1, StatementFields
  <2> QED BY <2>6, <2>7
<1>20. CASE \E i \in Index : CreateIndex(i)
  <2>1. PICK i \in Index : CreateIndex(i)
    BY <1>20
  <2>2. /\ catalog' = [catalog EXCEPT !.index = Append(@, i)] /\ catalog.exists
        /\ UNCHANGED store /\ pc = "idle" /\ i \notin Indexed
    BY <2>1 DEF CreateIndex, Usable, Save
  <2>3. catalog'.exists /\ catalog'.index = Append(catalog.index, i)
    BY <1>1, <2>2, CatalogFields
  <2>4. Indexed' = Indexed \cup {i}
    <3>1. Elems(Append(catalog.index, i)) = Elems(catalog.index) \cup {i}
      BY <1>2, <2>2, AppendOne
    <3> QED BY <1>2, <2>3, <3>1 DEF Indexed, Elems
  <2>5. \A f \in File : Unused(f)' => Unused(f)
    BY <2>2, <2>3, <2>4 DEF Unused
  <2> QED BY <1>1, <2>2, <2>5 DEF UnusedClosed
<1>21. CASE BuildIndex
  <2>1. PICK i \in Indexed : files = <<i>>
    BY <1>21 DEF BuildIndex, Typed, BuildOK
  <2>2. Head(files) = i /\ pc = "build" /\ catalog.exists /\ UNCHANGED catalog
        /\ pc' # "discard"
    BY <1>1, <1>21, <2>1 DEF BuildIndex, StatementOK, SameCatalog, Raise, End
  <2>3. \A f \in File : f \notin {Table, i} => store'[f] = store[f]
    BY <1>21, <2>2 DEF BuildIndex, OpenFiles
  <2> QED BY <1>3, <2>1, <2>2, <2>3, StaysUnused
<1>22. CASE ChangeRow
  <2>1. pc = "rows" /\ catalog.exists /\ UNCHANGED catalog /\ pc' # "discard"
    BY <1>1, <1>22 DEF ChangeRow, RowChanged, StatementOK, SameCatalog, Raise, End
  <2>2. ASSUME NEW f \in File, Unused(f) PROVE store'[f] = store[f]
    <3>1. f # Table /\ ~Reached(f)
      BY <1>3, <2>1, <2>2 DEF Reached, Indexed
    <3> QED BY <1>1, <1>22, <3>1 DEF ChangeRow, RowChanged
  <2> QED BY <2>1, <2>2, StaysUnused
<1> QED BY <1>4, <1>5, <1>7, <1>8, <1>10, <1>11, <1>12, <1>13, <1>14, <1>15, <1>16,
           <1>17, <1>18, <1>19, <1>20, <1>21, <1>22 DEF Next, Statement

LEMMA BuildStep ==
  ASSUME Typed, [Next]_vars
  PROVE  BuildOK'
<1>1. SUFFICES ASSUME pc' = "build" PROVE BuildOK'
  BY DEF BuildOK
<1>2. /\ UnusedClosed /\ CatalogOK /\ StoreOK /\ StatementOK /\ BuildOK
      /\ store = [f \in File |-> store[f]]
  BY DEF Typed, StoreOK
<1>3. CASE \E i \in Index : CreateIndex(i)
  <2>1. PICK i \in Index : CreateIndex(i)
    BY <1>3
  <2>2. /\ catalog' = [catalog EXCEPT !.index = Append(@, i)]
        /\ UNCHANGED store /\ pc = "idle" /\ i \notin Indexed /\ files' = <<i>>
        /\ "leftover" \notin harm' => Recovered(store[i]) \in {Missing, EmptyBag}
    BY <2>1 DEF CreateIndex, Usable, Save
  <2>3. /\ catalog'.index = Append(catalog.index, i)
        /\ catalog.index \in Seq(Index) /\ NoDup(catalog.index)
        /\ Indexed = Elems(catalog.index)
    BY <1>2, <2>2, CatalogFields
  <2>4. i \in Indexed'
    <3>1. i \in Elems(Append(catalog.index, i))
      BY <2>2, <2>3, AppendOne
    <3> QED BY <2>3, <3>1 DEF Indexed, Elems
  <2>5. store[i].mem = Closed
    BY <1>2, <2>2, DatabaseAssumption DEF UnusedClosed, Unused, File
  <2> QED BY <2>2, <2>4, <2>5 DEF BuildOK
<1>4. CASE UNCHANGED vars \/ SaveDone \/ OpenRaises
  BY <1>2, <1>4 DEF vars, SaveDone, OpenRaises, BuildOK, Indexed
<1>5. CASE \E f \in File : WriteBack(f)
  <2>1. PICK f \in File : WriteBack(f)
    BY <1>5
  <2>2. /\ store[f].mem # Closed /\ \A g \in File \ {f} : store'[g] = store[g]
        /\ UNCHANGED <<catalog, saved, pc, todo, files, statement, harm>>
    BY <1>2, <2>1 DEF WriteBack, SameCatalog
  <2>3. Indexed' = Indexed /\ Indexed \subseteq File
    BY <1>2, <2>2, CatalogFields DEF Indexed
  <2> QED BY <1>1, <1>2, <2>2, <2>3 DEF BuildOK
<1>6. CASE \E used \in {{}} \cup {{i} : i \in Indexed} : Select(used)
  BY <1>1, <1>6 DEF Select, Usable
<1>7. ASSUME NEW kind, NEW changes, Begin(kind, changes)
      PROVE  FALSE
  BY <1>1, <1>7 DEF Begin
<1>8. CASE \E v \in Values : Insert(<<v>>) \/ \E w \in Values : Insert(<<v, w>>)
  BY <1>7, <1>8 DEF Insert
<1>9. CASE \E P \in Predicate : Delete(P) \/ \E v \in Values : Update(P, v)
  BY <1>7, <1>9 DEF Delete, Update
<1>10. CASE \E i \in Index : DropIndex(i)
  BY <1>1, <1>10 DEF DropIndex, Drop
<1>11. CASE CreateTable \/ DropTable \/ RowsDone \/ CreateFile \/ SetIndexStats
            \/ Open \/ Close \/ Kill
  BY <1>1, <1>11 DEF CreateTable, DropTable, Drop, RowsDone, CreateFile, SetIndexStats,
       Open, Close, Kill, Return, End
<1>12. CASE FlushNext \/ DiscardNext \/ BuildIndex \/ ChangeRow
  BY <1>1, <1>12 DEF FlushNext, DiscardNext, BuildIndex, ChangeRow, RowChanged, Raise, Return, End
<1> QED BY <1>3, <1>4, <1>5, <1>6, <1>8, <1>9, <1>10, <1>11, <1>12 DEF Next, Statement
-----------------------------------------------------------------------------
(* The row changes that are left.                                          *)

LEMMA FreeCount ==
  ASSUME NEW T \in SUBSET Slot
  PROVE  /\ Cardinality(Slot \ T) = Cardinality(Slot) - Cardinality(T)
         /\ Cardinality(Slot \ T) \in Nat /\ Cardinality(T) \in Nat
         /\ Cardinality(Slot) \in Nat
<1>1. Slot \cap T = T
  OBVIOUS
<1> QED BY <1>1, SlotSets, FS_Difference

LEMMA BeginRows ==
  ASSUME Typed, [Next]_vars, NEW kind \in {"insert", "update", "delete"}, NEW changes,
         Begin(kind, changes)
  PROVE  /\ Rows' = Rows /\ Live' = Live /\ pc' = "rows" /\ UNCHANGED catalog
         /\ todo' = changes /\ statement'.kind = kind
         /\ statement'.rows = Len(changes) /\ statement'.before = Rows
         /\ catalog.exists /\ harm' = harm /\ pc = "idle"
         /\ \A f \in File : View(f)' = View(f)
<1>1. /\ catalog.exists /\ pc' = "rows" /\ pc = "idle"
      /\ todo' = changes
      /\ statement' = [kind |-> kind, rows |-> Len(changes), before |-> Rows]
      /\ store' = OpenFiles({Table})
      /\ UNCHANGED <<catalog, files, harm>>
  BY DEF Begin, Usable, SameCatalog
<1>2. /\ \A f \in File : View(f)' = View(f)
      /\ Rows' = Rows
  <2>1. {Table} \in SUBSET File /\ Table \in File /\ StoreOK
    BY DEF File, Typed
  <2>2. \A f \in File : View(f)' = View(f)
    BY <1>1, <2>1, OpenFilesOK
  <2>3. View(Table)' = View(Table)
    BY <2>1, <2>2
  <2> QED BY <2>2, <2>3 DEF Rows
<1>3. Live' = Live
  BY <1>2 DEF Live
<1> QED BY <1>1, <1>2, <1>3

LEMMA InsertBegins ==
  ASSUME Typed, [Next]_vars, NEW values \in Seq(Values), Insert(values)
  PROVE  RowsOK'
<1> DEFINE changes == [n \in 1 .. Len(values) |-> Insertion(values[n])]
           Changes == [gone : SUBSET Entry, new : SUBSET Values]
<1>1. /\ Len(values) <= Cardinality(Slot \ Live)
      /\ catalog.count + Len(values) <= MaxCount
      /\ Begin("insert", changes)
  BY DEF Insert
<1>2. Len(values) \in Nat /\ \A n \in 1 .. Len(values) : values[n] \in Values
  OBVIOUS
<1>3. /\ Len(changes) = Len(values)
      /\ \A n \in 1 .. Len(values) : changes[n] = Insertion(values[n])
      /\ changes \in Seq(Changes)
  <2>1. \A n \in 1 .. Len(values) : Insertion(values[n]) \in Changes
    BY <1>2 DEF Insertion
  <2>2. changes \in Seq(Changes)
    BY <1>2, <2>1
  <2> QED BY <1>2, <2>2
<1> HIDE DEF changes, Changes
<1>4. /\ Live' = Live /\ catalog' = catalog /\ todo' = changes
      /\ statement'.kind = "insert" /\ statement'.rows = Len(changes)
  BY <1>1, BeginRows
<1>5. InsertLeft'
  <2>1. ASSUME NEW n \in 1 .. Len(values)
        PROVE  changes[n].gone = {} /\ \E v \in Values : changes[n].new = {v}
    <3>1. values[n] \in Values /\ changes[n] = [gone |-> {}, new |-> {values[n]}]
      BY <1>2, <1>3 DEF Insertion
    <3> QED BY <3>1
  <2> QED BY <1>1, <1>3, <1>4, <2>1 DEF InsertLeft
<1>6. Len(todo') <= statement'.rows
  BY <1>2, <1>3, <1>4
<1> QED BY <1>3, <1>4, <1>5, <1>6 DEF RowsOK, Changes

LEMMA ChangesBegin ==
  ASSUME Typed, [Next]_vars, NEW kind \in {"update", "delete"},
         NEW P \in Predicate, NEW order \in InSlotOrder(Matches(P)),
         NEW new \in SUBSET Values,
         IF kind = "delete" THEN new = {} ELSE \E v \in Values : new = {v},
         Begin(kind, Change(order, new))
  PROVE  RowsOK'
<1> DEFINE changes == Change(order, new)
           Changes == [gone : SUBSET Entry, new : SUBSET Values]
<1>1. /\ Rows \in TableContents /\ Matches(P) \in SUBSET Slot
      /\ \A s \in Matches(P) : Rows[s] # Free /\ Rows[s] \in Key
  BY TableRows, DatabaseAssumption DEF Matches, Predicate
<1>2. /\ order \in Seq(Matches(P)) /\ Len(order) \in Nat
      /\ Len(changes) = Len(order)
  BY <1>1, OrderLength
<1>3. \A m, n \in 1 .. Len(order) : m < n => order[m] < order[n]
  <2>1. \A m, n \in DOMAIN order : m < n => order[m] < order[n]
    BY DEF InSlotOrder
  <2>2. DOMAIN order = 1 .. Len(order)
    BY <1>2
  <2> QED BY <2>1, <2>2
<1>4. \A m, n \in 1 .. Len(order) : order[m] = order[n] => m = n
  <2>1. \A n \in 1 .. Len(order) : order[n] \in Int
    BY <1>1, <1>2, DatabaseAssumption DEF Slot
  <2>2. SUFFICES ASSUME NEW m \in 1 .. Len(order), NEW n \in 1 .. Len(order), m # n
                 PROVE  order[m] # order[n]
    OBVIOUS
  <2>3. m < n \/ n < m
    BY <1>2, <2>2
  <2> QED BY <1>3, <2>1, <2>3
<1>5. \A n \in 1 .. Len(order) :
        changes[n] = [gone |-> {<<Rows[order[n]], order[n]>>}, new |-> new]
  BY <1>2 DEF Change
<1>6. changes \in Seq(Changes)
  <2>1. \A n \in 1 .. Len(order) : order[n] \in Matches(P)
    BY <1>2
  <2>2. \A s \in Matches(P) : [gone |-> {<<Rows[s], s>>}, new |-> new] \in Changes
    BY <1>1 DEF Entry
  <2>3. {[gone |-> {<<Rows[s], s>>}, new |-> new] : s \in Matches(P)} \subseteq Changes
    BY <2>2
  <2>4. changes \in Seq({[gone |-> {<<Rows[s], s>>}, new |-> new] : s \in Matches(P)})
    BY <1>1, OrderLength
  <2> HIDE DEF changes, Changes
  <2> QED BY <2>3, <2>4
<1> HIDE DEF changes, Changes
<1>7. /\ Rows' = Rows /\ todo' = changes
      /\ statement'.kind = kind /\ statement'.rows = Len(changes)
      /\ statement'.before = Rows
  BY BeginRows DEF changes
<1>8. order \in [1 .. Len(todo') -> Slot]
  BY <1>1, <1>2, <1>7
<1>9. TakesOut(order)'
  <2>1. \A n \in 1 .. Len(order) : order[n] \in Matches(P)
    BY <1>2
  <2>2. ASSUME NEW n \in 1 .. Len(order)
        PROVE  /\ Rows[order[n]] # Free
               /\ changes[n].gone = {<<Rows[order[n]], order[n]>>}
               /\ IF kind = "delete" THEN changes[n].new = {}
                  ELSE \E v \in Values : changes[n].new = {v}
    <3>1. changes[n] = [gone |-> {<<Rows[order[n]], order[n]>>}, new |-> new]
      BY <1>5
    <3>2. Rows[order[n]] # Free
      BY <1>1, <2>1
    <3>3. changes[n].gone = {<<Rows[order[n]], order[n]>>} /\ changes[n].new = new
      BY <3>1
    <3> QED BY <3>2, <3>3
  <2> QED BY <1>2, <1>4, <1>7, <2>2 DEF TakesOut
<1>10. Len(todo') <= statement'.rows
  BY <1>2, <1>7
<1> QED BY <1>6, <1>7, <1>8, <1>9, <1>10 DEF RowsOK, Changes

LEMMA RowsStep ==
  ASSUME Typed, [Next]_vars
  PROVE  RowsOK'
<1>1. SUFFICES ASSUME pc' = "rows" PROVE RowsOK'
  BY DEF RowsOK
<1>2. /\ CatalogOK /\ StoreOK /\ StatementOK /\ RowsOK /\ Table \in File
  BY DEF Typed, File
<1>3. ASSUME UNCHANGED <<catalog, pc, todo, statement>>, Rows' = Rows
      PROVE  RowsOK'
  <2>1. Live' = Live
    BY <1>3 DEF Live
  <2>2. \A slot : TakesOut(slot)' <=> TakesOut(slot)
    BY <1>3 DEF TakesOut
  <2>3. InsertLeft' <=> InsertLeft
    BY <1>3, <2>1 DEF InsertLeft
  <2> QED BY <1>2, <1>3, <2>2, <2>3 DEF RowsOK
<1>4. CASE UNCHANGED vars \/ SaveDone \/ OpenRaises
  BY <1>3, <1>4 DEF vars, SaveDone, OpenRaises, Rows, View
<1>5. CASE \E f \in File : WriteBack(f)
  <2>1. /\ UNCHANGED <<catalog, saved, pc, todo, files, statement, harm>>
        /\ pc = "rows"
    BY <1>1, <1>5 DEF WriteBack, SameCatalog
  <2>2. /\ store[Table].mem = Rows /\ store[Table].mem # Closed
        /\ FileOK(Table, store'[Table])
    BY <1>2, <2>1, TableRows, StoreStep DEF StatementOK, StoreOK
  <2>3. store'[Table].mem = store[Table].mem
    BY <1>2, <1>5, WriteBackMem
  <2>4. Rows' = Rows
    BY <1>2, <2>2, <2>3, SeenType DEF Rows, View
  <2> QED BY <1>3, <2>1, <2>4
<1>6. CASE \E v \in Values : Insert(<<v>>) \/ \E w \in Values : Insert(<<v, w>>)
  <2>1. \A v, w \in Values : <<v>> \in Seq(Values) /\ <<v, w>> \in Seq(Values)
    OBVIOUS
  <2> QED BY <1>6, <2>1, InsertBegins
<1>7. CASE \E P \in Predicate : Delete(P) \/ \E v \in Values : Update(P, v)
  <2>1. PICK P \in Predicate : Delete(P) \/ \E v \in Values : Update(P, v)
    BY <1>7
  <2>2. CASE Delete(P)
    <3>1. {} \in SUBSET Values
      OBVIOUS
    <3> QED BY <2>2, <3>1, ChangesBegin DEF Delete
  <2>3. CASE \E v \in Values : Update(P, v)
    <3>1. \A v \in Values : {v} \in SUBSET Values
      OBVIOUS
    <3> QED BY <2>3, <3>1, ChangesBegin DEF Update
  <2> QED BY <2>1, <2>2, <2>3
<1>8. CASE ChangeRow
  <2> DEFINE change == Head(todo)
             left == Without(store[Table].mem, change.gone)
             added == NewEntries(change, left)
             rows == With(left, added)
             Changes == [gone : SUBSET Entry, new : SUBSET Values]
  <2>1. /\ change = Head(todo)
        /\ left = Without(store[Table].mem, change.gone)
        /\ added = NewEntries(change, left)
        /\ rows = With(left, added)
    OBVIOUS
  <2>2. pc = "rows" /\ todo # << >> /\ UNCHANGED catalog
    BY <1>8 DEF ChangeRow, SameCatalog
  <2>3. /\ todo \in Seq(Changes) /\ Len(todo) <= statement.rows
        /\ statement.rows \in Nat
        /\ statement.kind \in {"insert", "update", "delete"}
    BY <1>2, <2>2 DEF RowsOK, StatementOK
  <2> HIDE DEF change, left, added, rows, Changes
  <2>4. Bad \notin change.new
    BY <1>1, <1>8, <2>1, ChangeRowEffect DEF Raise, End
  <2>5. Rows' = rows /\ todo' = Tail(todo) /\ UNCHANGED <<pc, files, statement, harm>>
    BY <1>1, <1>8, <2>1, <2>4, ChangeRowEffect DEF Raise, End
  <2>6. /\ Len(todo) \in Nat /\ Len(todo) >= 1 /\ change = todo[1]
        /\ todo' \in Seq(Changes) /\ Len(todo') = Len(todo) - 1
        /\ \A n \in 1 .. Len(todo) - 1 : todo'[n] = todo[n + 1]
    BY <2>1, <2>2, <2>3, <2>5, TodoSeq
  <2>7. /\ \A s \in Slot : Rows[s] # Free /\ <<Rows[s], s>> \notin change.gone =>
              rows[s] = Rows[s]
        /\ statement.kind = "insert" =>
              Cardinality(LiveIn(rows)) = Cardinality(Live) + 1
    BY ONLY <2>1, <2>2, <2>4, Typed, NewRows
  <2>8. Live' = LiveIn(rows)
    BY <2>5 DEF Live, LiveIn
  <2>9. CASE statement.kind = "insert"
    <3>1. InsertLeft
      BY <1>2, <2>2, <2>9 DEF RowsOK
    <3>2. Len(todo') <= Cardinality(Slot \ Live')
      <4>1. /\ Cardinality(Slot \ Live) = Cardinality(Slot) - Cardinality(Live)
            /\ Cardinality(Slot \ LiveIn(rows)) =
                 Cardinality(Slot) - Cardinality(LiveIn(rows))
            /\ Cardinality(Slot) \in Nat /\ Cardinality(Live) \in Nat
        BY FreeCount DEF Live, LiveIn
      <4>2. Len(todo) <= Cardinality(Slot \ Live)
        BY <3>1 DEF InsertLeft
      <4> QED BY <2>6, <2>7, <2>8, <2>9, <4>1, <4>2
    <3>3. \A n \in 1 .. Len(todo') :
            todo'[n].gone = {} /\ \E v \in Values : todo'[n].new = {v}
      <4>1. \A n \in 1 .. Len(todo) - 1 : n + 1 \in 1 .. Len(todo)
        BY <2>6
      <4> QED BY SMTT(30), <2>6, <3>1, <4>1 DEF InsertLeft
    <3>4. InsertLeft'
      BY <2>2, <2>5, <3>1, <3>2, <3>3 DEF InsertLeft
    <3>5. Len(todo') <= statement'.rows
      BY <2>3, <2>5, <2>6
    <3> QED BY <2>3, <2>5, <2>6, <2>9, <3>4, <3>5 DEF RowsOK, Changes
  <2>10. CASE statement.kind # "insert"
    <3>1. PICK slot \in [1 .. Len(todo) -> Slot] : TakesOut(slot)
      BY <1>2, <2>2, <2>10 DEF RowsOK
    <3>2. \A n \in 1 .. Len(todo) - 1 : n + 1 \in 1 .. Len(todo) /\ n + 1 # 1
      BY <2>6
    <3>3. PICK rest \in [1 .. Len(todo) - 1 -> Slot] :
                 \A n \in 1 .. Len(todo) - 1 : rest[n] = slot[n + 1]
      <4> DEFINE tail == [n \in 1 .. Len(todo) - 1 |-> slot[n + 1]]
      <4>1. tail \in [1 .. Len(todo) - 1 -> Slot]
        BY <3>2
      <4> QED BY <4>1
    <3>4. \A n \in 1 .. Len(todo) - 1 : rest[n] = slot[n + 1]
      BY <3>3
    <3>5. 1 \in 1 .. Len(todo) /\ change.gone = {<<Rows[slot[1]], slot[1]>>}
      BY <2>6, <3>1 DEF TakesOut
    <3>6. ASSUME NEW n \in 1 .. Len(todo) - 1
          PROVE  /\ rows[rest[n]] = Rows[rest[n]] /\ Rows[rest[n]] # Free
                 /\ statement.before[rest[n]] # Free
                 /\ todo[n + 1].gone = {<<Rows[rest[n]], rest[n]>>}
                 /\ IF statement.kind = "delete" THEN todo[n + 1].new = {}
                    ELSE \E v \in Values : todo[n + 1].new = {v}
      <4>1. rest[n] = slot[n + 1] /\ slot[n + 1] # slot[1] /\ slot[n + 1] \in Slot
        BY <3>1, <3>2, <3>4, <3>5 DEF TakesOut
      <4>2. /\ Rows[slot[n + 1]] # Free /\ statement.before[slot[n + 1]] # Free
            /\ todo[n + 1].gone = {<<Rows[slot[n + 1]], slot[n + 1]>>}
            /\ IF statement.kind = "delete" THEN todo[n + 1].new = {}
               ELSE \E v \in Values : todo[n + 1].new = {v}
        BY <3>1, <3>2 DEF TakesOut
      <4>3. <<Rows[slot[n + 1]], slot[n + 1]>> \notin change.gone
        BY <3>5, <4>1
      <4> QED BY <2>7, <4>1, <4>2, <4>3
    <3>7. \A m, n \in 1 .. Len(todo) - 1 : rest[m] = rest[n] => m = n
      <4>1. SUFFICES ASSUME NEW m \in 1 .. Len(todo) - 1, NEW n \in 1 .. Len(todo) - 1,
                            rest[m] = rest[n]
                     PROVE  m = n
        OBVIOUS
      <4>2. m + 1 = n + 1
        BY <3>1, <3>2, <3>4, <4>1 DEF TakesOut
      <4> QED BY <2>6, <4>2
    <3>8. TakesOut(rest)'
      <4>1. ASSUME NEW n \in 1 .. Len(todo')
            PROVE  /\ Rows'[rest[n]] # Free /\ statement'.before[rest[n]] # Free
                   /\ todo'[n].gone = {<<Rows'[rest[n]], rest[n]>>}
                   /\ IF statement'.kind = "delete" THEN todo'[n].new = {}
                      ELSE \E v \in Values : todo'[n].new = {v}
        <5>1. n \in 1 .. Len(todo) - 1 /\ todo'[n] = todo[n + 1]
          BY <2>6, <4>1
        <5>2. Rows' = rows /\ statement' = statement
          BY <2>5
        <5> QED BY ONLY <3>6, <5>1, <5>2
      <4>2. \A m, n \in 1 .. Len(todo') : rest[m] = rest[n] => m = n
        BY <2>6, <3>7
      <4> QED BY ONLY <4>1, <4>2 DEF TakesOut
    <3>9. Len(todo') <= statement'.rows
      BY <2>3, <2>5, <2>6
    <3>10. rest \in [1 .. Len(todo') -> Slot]
      BY <2>6, <3>3
    <3> QED BY <2>3, <2>5, <2>6, <2>10, <3>8, <3>9, <3>10 DEF RowsOK, Changes
  <2> QED BY <2>9, <2>10
<1>9. CASE \E used \in {{}} \cup {{i} : i \in Indexed} : Select(used)
  BY <1>1, <1>9 DEF Select, Usable
<1>10. CASE \E i \in Index : DropIndex(i) \/ CreateIndex(i)
  BY <1>1, <1>10 DEF DropIndex, Drop, CreateIndex
<1>11. CASE CreateTable \/ DropTable \/ RowsDone \/ CreateFile \/ SetIndexStats
            \/ Open \/ Close \/ Kill
  BY <1>1, <1>11 DEF CreateTable, DropTable, Drop, RowsDone, CreateFile, SetIndexStats,
       Open, Close, Kill, Return, End
<1>12. CASE FlushNext \/ DiscardNext \/ BuildIndex
  BY <1>1, <1>12 DEF FlushNext, DiscardNext, BuildIndex, Raise, Return, End
<1> QED BY <1>4, <1>5, <1>6, <1>7, <1>8, <1>9, <1>10, <1>11, <1>12 DEF Next, Statement

-----------------------------------------------------------------------------
(* Types.                                                                  *)

LEMMA TypedInit == Init => Typed
<1> SUFFICES ASSUME Init PROVE Typed
  OBVIOUS
<1>1. StoreOK
  <2>1. ASSUME NEW f \in File
        PROVE  FileOK(f, [mem |-> Closed, file |-> Missing, log |-> Emptied])
    BY MakeFile
  <2> QED BY <2>1 DEF Init, StoreOK
<1>2. CatalogOK
  <2>1. << >> \in Seq(Index) /\ Len(<< >>) = 0
    OBVIOUS
  <2>2. NoTable \in CatalogFile
    BY <2>1, DatabaseAssumption DEF NoTable, CatalogFile
  <2>3. NoTable.index = << >>
    BY DEF NoTable
  <2> QED BY <2>1, <2>2, <2>3 DEF Init, CatalogOK
<1>3. StatementOK
  <2>1. << >> \in Seq(File)
    OBVIOUS
  <2> QED BY <2>1 DEF Init, StatementOK, NoStatement, NoRows, TableContents
<1>4. UnusedClosed /\ BuildOK /\ RowsOK
  BY DEF Init, UnusedClosed, BuildOK, RowsOK
<1> QED BY <1>1, <1>2, <1>3, <1>4 DEF Typed

LEMMA TypedNext == Typed /\ [Next]_vars => Typed'
<1> SUFFICES ASSUME Typed, [Next]_vars PROVE Typed'
  OBVIOUS
<1> QED BY StoreStep, CatalogStep, StatementStep, UnusedStep, BuildStep, RowsStep
        DEF Typed

LEMMA TypedAlways == Spec => []Typed
BY TypedInit, TypedNext, PTL DEF Spec

LEMMA IndexCount ==
  ASSUME CatalogOK PROVE Len(catalog.index) = Cardinality(Indexed)
<1> DEFINE s == catalog.index
<1>1. s \in Seq(Index) /\ NoDup(s) /\ Indexed = Elems(s)
  BY CatalogFields
<1> HIDE DEF s
<1>2. s \in Bijection(1 .. Len(s), Elems(s))
  BY <1>1 DEF NoDup, Elems, Bijection, Injection, Surjection, IsInjective
<1>3. Len(s) \in Nat /\ ExistsBijection(1 .. Len(s), Elems(s))
  BY <1>1, <1>2 DEF ExistsBijection
<1> QED BY <1>1, <1>3, FS_CountingElements DEF s
-----------------------------------------------------------------------------
(* How the catalog, the harm and the views go together in a step.          *)

(* The files that are discarded are not in the catalog any more.           *)
Dropped == pc = "discard" => \A f \in ListedFiles : Unused(f)

LEMMA DropIndexEffect ==
  ASSUME Typed, NEW i \in Index, DropIndex(i)
  PROVE  /\ catalog.exists /\ catalog'.exists /\ pc = "idle" /\ pc' = "discard"
         /\ Indexed' = Indexed \ {i} /\ ListedFiles' = {i}
         /\ catalog'.count = catalog.count
         /\ UNCHANGED <<store, statement, harm>>
<1>1. PICK n \in 1 .. Len(catalog.index) :
             /\ catalog.index[n] = i
             /\ Drop(<<i>>, [catalog EXCEPT
                   !.index = SubSeq(@, 1, n - 1) \o SubSeq(@, n + 1, Len(@))])
  BY DEF DropIndex
<1>2. /\ catalog = [exists |-> catalog.exists, count |-> catalog.count,
                    index |-> catalog.index]
      /\ catalog.index \in Seq(Index) /\ NoDup(catalog.index)
      /\ Indexed = Elems(catalog.index)
  BY CatalogFields DEF Typed
<1> DEFINE s == catalog.index
           t == SubSeq(s, 1, n - 1) \o SubSeq(s, n + 1, Len(s))
<1>3. NoDup(t) /\ Elems(t) = Elems(s) \ {i}
  <2>1. /\ t \in Seq(Index) /\ Len(t) = Len(s) - 1
        /\ \A k \in 1 .. Len(s) - 1 : t[k] = IF k < n THEN s[k] ELSE s[k + 1]
    BY <1>2, CutOut
  <2> HIDE DEF t
  <2> QED BY <1>1, <1>2, <2>1, RemoveOne
<1>4. /\ catalog' = [catalog EXCEPT !.index = t] /\ catalog.exists
      /\ pc = "idle" /\ pc' = "discard" /\ files' = <<i>>
      /\ UNCHANGED <<store, statement, harm>>
  BY <1>1 DEF Drop, Save
<1> HIDE DEF t
<1>5. catalog' = [exists |-> catalog.exists, count |-> catalog.count, index |-> t]
  BY <1>2, <1>4
<1>6. Indexed' = Elems(t)
  BY <1>5 DEF Indexed, Elems
<1>7. ListedFiles' = {i}
  <2>1. Len(files') = 1 /\ files'[1] = i
    BY <1>4
  <2> QED BY <2>1 DEF ListedFiles
<1> QED BY <1>2, <1>3, <1>4, <1>5, <1>6, <1>7

LEMMA CreateIndexEffect ==
  ASSUME Typed, NEW i \in Index, CreateIndex(i)
  PROVE  /\ catalog.exists /\ catalog'.exists /\ pc = "idle" /\ pc' = "build"
         /\ i \notin Indexed /\ Indexed' = Indexed \cup {i} /\ Building(i)'
         /\ catalog'.count = catalog.count
         /\ harm \subseteq harm' /\ UNCHANGED store
<1>1. /\ catalog = [exists |-> catalog.exists, count |-> catalog.count,
                    index |-> catalog.index]
      /\ catalog.index \in Seq(Index) /\ NoDup(catalog.index)
      /\ Indexed = Elems(catalog.index)
  BY CatalogFields DEF Typed
<1> DEFINE t == Append(catalog.index, i)
<1>2. /\ catalog' = [catalog EXCEPT !.index = t] /\ catalog.exists
      /\ pc = "idle" /\ pc' = "build" /\ files' = <<i>> /\ i \notin Indexed
      /\ harm \subseteq harm' /\ UNCHANGED store
  BY DEF CreateIndex, Usable, Save
<1>3. Elems(t) = Elems(catalog.index) \cup {i}
  BY <1>1, <1>2, AppendOne
<1> HIDE DEF t
<1>4. catalog' = [exists |-> catalog.exists, count |-> catalog.count, index |-> t]
  BY <1>1, <1>2
<1>5. Indexed' = Elems(t)
  BY <1>4 DEF Indexed, Elems
<1>6. Building(i)'
  BY <1>2 DEF Building
<1> QED BY <1>1, <1>2, <1>3, <1>4, <1>5, <1>6

LEMMA RowsDoneEffect ==
  ASSUME Typed, RowsDone
  PROVE  /\ catalog.exists /\ catalog'.exists /\ Indexed' = Indexed
         /\ pc = "rows" /\ pc' = "flush" /\ todo = << >>
         /\ catalog'.count = IF statement.kind = "update" THEN catalog.count ELSE Counted
         /\ files' = <<Table>> \o catalog.index
         /\ UNCHANGED <<store, harm>>
<1>1. catalog = [exists |-> catalog.exists, count |-> catalog.count,
                 index |-> catalog.index]
  BY CatalogFields DEF Typed
<1>2. /\ pc = "rows" /\ pc' = "flush" /\ todo = << >> /\ catalog.exists
      /\ files' = <<Table>> \o catalog.index
      /\ UNCHANGED <<store, harm>>
  BY DEF RowsDone, Typed, StatementOK
<1>3. CASE statement.kind = "update"
  <2>1. catalog' = catalog
    BY <1>3 DEF RowsDone, SameCatalog
  <2> QED BY <1>2, <1>3, <2>1 DEF Indexed
<1>4. CASE statement.kind # "update"
  <2> DEFINE n == Counted
  <2>1. catalog' = [catalog EXCEPT !.count = n]
    BY <1>4 DEF RowsDone, Save
  <2> HIDE DEF n
  <2>2. catalog' = [exists |-> catalog.exists, count |-> n, index |-> catalog.index]
    BY <1>1, <2>1
  <2>3. Indexed' = Indexed
    BY <2>2 DEF Indexed
  <2> QED BY <1>2, <1>4, <2>2, <2>3 DEF n
<1> QED BY <1>3, <1>4

(* But for CREATE TABLE, nothing takes harm away; an index that is in use  *)
(* after a step was in use before it, or the step has built it.            *)
LEMMA IndexStep ==
  ASSUME Typed, [Next]_vars, catalog'.exists, ~CreateTable
  PROVE  /\ catalog.exists /\ harm \subseteq harm'
         /\ \A i \in Indexed' : ~Building(i)' /\ "cut" \notin harm' =>
              i \in Indexed /\ (~Building(i) \/ BuildIndex)
<1>1. CatalogOK /\ StatementOK
  BY DEF Typed
<1>2. /\ Indexed = Elems(catalog.index) /\ Indexed \subseteq Index
      /\ ~catalog.exists => Indexed = {}
  BY <1>1, CatalogFields
<1>3. CASE UNCHANGED vars \/ SaveDone \/ OpenRaises
  BY <1>3 DEF vars, SaveDone, OpenRaises, Indexed, Building
<1>4. CASE \E f \in File : WriteBack(f)
  BY <1>4 DEF WriteBack, SameCatalog, Indexed, Building
<1>5. CASE \E used \in {{}} \cup {{i} : i \in Indexed} : Select(used)
  BY <1>5 DEF Select, SameCatalog, Indexed, Building
<1>6. ASSUME NEW kind, NEW changes, Begin(kind, changes)
      PROVE  UNCHANGED <<catalog, harm>> /\ pc # "build"
  BY <1>6 DEF Begin, Usable, SameCatalog
<1>7. CASE \E v \in Values : Insert(<<v>>) \/ \E w \in Values : Insert(<<v, w>>)
  BY <1>6, <1>7 DEF Insert, Indexed, Building
<1>8. CASE \E P \in Predicate : Delete(P) \/ \E v \in Values : Update(P, v)
  BY <1>6, <1>8 DEF Delete, Update, Indexed, Building
<1>9. CASE ChangeRow \/ FlushNext \/ CreateFile \/ DiscardNext \/ Close \/ SetIndexStats
  <2>1. UNCHANGED catalog /\ harm \subseteq harm' /\ pc # "build"
    BY <1>9 DEF ChangeRow, RowChanged, FlushNext, CreateFile, DiscardNext, Close, SetIndexStats,
         Save, SameCatalog, Raise, Return, End
  <2> QED BY <2>1 DEF Indexed, Building
<1>10. CASE Open
  <2>1. UNCHANGED <<catalog, harm>> /\ pc # "build"
    BY <1>1, <1>10 DEF Open, CatalogOK
  <2> QED BY <2>1 DEF Indexed, Building
<1>11. CASE BuildIndex
  <2>1. UNCHANGED catalog /\ harm \subseteq harm'
    BY <1>11 DEF BuildIndex, SameCatalog, Raise, End
  <2> QED BY <1>11, <2>1 DEF Indexed
<1>12. CASE Kill
  <2>1. UNCHANGED catalog /\ harm \subseteq harm' /\ (pc = "idle" \/ "cut" \in harm')
    BY <1>12 DEF Kill, SameCatalog
  <2> QED BY <2>1 DEF Indexed, Building
<1>13. CASE RowsDone
  BY <1>13, RowsDoneEffect DEF Building
<1>14. CASE DropTable
  BY <1>14 DEF DropTable, Drop, Save, NoTable
<1>15. CASE \E i \in Index : DropIndex(i)
  BY <1>15, DropIndexEffect DEF Building
<1>16. CASE \E i \in Index : CreateIndex(i)
  BY <1>16, CreateIndexEffect DEF Building
<1> QED BY <1>3, <1>4, <1>5, <1>7, <1>8, <1>9, <1>10, <1>11, <1>12, <1>13, <1>14, <1>15,
           <1>16 DEF Next, Statement

LEMMA CreateTableEffect ==
  ASSUME Typed, CreateTable
  PROVE  /\ catalog'.exists /\ catalog'.count = 0 /\ Indexed' = {}
         /\ pc' = "create" /\ Rows' = Rows /\ UNCHANGED store
         /\ \A f \in File : store[f].mem = Closed
         /\ harm' = {} => Rows = NoRows
<1>1. /\ ~catalog.exists /\ UNCHANGED store /\ pc = "idle" /\ pc' = "create"
      /\ catalog' = [NoTable EXCEPT !.exists = TRUE]
      /\ harm' = IF Recovered(store[Table]) \in {Missing, NoRows} THEN {}
                 ELSE {"leftover"}
  BY DEF CreateTable, Save
<1>2. catalog'.exists /\ catalog'.count = 0 /\ catalog'.index = << >>
  BY <1>1 DEF NoTable
<1>3. Indexed' = {}
  BY <1>2 DEF Indexed
<1>4. Indexed = {}
  BY <1>1, CatalogFields DEF Typed
<1>5. \A f \in File : store[f].mem = Closed
  BY <1>1, <1>4 DEF Typed, UnusedClosed, Unused
<1>6. harm' = {} => Rows = NoRows
  <2>1. Table \in File
    BY DEF File
  <2> QED BY <1>1, <1>5, <2>1 DEF Rows, View, Seen, Start
<1>7. Rows' = Rows
  BY <1>1 DEF Rows, View
<1> QED BY <1>1, <1>2, <1>3, <1>5, <1>6, <1>7

LEMMA DroppedStep ==
  ASSUME Typed, Dropped, [Next]_vars
  PROVE  Dropped'
<1>1. CASE pc' # "discard"
  BY <1>1 DEF Dropped
<1>2. CASE UNCHANGED <<pc, catalog, files>>
  BY <1>2 DEF Dropped, ListedFiles, Unused, Indexed
<1>3. CASE \E i \in Index : DropIndex(i)
  <2>1. PICK i \in Index : DropIndex(i)
    BY <1>3
  <2>2. Indexed' = Indexed \ {i} /\ ListedFiles' = {i} /\ i # Table
    BY <2>1, DropIndexEffect, DatabaseAssumption
  <2> QED BY <2>2 DEF Dropped, Unused
<1>4. CASE DropTable
  <2>1. catalog' = NoTable
    BY <1>4 DEF DropTable, Drop, Save
  <2>2. ~catalog'.exists /\ Indexed' = {}
    BY <2>1 DEF NoTable, Indexed
  <2> QED BY <2>2 DEF Dropped, Unused
<1>5. CASE DiscardNext /\ pc' = "discard"
  <2>1. /\ pc = "discard" /\ UNCHANGED catalog /\ files' = Tail(files)
        /\ Len(files) # 1
    BY <1>5 DEF DiscardNext, SameCatalog, Return, End
  <2>2. \A f \in ListedFiles' : f \in ListedFiles
    BY <2>1, StatementFields DEF ListedFiles, Elems
  <2> QED BY <2>1, <2>2 DEF Dropped, Unused, Indexed
<1>6. CASE UNCHANGED vars \/ SaveDone \/ OpenRaises
  BY <1>2, <1>6 DEF vars, SaveDone, OpenRaises
<1>7. CASE \E f \in File : WriteBack(f)
  BY <1>2, <1>7 DEF WriteBack, SameCatalog
<1>8. CASE \E used \in {{}} \cup {{i} : i \in Indexed} : Select(used)
  BY <1>2, <1>8 DEF Select, SameCatalog
<1>9. ASSUME NEW kind, NEW changes, Begin(kind, changes)
      PROVE  pc' # "discard"
  BY <1>9 DEF Begin
<1>10. CASE \E v \in Values : Insert(<<v>>) \/ \E w \in Values : Insert(<<v, w>>)
  BY <1>1, <1>9, <1>10 DEF Insert
<1>11. CASE \E P \in Predicate : Delete(P) \/ \E v \in Values : Update(P, v)
  BY <1>1, <1>9, <1>11 DEF Delete, Update
<1>12. CASE \/ ChangeRow \/ FlushNext \/ CreateFile \/ Close \/ SetIndexStats \/ Kill
            \/ Open \/ BuildIndex \/ RowsDone \/ CreateTable
            \/ \E i \in Index : CreateIndex(i)
  BY <1>1, <1>12 DEF ChangeRow, RowChanged, FlushNext, CreateFile, Close, SetIndexStats, Kill, Open,
       BuildIndex, RowsDone, CreateTable, CreateIndex, Raise, Return, End
<1> QED BY <1>1, <1>3, <1>4, <1>5, <1>6, <1>7, <1>8, <1>10, <1>11, <1>12
        DEF Next, Statement
(* A new index is given the entries of the rows.                           *)
LEMMA BuildIndexEffect ==
  ASSUME Typed, BuildIndex, "leftover" \notin harm
  PROVE  /\ pc = "build" /\ pc' # "build" /\ UNCHANGED catalog
         /\ Rows' = Rows
         /\ pc' # "flush" => "failed" \in harm'
         /\ pc' = "flush" => Opens(Table) /\ UNCHANGED <<files, harm>>
         /\ \E i \in Indexed :
              /\ files = <<i>> /\ \A j : Building(j) <=> j = i
              /\ View(i)' = SetToBag(PairsOf(Rows)) /\ Made(store[i])'
              /\ \A f \in File \ {i} :
                   store'[f] = IF f = Table THEN Opened(f, store[f]) ELSE store[f]
<1>1. pc = "build" /\ UNCHANGED catalog /\ StoreOK
  BY DEF BuildIndex, SameCatalog, Typed
<1>2. PICK i \in Indexed :
             /\ files = <<i>> /\ store[i].mem = Closed
             /\ Recovered(store[i]) \in {Missing, EmptyBag}
  BY <1>1 DEF Typed, BuildOK
<1>3. /\ i \in File /\ i # Table /\ Head(files) = i
      /\ \A j : Building(j) <=> j = i
  BY <1>1, <1>2, DatabaseAssumption
     DEF Typed, CatalogOK, CatalogFile, Indexed, File, Building
<1> DEFINE x == Opened(i, store[i])
           S == {<<Rows[s], s>> : s \in Live}
           open == OpenFiles({Table})
<1>4. FileOK(i, x) /\ FileOK(i, store[i]) /\ Made(x)
  BY <1>1, <1>3, OpenedOK DEF StoreOK
<1>5. x.mem = EmptyBag /\ x.mem # Closed /\ EmptyBag \in Contents(i)
  <2>1. Start(i) = EmptyBag /\ Start(i) \in Contents(i)
    BY <1>3, StartType DEF Start
  <2>2. CASE Recovered(store[i]) = Missing
    BY <1>2, <1>3, <2>1, <2>2, CreatedOK, Sentinels DEF Opened
  <2>3. CASE Recovered(store[i]) = EmptyBag
    BY <1>2, <1>3, <2>1, <2>3, Sentinels DEF Opened
  <2> QED BY <1>2, <2>2, <2>3
<1>6. S = PairsOf(Rows) /\ S \in SUBSET Entry
  BY TableRows, LiveRows DEF PairsOf, Typed
<1>7. /\ open = [f \in File |-> open[f]]
      /\ \A f \in File :
           open[f] = IF f = Table THEN Opened(f, store[f]) ELSE store[f]
  BY DEF OpenFiles
<1>8. Seen(Table, open[Table]) = Rows /\ Table \in File
  BY <1>1, <1>7, OpenedOK DEF StoreOK, Rows, View, File
<1>9. ASSUME NEW y, store' = [open EXCEPT ![i] = y]
      PROVE  /\ Rows' = Rows /\ View(i)' = Seen(i, y) /\ store'[i] = y
             /\ \A f \in File \ {i} :
                  store'[f] = IF f = Table THEN Opened(f, store[f]) ELSE store[f]
  <2> HIDE DEF open
  <2>1. /\ store'[i] = y /\ \A f \in File \ {i} : store'[f] = open[f]
    BY <1>3, <1>7, <1>9
  <2> QED BY <1>3, <1>7, <1>8, <2>1 DEF Rows, View
<1>10. CASE ~Opens(Table)
  <2>1. /\ store' = [open EXCEPT ![i] = x] /\ Raise(TRUE)
    BY <1>3, <1>10 DEF BuildIndex
  <2>2. Rows = NoRows
    BY <1>10 DEF Rows, View, Seen, Opens, CanOpen, Start
  <2>3. PairsOf(Rows) = {}
    BY <2>2 DEF PairsOf, LiveIn, NoRows
  <2> HIDE DEF x
  <2>4. Seen(i, x) = SetToBag(PairsOf(Rows))
    <3>1. Seen(i, x) = EmptyBag
      BY ONLY <1>3, <1>4, <1>5, SeenType
    <3>2. EmptyBag = SetToBag({})
      BY DEF EmptyBag
    <3> QED BY <2>3, <3>1, <3>2
  <2>5. View(i)' = SetToBag(PairsOf(Rows)) /\ Made(store[i])'
    BY <1>4, <1>9, <2>1, <2>4
  <2>6. pc' = "idle" /\ "failed" \in harm'
    BY <2>1 DEF Raise, End
  <2> HIDE DEF open
  <2> QED BY <1>1, <1>2, <1>3, <1>9, <2>1, <2>5, <2>6
<1>11. CASE Opens(Table)
  <2> DEFINE m == x.mem (+) SetToBag(S)
             y == [x EXCEPT !.mem = m]
  <2>1. /\ store' = [open EXCEPT ![i] = y] /\ pc' = "flush"
        /\ UNCHANGED <<files, harm>>
    BY <1>3, <1>5, <1>11 DEF BuildIndex
  <2>2. m = SetToBag(PairsOf(Rows))
    BY <1>5, <1>6, AddToEmpty
  <2>3. m \in Contents(i)
    BY <1>3, <1>6, <2>2, SetToBagType DEF Contents
  <2> HIDE DEF m, x
  <2>4. Seen(i, y) = m /\ Made(y)
    BY <1>3, <1>4, <1>5, <2>3, NewValue
  <2> HIDE DEF y, open
  <2>5. View(i)' = SetToBag(PairsOf(Rows)) /\ Made(store[i])'
    BY <1>9, <2>1, <2>2, <2>4
  <2> QED BY <1>1, <1>2, <1>3, <1>9, <1>11, <2>1, <2>5
<1> QED BY <1>10, <1>11

(* But for a row change, a step that does no more than fail leaves every   *)
(* row and every view, and a new index has the entries of the rows.        *)
LEMMA ViewStep ==
  ASSUME Typed, Dropped, [Next]_vars, catalog'.exists, harm' \subseteq {"failed"},
         ~CreateTable, ~ChangeRow
  PROVE  /\ Rows' = Rows
         /\ \A i \in Indexed' : ~Building(i)' =>
              \/ i \in Indexed /\ ~Building(i) /\ View(i)' = View(i)
              \/ Building(i) /\ View(i)' = SetToBag(PairsOf(Rows))
<1>1. /\ catalog.exists /\ harm \subseteq {"failed"}
      /\ \A i \in Indexed' : ~Building(i)' =>
           i \in Indexed /\ (~Building(i) \/ BuildIndex)
  BY IndexStep
<1>2. Table \in File /\ Indexed \subseteq File \ {Table} /\ StoreOK /\ CatalogOK
  BY CatalogFields DEF File, Typed
<1>3. CASE \A f \in {Table} \cup Indexed : View(f)' = View(f)
  <2>1. View(Table)' = View(Table)
    BY <1>3
  <2>2. Rows' = Rows
    BY <2>1 DEF Rows
  <2>3. CASE ~BuildIndex
    BY <1>1, <1>3, <2>2, <2>3
  <2>4. CASE BuildIndex
    BY <1>1, <1>3, <2>2, <2>4, BuildIndexEffect
  <2> QED BY <2>3, <2>4
<1>4. CASE ~DiscardNext /\ ~BuildIndex /\ ~Kill
  <2>1. \A f \in File : View(f)' = View(f)
    BY <1>4, StoreStep
  <2> QED BY <1>2, <1>3, <2>1
<1>5. CASE DiscardNext
  <2>1. pc = "discard" /\ store' = [store EXCEPT ![Head(files)] = Discarded(@)]
    BY <1>5 DEF DiscardNext
  <2>2. Unused(Head(files)) /\ Head(files) \in File
    BY <2>1, StatementFields DEF Dropped
  <2>3. \A f \in {Table} \cup Indexed : store'[f] = store[f]
    BY <1>1, <1>2, <2>1, <2>2, UsedFiles DEF StoreOK
  <2>4. \A f \in {Table} \cup Indexed : View(f)' = View(f)
    BY <2>3 DEF View
  <2> QED BY <1>3, <2>4
<1>6. CASE Kill
  <2>1. ~Dirty /\ \A f \in File : store'[f] = [store[f] EXCEPT !.mem = Closed]
    <3>1. "cut" \notin harm'
      OBVIOUS
    <3> QED BY <1>6, <3>1 DEF Kill
  <2>2. ASSUME NEW f \in File PROVE View(f)' = View(f)
    <3>1. IsClean(store[f]) /\ FileOK(f, store[f])
      BY <1>2, <2>1 DEF Dirty, IsClean, StoreOK
    <3> DEFINE x == store[f]
               y == store'[f]
    <3>2. f \in File /\ FileOK(f, x) /\ IsClean(x) /\ y = [x EXCEPT !.mem = Closed]
      BY <2>1, <3>1
    <3> HIDE DEF x, y
    <3>3. Seen(f, y) = Seen(f, x)
      BY ONLY <3>2, KilledOK
    <3> QED BY <3>3 DEF View, x, y
  <2> QED BY <1>2, <1>3, <2>2
<1>7. CASE BuildIndex
  <2>1. "leftover" \notin harm
    BY <1>1
  <2>2. PICK i \in Indexed :
               /\ \A j : Building(j) <=> j = i
               /\ View(i)' = SetToBag(PairsOf(Rows))
               /\ \A f \in File \ {i} :
                   store'[f] = IF f = Table THEN Opened(f, store[f]) ELSE store[f]
    BY <1>7, <2>1, BuildIndexEffect
  <2>3. Rows' = Rows
    BY <1>7, <2>1, BuildIndexEffect
  <2>4. \A j \in Indexed \ {i} : View(j)' = View(j)
    BY <1>2, <2>2 DEF View
  <2> QED BY <1>1, <2>2, <2>3, <2>4
<1> QED BY <1>4, <1>5, <1>6, <1>7

(* Every index follows a row change, those of lost without finding the     *)
(* entry that is to be deleted.                                            *)
AllFollow(lost, change, added) ==
  /\ \A i \in Indexed :
       /\ Made(store'[i])
       /\ View(i)' = (View(i) (-) SetToBag(Found(i, change.gone, lost)))
                    (+) SetToBag(added)
  /\ missed' = [i \in Index |->
                  IF i \in lost THEN missed[i] (+) SetToBag(change.gone)
                  ELSE missed[i]]

(* A row change reaches every index, as long as they can all be read.      *)
LEMMA IndexesFollow ==
  ASSUME Typed, ChangeRow, \A i \in Indexed : View(i) \in EntryBags,
         NEW change, change = Head(todo),
         NEW left, left = Without(store[Table].mem, change.gone),
         NEW added, added = NewEntries(change, left),
         NEW rows, rows = With(left, added)
  PROVE  /\ pc = "rows" /\ todo # << >> /\ UNCHANGED catalog
         /\ Bad \in change.new =>
              /\ Rows' = left /\ Raise(left # statement.before)
              /\ \A i \in Indexed : store'[i] = store[i]
              /\ UNCHANGED missed
         /\ Bad \notin change.new =>
              /\ Rows' = rows
              /\ todo' = Tail(todo) /\ UNCHANGED <<pc, files, statement, harm>>
<1>0. /\ change = Head(todo)
      /\ left = Without(store[Table].mem, change.gone)
      /\ added = NewEntries(change, left)
      /\ rows = With(left, added)
  OBVIOUS
<1>1. pc = "rows" /\ todo # << >> /\ UNCHANGED catalog
  BY DEF ChangeRow, SameCatalog
<1>2. \A i \in Indexed : i \in File \ {Table} /\ FileOK(i, store[i])
  BY CatalogFields DEF Typed, StoreOK
<1>3. ASSUME NEW i \in Indexed PROVE Opens(i)
  <2>1. View(i) # Unreadable
    BY <1>2, Sentinels DEF Contents
  <2> QED BY <1>2, <2>1, SeenType DEF View, Opens
<1>4. \A i \in Indexed : Reached(i)
  BY <1>3 DEF Reached, Indexed
<1>5. CASE Bad \in change.new
  BY <1>1, <1>2, <1>5, ChangeRowEffect
<1>6. CASE Bad \notin change.new
  <2>1. Rows' = rows
    BY ONLY <1>0, <1>6, Typed, ChangeRow, ChangeRowEffect
  <2>2. todo' = Tail(todo) /\ UNCHANGED <<pc, files, statement, harm>>
    BY <1>3, <1>6 DEF ChangeRow, RowChanged
  <2> QED BY <1>1, <1>6, <2>1, <2>2
<1> QED BY <1>5, <1>6

(* It finds the entry of the old row in all but some of them.              *)
LEMMA IndexesMiss ==
  ASSUME Typed, ChangeRow, \A i \in Indexed : View(i) \in EntryBags,
         NEW change, change = Head(todo),
         NEW left, left = Without(store[Table].mem, change.gone),
         NEW added, added = NewEntries(change, left),
         NEW rows, rows = With(left, added),
         Bad \notin change.new
  PROVE  \E lost \in SUBSET Index : AllFollow(lost, change, added)
<1>0. /\ change = Head(todo)
      /\ left = Without(store[Table].mem, change.gone)
      /\ added = NewEntries(change, left)
      /\ rows = With(left, added)
      /\ Bad \notin change.new
  OBVIOUS
<1>1. pc = "rows" /\ todo # << >>
  BY DEF ChangeRow
<1>2. \A i \in Indexed : i \in File \ {Table} /\ FileOK(i, store[i])
  BY CatalogFields DEF Typed, StoreOK
<1>3. ASSUME NEW i \in Indexed PROVE Opens(i)
  <2>1. View(i) # Unreadable
    BY <1>2, Sentinels DEF Contents
  <2> QED BY <1>2, <2>1, SeenType DEF View, Opens
<1>4. \A i \in Indexed : Reached(i)
  BY <1>3 DEF Reached, Indexed
<1>5. PICK lost \in SUBSET MayMiss(change) : Follow(lost, change, added)
  BY ONLY <1>0, Typed, ChangeRow, ChangeRowFollows
<1>6. change.gone \in SUBSET Entry /\ added \in SUBSET Entry
  BY ONLY <1>0, <1>1, Typed, NewRows
<1>7. ASSUME NEW i \in Indexed
      PROVE  /\ Made(store'[i])
             /\ View(i)' = (View(i) (-) SetToBag(Found(i, change.gone, lost)))
                          (+) SetToBag(added)
  <2>1. i \in File /\ i # Table /\ Opens(i) /\ FileOK(i, store[i])
    BY <1>2, <1>3
  <2> DEFINE gone == Found(i, change.gone, lost)
             y == Reindexed(i, gone, added)
  <2>2. store'[i] = y
    BY <1>4, <1>5, <2>1 DEF Follow
  <2>3. gone \in SUBSET Entry
    BY <1>6 DEF Found
  <2> HIDE DEF gone
  <2>4. /\ Made(y)
        /\ Seen(i, y) = (View(i) (-) SetToBag(gone)) (+) SetToBag(added)
    BY <1>6, <2>1, <2>3, ReindexedOK
  <2> QED BY <2>2, <2>4 DEF View, gone
<1>8. lost \in SUBSET Index
  BY DatabaseAssumption DEF MayMiss
<1>9. AllFollow(lost, change, added)
  BY <1>5, <1>7 DEF Follow, AllFollow
<1> QED BY <1>8, <1>9

-----------------------------------------------------------------------------
(* What deletes have missed.                                               *)

(* A step that is none of CREATE INDEX, DROP INDEX and DROP TABLE leaves   *)
(* the indexes that are in use; only CREATE INDEX starts to build one.     *)
LEMMA IndexedStep ==
  ASSUME Typed, [Next]_vars
  PROVE  \/ /\ Indexed' = Indexed /\ \A i : Building(i)' => Building(i)
            /\ UNCHANGED missed \/ ChangeRow
         \/ DropTable \/ \E i \in Index : DropIndex(i) \/ CreateIndex(i)
<1>1. CatalogOK /\ StatementOK
  BY DEF Typed
<1>2. CASE UNCHANGED <<catalog, pc, files, missed>>
  BY <1>2 DEF Indexed, Building
<1>3. ASSUME NEW kind, NEW changes, Begin(kind, changes)
      PROVE  UNCHANGED <<catalog, missed>> /\ pc' # "build"
  BY <1>3 DEF Begin, SameCatalog
<1>4. CASE \E v \in Values : Insert(<<v>>) \/ \E w \in Values : Insert(<<v, w>>)
  BY <1>3, <1>4 DEF Insert, Indexed, Building
<1>5. CASE \E P \in Predicate : Delete(P) \/ \E v \in Values : Update(P, v)
  BY <1>3, <1>5 DEF Delete, Update, Indexed, Building
<1>8. CASE CreateTable
  <2>1. Indexed = {}
    BY <1>1, <1>8, CatalogFields DEF CreateTable
  <2>2. UNCHANGED missed
    BY <1>8 DEF CreateTable
  <2> QED BY <1>8, <2>1, <2>2, CreateTableEffect DEF Building
<1>9. CASE RowsDone
  <2>1. UNCHANGED missed
    BY <1>9 DEF RowsDone
  <2> QED BY <1>9, <2>1, RowsDoneEffect DEF Building
<1>10. CASE UNCHANGED vars \/ SaveDone \/ OpenRaises
  BY <1>2, <1>10 DEF vars, SaveDone, OpenRaises
<1>11. CASE \E f \in File : WriteBack(f)
  BY <1>2, <1>11 DEF WriteBack, SameCatalog
<1>12. CASE \E used \in {{}} \cup {{i} : i \in Indexed} : Select(used)
  BY <1>2, <1>12 DEF Select, SameCatalog
<1>13. CASE FlushNext \/ SetIndexStats \/ CreateFile \/ DiscardNext \/ BuildIndex
            \/ Close \/ Kill \/ Open \/ ChangeRow
  <2>1. UNCHANGED catalog
    BY <1>1, <1>13 DEF FlushNext, SetIndexStats, CreateFile, DiscardNext, BuildIndex, Close,
         Kill, Open, ChangeRow, CatalogOK, Save, SameCatalog
  <2>2. pc' # "build"
    BY <1>13 DEF FlushNext, SetIndexStats, CreateFile, DiscardNext, BuildIndex, Close,
         Kill, Open, ChangeRow, RowChanged, Return, Raise, End
  <2>3. UNCHANGED missed \/ ChangeRow
    BY <1>13 DEF FlushNext, SetIndexStats, CreateFile, DiscardNext, BuildIndex, Close,
         Kill, Open
  <2> QED BY <2>1, <2>2, <2>3 DEF Indexed, Building
<1> QED BY <1>4, <1>5, <1>8, <1>9, <1>10, <1>11, <1>12, <1>13
        DEF Next, Statement

LEMMA MissedStep ==
  ASSUME Typed, MissedOK, [Next]_vars
  PROVE  MissedOK'
<1>1. CASE ~ChangeRow
  <2>1. CASE UNCHANGED missed /\ Indexed' = Indexed /\ \A i : Building(i)' => Building(i)
    BY <2>1 DEF MissedOK
  <2>2. CASE \E i \in Index : CreateIndex(i)
    <3>1. PICK i \in Index : CreateIndex(i)
      BY <2>2
    <3>2. /\ i \notin Indexed /\ Indexed' = Indexed \cup {i}
          /\ \A j : Building(j)' => j = i
      BY <3>1, CreateIndexEffect DEF Building
    <3>3. missed[i] = EmptyBag /\ UNCHANGED missed
      BY <3>1, <3>2 DEF MissedOK, CreateIndex
    <3> QED BY <3>2, <3>3 DEF MissedOK
  <2>3. CASE \E i \in Index : DropIndex(i)
    <3>1. PICK i \in Index : DropIndex(i)
      BY <2>3
    <3>2. Indexed' = Indexed \ {i} /\ \A j : ~Building(j)'
      BY <3>1, DropIndexEffect DEF Building
    <3>3. missed' = [j \in Index |-> IF \E n \in DOMAIN <<i>> : <<i>>[n] = j
                                    THEN EmptyBag ELSE missed[j]]
      BY <3>1 DEF DropIndex, Drop
    <3>4. \A j : (\E n \in DOMAIN <<i>> : <<i>>[n] = j) <=> j = i
      OBVIOUS
    <3>5. missed' = [j \in Index |-> IF j = i THEN EmptyBag ELSE missed[j]]
      BY <3>3, <3>4
    <3> QED BY <3>2, <3>5, EmptyBagType DEF MissedOK
  <2>4. CASE DropTable
    <3> DEFINE discarded == <<Table>> \o catalog.index
    <3>1. catalog' = NoTable /\ pc' = "discard"
      BY <2>4 DEF DropTable, Drop, Save
    <3>2. Indexed' = {} /\ \A j : ~Building(j)'
      BY <3>1 DEF Indexed, NoTable, Building
    <3>3. missed' = [i \in Index |-> IF \E n \in DOMAIN discarded : discarded[n] = i
                                    THEN EmptyBag ELSE missed[i]]
      BY <2>4 DEF DropTable, Drop
    <3>4. ASSUME NEW i \in Indexed PROVE \E n \in DOMAIN discarded : discarded[n] = i
      <4>1. PICK n \in 1 .. Len(catalog.index) : catalog.index[n] = i
        BY DEF Indexed
      <4>2. catalog.index \in Seq(File) /\ <<Table>> \in Seq(File)
        BY CatalogFields DEF Typed, File
      <4>3. /\ discarded \in Seq(File) /\ Len(discarded) = 1 + Len(catalog.index)
            /\ \A m \in 1 .. 1 + Len(catalog.index) :
                 discarded[m] = IF m <= 1 THEN <<Table>>[m] ELSE catalog.index[m - 1]
        BY <4>2, ConcatProperties
      <4> HIDE DEF discarded
      <4>4. DOMAIN discarded = 1 .. 1 + Len(catalog.index) /\ Len(catalog.index) \in Nat
        BY <4>2, <4>3
      <4>5. n + 1 \in DOMAIN discarded
        BY <4>1, <4>4
      <4>6. discarded[n + 1] = catalog.index[n]
        BY <4>1, <4>3, <4>4
      <4> QED BY <4>1, <4>5, <4>6
    <3> HIDE DEF discarded
    <3>5. \A i \in Index : missed'[i] = EmptyBag
      BY <3>3, <3>4 DEF MissedOK
    <3>6. missed' \in [Index -> EntryBags]
      BY <3>3, <3>5, EmptyBagType
    <3> QED BY <3>2, <3>5, <3>6 DEF MissedOK
  <2> QED BY <1>1, <2>1, <2>2, <2>3, <2>4, IndexedStep
<1>2. CASE ChangeRow
  <2> DEFINE change == Head(todo)
             left == Without(store[Table].mem, change.gone)
             added == NewEntries(change, left)
             rows == With(left, added)
  <2>1. /\ change = Head(todo)
        /\ left = Without(store[Table].mem, change.gone)
        /\ added = NewEntries(change, left)
        /\ rows = With(left, added)
    OBVIOUS
  <2>2. pc = "rows" /\ todo # << >> /\ UNCHANGED catalog
    BY <1>2 DEF ChangeRow, SameCatalog
  <2>3. /\ Indexed' = Indexed /\ \A i : ~Building(i)'
    <3>1. pc' # "build"
      BY <1>2, <2>2 DEF ChangeRow, RowChanged, Raise, End
    <3> QED BY <2>2, <3>1 DEF Indexed, Building
  <2> HIDE DEF change, left, added, rows
  <2>4. CASE Bad \in change.new
    <3>1. UNCHANGED missed
      BY ONLY <1>2, <2>1, <2>4, Typed, ChangeRowEffect
    <3> QED BY <2>3, <3>1 DEF MissedOK
  <2>5. CASE Bad \notin change.new
    <3>0. PICK ch, lf, ad, rw : ch = change /\ lf = left /\ ad = added /\ rw = rows
      OBVIOUS
    <3>5. \E lost \in SUBSET MayMiss(ch) : Follow(lost, ch, ad)
      <4>1. /\ ch = Head(todo)
            /\ lf = Without(store[Table].mem, ch.gone)
            /\ ad = NewEntries(ch, lf)
            /\ rw = With(lf, ad)
            /\ Bad \notin ch.new
        BY <2>1, <2>5, <3>0
      <4> QED BY ONLY <1>2, <4>1, Typed, ChangeRowFollows
    <3>1. PICK lost \in SUBSET MayMiss(ch) : Follow(lost, ch, ad)
      BY <3>5
    <3>2. change.gone \in SUBSET Entry
      BY ONLY <2>1, <2>2, <2>5, Typed, NewRows
    <3>3. \A i \in Index : missed[i] (+) SetToBag(change.gone) \in EntryBags
      BY <3>2, AddEntries DEF MissedOK
    <3>4. lost \subseteq Tree \cap Indexed
      BY DEF MayMiss, Reached, Indexed
    <3>6. missed' = [i \in Index |->
                    IF i \in lost THEN missed[i] (+) SetToBag(change.gone)
                    ELSE missed[i]]
      BY <3>0, <3>1 DEF Follow
    <3> QED BY <2>3, <3>3, <3>4, <3>6 DEF MissedOK
  <2> QED BY <2>4, <2>5
<1> QED BY <1>1, <1>2

-----------------------------------------------------------------------------
(* No index hides a row.                                                   *)

LEMMA CoveredStep ==
  ASSUME Typed, Dropped, Covered, [Next]_vars
  PROVE  Covered'
<1>1. SUFFICES ASSUME catalog'.exists, harm' \subseteq {"failed"}
               PROVE  \A i \in Indexed' : ~Building(i)' =>
                        View(i)' \in EntryBags /\ PairsOf(Rows)' \subseteq DOMAIN View(i)'
  BY DEF Covered
<1>2. CASE CreateTable
  BY <1>2, CreateTableEffect
<1>3. ASSUME ~CreateTable
      PROVE  /\ \A i \in Indexed : ~Building(i) =>
                  View(i) \in EntryBags /\ PairsOf(Rows) \subseteq DOMAIN View(i)
             /\ \A i \in Indexed' : ~Building(i)' =>
                  i \in Indexed /\ (~Building(i) \/ BuildIndex)
  BY <1>1, <1>3, IndexStep DEF Covered
<1>4. PairsOf(Rows) \in SUBSET Entry
  BY TableRows, LiveRows
<1>5. CASE ~CreateTable /\ ~ChangeRow
  <2>1. /\ Rows' = Rows
        /\ \A i \in Indexed' : ~Building(i)' =>
             \/ i \in Indexed /\ ~Building(i) /\ View(i)' = View(i)
             \/ View(i)' = SetToBag(PairsOf(Rows))
    BY <1>1, <1>5, ViewStep
  <2>2. PairsOf(Rows)' = PairsOf(Rows)
    BY <2>1 DEF PairsOf, LiveIn
  <2>3. /\ SetToBag(PairsOf(Rows)) \in EntryBags
        /\ DOMAIN SetToBag(PairsOf(Rows)) = PairsOf(Rows)
    BY <1>4, SetToBagType
  <2> QED BY <1>3, <1>5, <2>1, <2>2, <2>3
<1>6. CASE ChangeRow
  <2> DEFINE change == Head(todo)
             left == Without(store[Table].mem, change.gone)
             added == NewEntries(change, left)
             rows == With(left, added)
  <2>1. /\ change = Head(todo)
        /\ left = Without(store[Table].mem, change.gone)
        /\ added = NewEntries(change, left)
        /\ rows = With(left, added)
    OBVIOUS
  <2>2. pc = "rows" /\ todo # << >> /\ UNCHANGED catalog
    BY <1>6 DEF ChangeRow, SameCatalog
  <2>3. /\ ~CreateTable /\ Indexed' = Indexed /\ \A i : ~Building(i)
    BY <2>2 DEF CreateTable, Indexed, Building
  <2>4. \A i \in Indexed :
          View(i) \in EntryBags /\ PairsOf(Rows) \subseteq DOMAIN View(i)
    BY <1>3, <2>3
  <2> HIDE DEF change, left, added, rows
  <2>5. CASE Bad \in change.new
    <3>1. Rows' = left /\ \A i \in Indexed : store'[i] = store[i]
      BY <1>6, <2>1, <2>4, <2>5, IndexesFollow
    <3>2. PairsOf(left) \subseteq PairsOf(Rows)
      <4>1. Rows \in TableContents /\ store[Table].mem = Rows
        BY <2>2, TableRows
      <4>2. CASE statement.kind = "insert"
        BY <2>1, <2>2, <4>2, HeadChange
      <4>3. CASE statement.kind # "insert"
        <5>1. PICK s \in Slot : Rows[s] # Free /\ change.gone = {<<Rows[s], s>>}
          BY <2>1, <2>2, <4>3, HeadChange
        <5>2. PICK e : e = <<Rows[s], s>>
          OBVIOUS
        <5>3. left = Without(Rows, {e})
          BY <2>1, <4>1, <5>1, <5>2
        <5> QED BY ONLY <4>1, <5>1, <5>2, <5>3, WithoutOne
      <4> QED BY <4>2, <4>3
    <3>3. PairsOf(Rows)' = PairsOf(left)
      BY <3>1 DEF PairsOf, LiveIn
    <3>4. \A i \in Indexed : View(i)' = View(i)
      BY <3>1 DEF View
    <3> QED BY <2>3, <2>4, <3>2, <3>3, <3>4
  <2>6. CASE Bad \notin change.new
    <3>0. Rows' = rows
      BY ONLY <1>6, <2>1, <2>4, <2>6, Typed, IndexesFollow
    <3>8. PICK ch, lf, ad, rw : ch = change /\ lf = left /\ ad = added /\ rw = rows
      OBVIOUS
    <3>9. \E lost \in SUBSET Index : AllFollow(lost, ch, ad)
      <4>1. /\ ch = Head(todo)
            /\ lf = Without(store[Table].mem, ch.gone)
            /\ ad = NewEntries(ch, lf)
            /\ rw = With(lf, ad)
            /\ Bad \notin ch.new
        BY <2>1, <2>6, <3>8
      <4> QED BY ONLY <1>6, <2>4, <4>1, Typed, IndexesMiss
    <3>10. PICK lost \in SUBSET Index : AllFollow(lost, ch, ad)
      BY <3>9
    <3>1. /\ \A i \in Indexed :
            /\ Made(store'[i])
            /\ View(i)' = (View(i) (-) SetToBag(Found(i, change.gone, lost)))
                         (+) SetToBag(added)
      /\ missed' = [i \in Index |->
                       IF i \in lost THEN missed[i] (+) SetToBag(change.gone)
                       ELSE missed[i]]
      BY <3>8, <3>10 DEF AllFollow
    <3>2. /\ change.gone \in SUBSET Entry /\ added \in SUBSET Entry
          /\ PairsOf(rows) = (PairsOf(Rows) \ change.gone) \cup added
      <4>1. /\ pc = "rows" /\ todo # << >> /\ Bad \notin change.new
            /\ change = Head(todo)
            /\ left = Without(store[Table].mem, change.gone)
            /\ added = NewEntries(change, left)
            /\ rows = With(left, added)
        BY <2>1, <2>2, <2>6
      <4>2. change.gone \in SUBSET Entry /\ added \in SUBSET Entry
        BY ONLY <4>1, Typed, NewRows
      <4>3. PairsOf(rows) = (PairsOf(Rows) \ change.gone) \cup added
        <5>1. ASSUME NEW e
              PROVE  e \in PairsOf(rows) <=>
                       (e \in PairsOf(Rows) /\ e \notin change.gone) \/ e \in added
          BY ONLY <4>1, Typed, NewRows
        <5> QED BY ONLY <5>1
      <4> QED BY <4>2, <4>3
    <3>3. PairsOf(Rows)' = PairsOf(rows)
      BY <3>0 DEF PairsOf, LiveIn
    <3>4. ASSUME NEW i \in Indexed
          PROVE  View(i)' \in EntryBags /\ PairsOf(rows) \subseteq DOMAIN View(i)'
      <4> DEFINE A == View(i)
                 B == View(i)'
                 gone == Found(i, change.gone, lost)
      <4>1. /\ A \in EntryBags /\ PairsOf(Rows) \subseteq DOMAIN A
            /\ B = (A (-) SetToBag(gone)) (+) SetToBag(added)
            /\ gone \subseteq change.gone
        BY <2>4, <3>1 DEF Found
      <4> HIDE DEF A, B, gone
      <4>2. B \in EntryBags /\ (DOMAIN A \ gone) \cup added \subseteq DOMAIN B
        BY <3>2, <4>1, ReplaceEntries
      <4>3. PairsOf(rows) \subseteq DOMAIN B
        BY <3>2, <4>1, <4>2
      <4> QED BY <4>2, <4>3 DEF B
    <3> QED BY <2>3, <3>3, <3>4
  <2> QED BY <2>5, <2>6
<1> QED BY <1>2, <1>5, <1>6

Safe == Typed /\ Dropped /\ MissedOK /\ Covered

LEMMA SafeAlways == Spec => []Safe
<1>1. Init => Safe
  <2>1. Init => Dropped
    BY DEF Init, Dropped
  <2>2. Init => Covered
    BY DEF Init, Covered, NoTable
  <2>3. Init => MissedOK
    BY EmptyBagType DEF Init, MissedOK, Building
  <2> QED BY <2>1, <2>2, <2>3, TypedInit DEF Safe
<1>2. Safe /\ [Next]_vars => Safe'
  BY TypedNext, DroppedStep, MissedStep, CoveredStep DEF Safe
<1> QED BY <1>1, <1>2, PTL DEF Spec

(* TypeOK: the catalog, the files with their logs, and the place in the    *)
(* current statement have the values that the code gives them; Catalog     *)
(* lists an index once, and the count stays in its range.                  *)
THEOREM DatabaseType == Spec => []TypeOK
<1>1. Safe => TypeOK
  <2> SUFFICES ASSUME Safe PROVE TypeOK
    OBVIOUS
  <2>0. Typed /\ MissedOK
    BY DEF Safe
  <2>1. /\ catalog.exists \in BOOLEAN /\ catalog.count \in 0 .. MaxCount
        /\ Indexed \subseteq Index /\ (~catalog.exists => catalog = NoTable)
        /\ Len(catalog.index) = Cardinality(Indexed)
        /\ saved \in {catalog, Torn}
    BY <2>0, CatalogFields, IndexCount DEF Typed, CatalogOK
  <2>2. DOMAIN store = File /\ Rows \in [Slot -> Key \cup {Free}]
    BY <2>0, TableRows DEF Typed, StoreOK, TableContents
  <2>3. ASSUME NEW i \in Index, Readable(i) PROVE BagToSet(View(i)) \subseteq Entry
    <3>1. i \in File /\ i # Table /\ FileOK(i, store[i])
      BY <2>0, DatabaseAssumption DEF Typed, StoreOK, File
    <3>2. View(i) \in EntryBags
      BY <2>3, <3>1, SeenType DEF View, Contents, Readable
    <3> QED BY <3>2, BagFields DEF BagToSet
  <2>4. /\ DOMAIN missed = Index
        /\ \A i \in Index : missed[i] # EmptyBag =>
             i \in Tree /\ BagToSet(missed[i]) \subseteq Entry
    <3>1. \A i \in Index : missed[i] \in EntryBags
      BY <2>0 DEF MissedOK
    <3> QED BY <2>0, <3>1, BagFields DEF MissedOK, BagToSet
  <2> QED BY <2>0, <2>1, <2>2, <2>3, <2>4 DEF TypeOK, Typed, StatementOK
<1> QED BY <1>1, SafeAlways, PTL

(* NoRowHidden: a statement that raises in its middle may leave entries of *)
(* rows that are gone (_update and _insert undo nothing), but every        *)
(* index always has an entry for every row of the table.                   *)
THEOREM EveryRowIndexed == Spec => []NoRowHidden
<1>1. Safe => NoRowHidden
  <2>1. SUFFICES ASSUME Safe, catalog.exists, pc \in {"idle", "down"},
                        harm \subseteq {"failed"}, NEW i \in Indexed, NEW s \in Live
                 PROVE  Copies(i, Rows[s], s) > 0
    BY DEF NoRowHidden
  <2>2. ~Building(i)
    BY <2>1 DEF Building
  <2>3. View(i) \in EntryBags /\ PairsOf(Rows) \subseteq DOMAIN View(i)
    BY <2>1, <2>2 DEF Safe, Covered
  <2>4. <<Rows[s], s>> \in PairsOf(Rows)
    BY DEF PairsOf, LiveIn, Live
  <2>5. <<Rows[s], s>> \in DOMAIN View(i)
    BY <2>3, <2>4
  <2>6. View(i)[<<Rows[s], s>>] > 0
    BY <2>3, <2>5, BagFields
  <2> QED BY <2>5, <2>6 DEF Copies, BagToSet
<1> QED BY <1>1, SafeAlways, PTL
-----------------------------------------------------------------------------
(* Indexes, count and rows agree as long as nothing befell the table.      *)

(* Without a failure, a statement that raises has changed no row yet.      *)
LEMMA RaisesUnchanged ==
  ASSUME Typed, ChangeRow, Bad \in Head(todo).new,
         Without(store[Table].mem, Head(todo).gone) = statement.before
  PROVE  /\ Without(store[Table].mem, Head(todo).gone) = Rows
         /\ statement.kind = "insert"
<1> DEFINE change == Head(todo)
           left == Without(store[Table].mem, change.gone)
<1>1. pc = "rows" /\ todo # << >>
  BY DEF ChangeRow
<1>2. /\ change = Head(todo) /\ left = Without(store[Table].mem, change.gone)
      /\ left = statement.before
  OBVIOUS
<1>3. Rows \in TableContents /\ store[Table].mem = Rows
  BY <1>1, TableRows
<1> HIDE DEF change, left
<1>4. CASE statement.kind = "insert"
  <2>1. left = Rows
    BY <1>1, <1>2, <1>4, HeadChange
  <2> QED BY <1>4, <2>1 DEF left, change
<1>5. CASE statement.kind # "insert"
  <2>1. PICK s \in Slot : /\ Rows[s] # Free /\ statement.before[s] # Free
                          /\ change.gone = {<<Rows[s], s>>}
    BY <1>1, <1>2, <1>5, HeadChange
  <2>2. PICK e : e = <<Rows[s], s>>
    OBVIOUS
  <2>3. left = Without(Rows, {e}) /\ s \in Slot
    BY <1>2, <1>3, <2>1, <2>2
  <2>4. left[s] = Free
    BY ONLY <1>3, <2>1, <2>2, <2>3, WithoutOne
  <2> QED BY <1>2, <2>1, <2>4
<1> QED BY <1>4, <1>5

LEMMA MatchedViews ==
  ASSUME Typed, MissedOK, Matched, catalog.exists, harm = {},
         NEW i \in Indexed, ~Building(i)
  PROVE  /\ i \in Index /\ missed[i] \in EntryBags /\ View(i) \in EntryBags
         /\ View(i) = SetToBag(PairsOf(Rows)) (+) missed[i]
<1>1. i \in Index /\ missed[i] \in EntryBags
  BY CatalogFields DEF Typed, MissedOK
<1>2. SetToBag(PairsOf(Rows)) \in EntryBags
  BY TableRows, LiveRows, SetToBagType
<1>3. View(i) = SetToBag(PairsOf(Rows)) (+) missed[i]
  BY DEF Matched
<1> QED BY <1>1, <1>2, <1>3, SumCopies

(* What a row change does to a table that nothing befell.                  *)
LEMMA UnharmedChange ==
  ASSUME Typed, MissedOK, Matched, ChangeRow, catalog.exists, harm' = {}
  PROVE  /\ pc = "rows" /\ todo # << >> /\ UNCHANGED catalog /\ harm = {}
         /\ \A i \in Indexed : View(i)' = SetToBag(PairsOf(Rows)') (+) missed'[i]
         /\ \/ /\ pc' = "idle" /\ Rows' = Rows /\ Rows = statement.before
               /\ statement.kind = "insert" /\ store' = store
            \/ /\ todo' = Tail(todo) /\ UNCHANGED <<pc, files, statement>>
               /\ \A i \in Indexed : Made(store'[i])
               /\ Cardinality(Live') =
                    CASE statement.kind = "insert" -> Cardinality(Live) + 1
                      [] statement.kind = "update" -> Cardinality(Live)
                      [] statement.kind = "delete" -> Cardinality(Live) - 1
<1> DEFINE change == Head(todo)
           left == Without(store[Table].mem, change.gone)
           added == NewEntries(change, left)
           rows == With(left, added)
<1>1. /\ change = Head(todo)
      /\ left = Without(store[Table].mem, change.gone)
      /\ added = NewEntries(change, left)
      /\ rows = With(left, added)
  OBVIOUS
<1>2. pc = "rows" /\ todo # << >> /\ UNCHANGED catalog /\ harm = {}
  BY DEF ChangeRow, RowChanged, SameCatalog, Raise
<1>3. PairsOf(Rows) \in SUBSET Entry
  BY TableRows, LiveRows
<1>4. \A i \in Indexed :
        /\ i \in Index /\ missed[i] \in EntryBags /\ View(i) \in EntryBags
        /\ View(i) = SetToBag(PairsOf(Rows)) (+) missed[i]
  BY <1>2, MatchedViews DEF Building
<1>5. \A i \in Indexed : View(i) \in EntryBags
  BY <1>4
<1>6. (Bad \in change.new /\ left = statement.before) =>
        left = Rows /\ statement.kind = "insert"
  BY RaisesUnchanged
<1> HIDE DEF change, left, added, rows
<1>7. CASE Bad \in change.new
  <2>1. /\ Rows' = left /\ Raise(left # statement.before)
        /\ \A i \in Indexed : store'[i] = store[i]
        /\ UNCHANGED missed
    BY <1>1, <1>5, <1>7, IndexesFollow
  <2>2. left = statement.before /\ pc' = "idle"
    BY <2>1 DEF Raise, End
  <2>3. Rows' = Rows /\ Rows = statement.before /\ statement.kind = "insert"
    BY <1>6, <1>7, <2>1, <2>2
  <2>4. \A i \in Indexed : View(i)' = View(i)
    BY <2>1 DEF View
  <2>5. PairsOf(Rows)' = PairsOf(Rows)
    BY <2>3 DEF PairsOf, LiveIn
  <2>6. store' = store
    <3>1. store' = [store EXCEPT ![Table].mem = left]
      BY <1>1, <1>7 DEF ChangeRow, RowChanged
    <3>2. store[Table].mem = left /\ FileOK(Table, store[Table]) /\ Table \in File
      BY <1>2, <2>1, <2>3, TableRows DEF Typed, StoreOK, File
    <3>3. [store[Table] EXCEPT !.mem = left] = store[Table]
      BY <3>2 DEF FileOK, FileValue
    <3>4. store = [f \in File |-> store[f]]
      BY DEF Typed, StoreOK
    <3> QED BY <3>1, <3>2, <3>3, <3>4
  <2> QED BY <1>2, <1>4, <2>1, <2>2, <2>3, <2>4, <2>5, <2>6
<1>8. CASE Bad \notin change.new
  <2>1. /\ Rows' = rows
        /\ todo' = Tail(todo) /\ UNCHANGED <<pc, files, statement, harm>>
    BY ONLY <1>1, <1>5, <1>8, Typed, ChangeRow, IndexesFollow
  <2>11. PICK ch, lf, ad, rw : ch = change /\ lf = left /\ ad = added /\ rw = rows
    OBVIOUS
  <2>12. \E lost \in SUBSET Index : AllFollow(lost, ch, ad)
    <3>1. /\ ch = Head(todo)
          /\ lf = Without(store[Table].mem, ch.gone)
          /\ ad = NewEntries(ch, lf)
          /\ rw = With(lf, ad)
          /\ Bad \notin ch.new
      BY <1>1, <1>8, <2>11
    <3> QED BY ONLY <1>5, <3>1, Typed, ChangeRow, IndexesMiss
  <2>13. PICK lost \in SUBSET Index : AllFollow(lost, ch, ad)
    BY <2>12
  <2>10. /\ \A i \in Indexed :
          /\ Made(store'[i])
          /\ View(i)' = (View(i) (-) SetToBag(Found(i, change.gone, lost)))
                       (+) SetToBag(added)
    /\ missed' = [i \in Index |->
                     IF i \in lost THEN missed[i] (+) SetToBag(change.gone)
                     ELSE missed[i]]
    BY <2>11, <2>13 DEF AllFollow
  <2>2. /\ change.gone \in SUBSET PairsOf(Rows) /\ added \in SUBSET Entry
        /\ added \cap (PairsOf(Rows) \ change.gone) = {}
    <3>1. change.gone \subseteq PairsOf(Rows)
      <4>1. CASE statement.kind = "insert"
        BY <1>1, <1>2, <4>1, HeadChange
      <4>2. CASE statement.kind # "insert"
        <5>1. \E s \in Slot : Rows[s] # Free /\ change.gone = {<<Rows[s], s>>}
          BY <1>1, <1>2, <4>2, HeadChange
        <5> QED BY <5>1 DEF PairsOf, LiveIn
      <4> QED BY <4>1, <4>2
    <3>2. /\ added \in SUBSET Entry
          /\ added \cap (PairsOf(Rows) \ change.gone) = {}
      BY ONLY <1>1, <1>2, <1>8, Typed, NewRows
    <3> QED BY <3>1, <3>2
  <2>3. PairsOf(rows) = (PairsOf(Rows) \ change.gone) \cup added
    <3>1. ASSUME NEW e
          PROVE  e \in PairsOf(rows) <=>
                   (e \in PairsOf(Rows) /\ e \notin change.gone) \/ e \in added
      <4>1. /\ pc = "rows" /\ todo # << >> /\ Bad \notin change.new
            /\ change = Head(todo)
            /\ left = Without(store[Table].mem, change.gone)
            /\ added = NewEntries(change, left)
            /\ rows = With(left, added)
        BY <1>1, <1>2, <1>8
      <4> QED BY ONLY <4>1, Typed, NewRows
    <3> QED BY ONLY <3>1
  <2>4. /\ statement.kind = "insert" =>
             Cardinality(LiveIn(rows)) = Cardinality(Live) + 1
        /\ statement.kind = "update" =>
             Cardinality(LiveIn(rows)) = Cardinality(Live)
        /\ statement.kind = "delete" =>
             Cardinality(LiveIn(rows)) = Cardinality(Live) - 1
    BY ONLY <1>1, <1>2, <1>8, Typed, NewRows
  <2>5. statement.kind \in {"insert", "update", "delete"}
    BY <1>2 DEF Typed, RowsOK
  <2>6. Live' = LiveIn(rows) /\ PairsOf(Rows)' = PairsOf(rows)
    BY <2>1 DEF Live, LiveIn, PairsOf
  <2>7. ASSUME NEW i \in Indexed
        PROVE  View(i)' = SetToBag(PairsOf(rows)) (+) missed'[i]
    <3>1. /\ (View(i) (-) SetToBag(change.gone)) (+) SetToBag(added) =
               SetToBag(PairsOf(rows)) (+) missed[i]
          /\ (View(i) (-) SetToBag({})) (+) SetToBag(added) =
               SetToBag(PairsOf(rows)) (+) (missed[i] (+) SetToBag(change.gone))
      BY ONLY <1>3, <1>4, <2>2, <2>3, i \in Indexed, ReplaceBesides
    <3>2. CASE i \in lost
      BY <1>4, <2>10, <3>1, <3>2 DEF Found
    <3>3. CASE i \notin lost
      BY <1>4, <2>10, <3>1, <3>3 DEF Found
    <3> QED BY <3>2, <3>3
  <2>8. \A i \in Indexed : View(i)' = SetToBag(PairsOf(Rows)') (+) missed'[i]
    BY ONLY <2>6, <2>7
  <2>9. Cardinality(Live') =
                    CASE statement.kind = "insert" -> Cardinality(Live) + 1
                      [] statement.kind = "update" -> Cardinality(Live)
                      [] statement.kind = "delete" -> Cardinality(Live) - 1
    BY <2>4, <2>5, <2>6
  <2> QED BY <1>2, <2>1, <2>8, <2>9, <2>10
<1> QED BY <1>7, <1>8

LEMMA MatchedStep ==
  ASSUME Typed, Dropped, MissedOK, Matched, [Next]_vars
  PROVE  Matched'
<1>1. SUFFICES ASSUME catalog'.exists, harm' = {}
               PROVE  \A i \in Indexed' : ~Building(i)' =>
                        View(i)' = SetToBag(PairsOf(Rows)') (+) missed'[i]
  BY DEF Matched
<1>2. CASE CreateTable
  BY <1>2, CreateTableEffect
<1>3. CASE ~CreateTable
  <2>1. catalog.exists /\ harm = {}
    BY <1>1, <1>3, IndexStep
  <2>2. CASE ChangeRow
    <3>1. /\ UNCHANGED catalog
          /\ \A i \in Indexed : View(i)' = SetToBag(PairsOf(Rows)') (+) missed'[i]
      BY <1>1, <2>1, <2>2, UnharmedChange
    <3> QED BY <3>1 DEF Indexed
  <2>3. CASE ~ChangeRow
    <3>1. /\ Rows' = Rows
          /\ \A i \in Indexed' : ~Building(i)' =>
               \/ i \in Indexed /\ ~Building(i) /\ View(i)' = View(i)
               \/ Building(i) /\ View(i)' = SetToBag(PairsOf(Rows))
      BY <1>1, <1>3, <2>3, ViewStep
    <3>2. PairsOf(Rows)' = PairsOf(Rows) /\ PairsOf(Rows) \in SUBSET Entry
      BY <3>1, TableRows, LiveRows DEF PairsOf, LiveIn
    <3>3. \A i \in Indexed' : i \in Index /\ missed'[i] = missed[i]
      <4>1. CatalogOK'
        BY TypedNext DEF Typed
      <4>2. Indexed' \subseteq Index
        BY <4>1 DEF CatalogOK, CatalogFile, Indexed
      <4>3. \A i \in Indexed' : missed'[i] = missed[i]
        <5>1. CASE UNCHANGED missed
          BY <5>1
        <5>2. CASE \E i \in Index : CreateIndex(i)
          BY <5>2 DEF CreateIndex
        <5>3. CASE \E i \in Index : DropIndex(i)
          <6>1. PICK j \in Index : DropIndex(j)
            BY <5>3
          <6>2. Indexed' = Indexed \ {j}
            BY <6>1, DropIndexEffect
          <6>3. missed' = [i \in Index |-> IF \E n \in DOMAIN <<j>> : <<j>>[n] = i
                                          THEN EmptyBag ELSE missed[i]]
            BY <6>1 DEF DropIndex, Drop
          <6> QED BY <4>2, <6>2, <6>3
        <5>4. ~DropTable
          BY <1>1 DEF DropTable, Drop, Save, NoTable
        <5> QED BY <2>3, <5>1, <5>2, <5>3, <5>4, IndexedStep
      <4> QED BY <4>2, <4>3
    <3>4. ASSUME NEW i \in Indexed', ~Building(i)'
          PROVE  View(i)' = SetToBag(PairsOf(Rows)) (+) missed'[i]
      <4>1. CASE i \in Indexed /\ ~Building(i) /\ View(i)' = View(i)
        BY <2>1, <3>3, <4>1 DEF Matched
      <4>2. CASE Building(i) /\ View(i)' = SetToBag(PairsOf(Rows))
        <5>1. missed'[i] = EmptyBag
          BY <3>3, <4>2 DEF MissedOK
        <5> QED BY <3>2, <4>2, <5>1, NothingBesides
      <4> QED BY <3>1, <3>4, <4>1, <4>2
    <3> QED BY <3>2, <3>4
  <2> QED BY <2>2, <2>3
<1> QED BY <1>2, <1>3
LEMMA CountsStep ==
  ASSUME Typed, Dropped, MissedOK, Matched, Counts, [Next]_vars
  PROVE  Counts'
<1>1. SUFFICES ASSUME catalog'.exists, harm' = {} PROVE Counts'
  BY DEF Counts
<1>2. CASE CreateTable
  <2>1. /\ catalog'.count = 0 /\ Rows' = NoRows /\ pc' = "create"
    BY <1>1, <1>2, CreateTableEffect
  <2>2. Live' = {}
    BY <2>1 DEF Live, NoRows
  <2> QED BY <2>1, <2>2, FS_EmptySet DEF Counts
<1>3. ASSUME ~CreateTable
      PROVE  catalog.exists /\ harm = {}
  BY <1>1, <1>3, IndexStep
<1>4. /\ CatalogOK /\ StatementOK /\ RowsOK
      /\ catalog.count \in Nat
  BY CatalogFields DEF Typed
<1>5. /\ Cardinality(Live) \in Nat /\ statement.rows \in Nat
  BY <1>4, SlotSets DEF Live, StatementOK
<1>6. ASSUME ~CreateTable, ~ChangeRow PROVE Rows' = Rows /\ Live' = Live
  <2>1. Rows' = Rows
    BY <1>1, <1>6, ViewStep
  <2> QED BY <2>1 DEF Live
<1>7. ASSUME ~CreateTable, ~ChangeRow, pc # "rows", pc' # "rows",
             catalog'.count = catalog.count
      PROVE  Counts'
  BY <1>3, <1>6, <1>7 DEF Counts
<1>8. CASE UNCHANGED <<catalog, pc, todo, statement>> /\ ~CreateTable /\ ~ChangeRow
  <2>1. /\ Live' = Live /\ Rows' = Rows
    BY <1>6, <1>8
  <2> QED BY <1>3, <1>8, <2>1 DEF Counts, LiveIn
<1>9. CASE ChangeRow
  <2>1. ~CreateTable
    BY <1>9 DEF ChangeRow, CreateTable
  <2>2. /\ pc = "rows" /\ todo # << >> /\ UNCHANGED catalog
        /\ \/ /\ pc' = "idle" /\ Rows' = Rows /\ Rows = statement.before
           \/ /\ todo' = Tail(todo) /\ UNCHANGED <<pc, files, statement>>
              /\ Cardinality(Live') =
                    CASE statement.kind = "insert" -> Cardinality(Live) + 1
                      [] statement.kind = "update" -> Cardinality(Live)
                      [] statement.kind = "delete" -> Cardinality(Live) - 1
    BY <1>1, <1>3, <1>9, <2>1, UnharmedChange
  <2>3. /\ catalog.count = Cardinality(LiveIn(statement.before))
        /\ statement.kind = "insert" =>
             Cardinality(Live) + Len(todo) = catalog.count + statement.rows
        /\ statement.kind = "update" => Cardinality(Live) = catalog.count
        /\ statement.kind = "delete" =>
             Cardinality(Live) + statement.rows = catalog.count + Len(todo)
        /\ statement.kind \in {"insert", "update", "delete"}
    BY <1>3, <1>4, <2>1, <2>2 DEF Counts, RowsOK
  <2>4. CASE pc' = "idle" /\ Rows' = Rows /\ Rows = statement.before
    <3>1. Live' = LiveIn(statement.before)
      BY <2>4 DEF Live, LiveIn
    <3> QED BY <2>2, <2>3, <2>4, <3>1 DEF Counts
  <2>5. CASE /\ todo' = Tail(todo) /\ UNCHANGED <<pc, files, statement>>
             /\ Cardinality(Live') =
                    CASE statement.kind = "insert" -> Cardinality(Live) + 1
                      [] statement.kind = "update" -> Cardinality(Live)
                      [] statement.kind = "delete" -> Cardinality(Live) - 1
    <3>1. Len(todo) \in Nat /\ Len(todo') = Len(todo) - 1
      BY <1>4, <2>2, <2>5, TodoSeq DEF RowsOK
    <3> DEFINE m == Cardinality(Live)
               n == Cardinality(Live')
    <3>2. /\ catalog'.count = Cardinality(LiveIn(statement'.before)) /\ pc' = "rows"
          /\ statement' = statement /\ catalog' = catalog
      BY <2>2, <2>3, <2>5
    <3>3. CASE statement.kind = "insert"
      <4>1. n = m + 1 /\ m + Len(todo) = catalog.count + statement.rows
        BY <2>3, <2>5, <3>3
      <4> HIDE DEF m, n
      <4>2. n + Len(todo') = catalog.count + statement.rows
        BY <1>5, <3>1, <4>1 DEF m
      <4> QED BY <3>2, <3>3, <4>2 DEF Counts, n
    <3>4. CASE statement.kind = "update"
      <4>1. n = catalog.count
        BY <2>3, <2>5, <3>4
      <4> QED BY <3>2, <3>4, <4>1 DEF Counts
    <3>5. CASE statement.kind = "delete"
      <4>1. n = m - 1 /\ m + statement.rows = catalog.count + Len(todo)
        BY <2>3, <2>5, <3>5
      <4> HIDE DEF m, n
      <4>2. n + statement.rows = catalog.count + Len(todo')
        BY <1>4, <1>5, <3>1, <4>1 DEF m
      <4> QED BY <3>2, <3>5, <4>2 DEF Counts, n
    <3> QED BY <2>3, <3>3, <3>4, <3>5
  <2> QED BY <2>2, <2>4, <2>5
<1>10. CASE RowsDone
  <2>1. ~CreateTable /\ ~ChangeRow
    BY <1>10 DEF RowsDone, CreateTable, ChangeRow
  <2>2. /\ pc = "rows" /\ pc' = "flush" /\ todo = << >> /\ Len(todo) = 0
        /\ catalog'.count = IF statement.kind = "update" THEN catalog.count ELSE Counted
    BY <1>10, RowsDoneEffect
  <2>3. /\ statement.kind = "insert" =>
             Cardinality(Live) + 0 = catalog.count + statement.rows
        /\ statement.kind = "update" => Cardinality(Live) = catalog.count
        /\ statement.kind = "delete" =>
             Cardinality(Live) + statement.rows = catalog.count + 0
        /\ statement.kind \in {"insert", "update", "delete"}
    BY <1>3, <1>4, <2>1, <2>2 DEF Counts, RowsOK
  <2>4. catalog'.count = Cardinality(Live)
    <3>1. CASE statement.kind = "insert"
      BY <1>4, <1>5, <2>2, <2>3, <3>1 DEF Counted
    <3>2. CASE statement.kind = "update"
      BY <2>2, <2>3, <3>2
    <3>3. CASE statement.kind = "delete"
      <4>1. catalog'.count = AtLeast0(catalog.count - statement.rows)
        BY <2>2, <3>3 DEF Counted
      <4>2. catalog.count - statement.rows = Cardinality(Live)
        BY <1>4, <1>5, <2>3, <3>3
      <4> QED BY <1>5, <4>1, <4>2 DEF AtLeast0
    <3> QED BY <2>3, <3>1, <3>2, <3>3
  <2>5. Live' = Live
    BY <1>6, <2>1
  <2> QED BY <2>2, <2>4, <2>5 DEF Counts
<1>11. ASSUME NEW kind \in {"insert", "update", "delete"}, NEW changes,
              Begin(kind, changes), Len(changes) \in Nat
       PROVE  Counts'
  <2>1. /\ Rows' = Rows /\ Live' = Live /\ pc' = "rows" /\ UNCHANGED catalog
        /\ todo' = changes /\ statement'.kind = kind
        /\ statement'.rows = Len(changes) /\ statement'.before = Rows
        /\ catalog.exists /\ harm = {} /\ pc = "idle"
    BY <1>1, <1>11, BeginRows
  <2>2. catalog.count = Cardinality(Live) /\ Live = LiveIn(Rows)
    BY <2>1 DEF Counts, LiveIn, Live
  <2>3. CASE kind = "insert"
    BY <1>4, <1>11, <2>1, <2>2, <2>3 DEF Counts
  <2>4. CASE kind = "update"
    BY <2>1, <2>2, <2>4 DEF Counts
  <2>5. CASE kind = "delete"
    BY <1>4, <1>11, <2>1, <2>2, <2>5 DEF Counts
  <2> QED BY <2>3, <2>4, <2>5
<1>12. CASE \E v \in Values : Insert(<<v>>) \/ \E w \in Values : Insert(<<v, w>>)
  <2>1. ASSUME NEW values \in Seq(Values), Insert(values)
        PROVE  Counts'
    <3> DEFINE changes == [n \in 1 .. Len(values) |-> Insertion(values[n])]
    <3>1. Begin("insert", changes) /\ Len(changes) \in Nat
      BY <2>1 DEF Insert
    <3> HIDE DEF changes
    <3> QED BY <1>11, <3>1
  <2>2. \A v, w \in Values : <<v>> \in Seq(Values) /\ <<v, w>> \in Seq(Values)
    OBVIOUS
  <2> QED BY <1>12, <2>1, <2>2
<1>13. CASE \E P \in Predicate : Delete(P) \/ \E v \in Values : Update(P, v)
  <2>1. ASSUME NEW P, NEW order \in InSlotOrder(Matches(P)), NEW new
        PROVE  Len(Change(order, new)) \in Nat
    <3>1. Matches(P) \in SUBSET Slot
      BY DEF Matches
    <3> QED BY <3>1, OrderLength
  <2> QED BY <1>11, <1>13, <2>1 DEF Delete, Update
<1>14. CASE UNCHANGED vars \/ SaveDone \/ OpenRaises
  BY <1>2, <1>8, <1>9, <1>14 DEF vars, SaveDone, OpenRaises
<1>15. CASE \E f \in File : WriteBack(f)
  BY <1>2, <1>8, <1>9, <1>15 DEF WriteBack, SameCatalog
<1>16. CASE \E used \in {{}} \cup {{i} : i \in Indexed} : Select(used)
  BY <1>2, <1>8, <1>9, <1>16 DEF Select, SameCatalog
<1>17. CASE FlushNext \/ SetIndexStats \/ CreateFile \/ DiscardNext \/ BuildIndex
            \/ Close
  <2>1. UNCHANGED catalog /\ pc # "rows" /\ pc' # "rows"
    BY <1>17 DEF FlushNext, SetIndexStats, CreateFile, DiscardNext, BuildIndex, Close,
         Save, SameCatalog, Raise, Return, End
  <2> QED BY <1>2, <1>7, <1>9, <2>1
<1>18. CASE Open
  <2>1. UNCHANGED catalog /\ pc # "rows" /\ pc' # "rows"
    BY <1>4, <1>18 DEF Open, CatalogOK
  <2> QED BY <1>2, <1>7, <1>9, <2>1
<1>19. CASE Kill
  <2>1. UNCHANGED catalog /\ pc # "rows" /\ pc' # "rows"
    BY <1>1, <1>19 DEF Kill, SameCatalog
  <2> QED BY <1>2, <1>7, <1>9, <2>1
<1>20. CASE \E i \in Index : DropIndex(i) \/ CreateIndex(i)
  <2>1. PICK i \in Index : DropIndex(i) \/ CreateIndex(i)
    BY <1>20
  <2>2. catalog'.count = catalog.count /\ pc # "rows" /\ pc' # "rows"
    BY <2>1, DropIndexEffect, CreateIndexEffect
  <2> QED BY <1>2, <1>7, <1>9, <2>2
<1>21. CASE DropTable
  BY <1>1, <1>21 DEF DropTable, Drop, Save, NoTable
<1> QED BY <1>2, <1>9, <1>10, <1>12, <1>13, <1>14, <1>15, <1>16, <1>17, <1>18, <1>19,
           <1>20, <1>21 DEF Next, Statement

Unharmed == Matched /\ Counts

LEMMA UnharmedAlways == Spec => []Unharmed
<1>1. Init => Unharmed
  BY DEF Init, Unharmed, Matched, Counts, NoTable
<1>2. Safe /\ Safe' /\ Unharmed /\ [Next]_vars => Unharmed'
  BY MatchedStep, CountsStep DEF Safe, Unharmed
<1> QED BY <1>1, <1>2, SafeAlways, PTL DEF Spec

(* Agreement: through every sequence of statements that returned, restarts *)
(* and kills between them, each index has one entry for every row and      *)
(* besides exactly those that a delete did not find (there are none in a   *)
(* hash index, by TypeOK), and the catalog's row count is the number of    *)
(* the rows.                                                               *)
THEOREM IndexesAgree == Spec => []Agreement
<1>1. Unharmed => Agreement
  <2>1. SUFFICES ASSUME Unharmed, catalog.exists, pc \in {"idle", "down"}, harm = {}
                 PROVE  /\ catalog.count = Cardinality(Live)
                        /\ \A i \in Indexed :
                             View(i) = SetToBag({<<Rows[s], s>> : s \in Live})
                                         (+) missed[i]
    BY DEF Agreement
  <2>2. PairsOf(Rows) = {<<Rows[s], s>> : s \in Live}
    BY DEF PairsOf, LiveIn, Live
  <2> QED BY <2>1, <2>2 DEF Unharmed, Matched, Counts, Building
<1> QED BY <1>1, UnharmedAlways, PTL
-----------------------------------------------------------------------------
(* What a statement that returned has changed is in the files.             *)

LEMMA HarmGrows ==
  ASSUME Typed, [Next]_vars, ~CreateTable
  PROVE  harm \subseteq harm'
<1>1. CASE UNCHANGED vars \/ SaveDone \/ OpenRaises \/ Open \/ Kill
  BY <1>1 DEF vars, SaveDone, OpenRaises, Open, Kill
<1>2. CASE \E f \in File : WriteBack(f)
  BY <1>2 DEF WriteBack
<1>3. CASE \E used \in {{}} \cup {{i} : i \in Indexed} : Select(used)
  BY <1>3 DEF Select
<1>4. ASSUME NEW kind, NEW changes, Begin(kind, changes) PROVE harm \subseteq harm'
  BY <1>4 DEF Begin
<1>5. CASE \E v \in Values : Insert(<<v>>) \/ \E w \in Values : Insert(<<v, w>>)
  BY <1>4, <1>5 DEF Insert
<1>6. CASE \E P \in Predicate : Delete(P) \/ \E v \in Values : Update(P, v)
  BY <1>4, <1>6 DEF Delete, Update
<1>7. CASE ChangeRow \/ FlushNext \/ CreateFile \/ DiscardNext \/ Close \/ SetIndexStats
           \/ BuildIndex \/ RowsDone \/ DropTable
  BY <1>7 DEF ChangeRow, RowChanged, FlushNext, CreateFile, DiscardNext, Close, SetIndexStats,
       BuildIndex, RowsDone, DropTable, Drop, Raise, Return, End
<1>8. CASE \E i \in Index : CreateIndex(i) \/ DropIndex(i)
  BY <1>8 DEF CreateIndex, DropIndex, Drop
<1> QED BY <1>1, <1>2, <1>3, <1>5, <1>6, <1>7, <1>8 DEF Next, Statement

(* An index file, once there, stays.                                       *)
LEMMA MadeStep ==
  ASSUME Safe, Unharmed, Flushed, [Next]_vars, harm' = {},
         NEW i \in Indexed', ~Building(i)'
  PROVE  Made(store'[i])
<1>1. Typed /\ Dropped /\ MissedOK /\ Matched /\ StoreOK /\ CatalogOK /\ StatementOK
  BY DEF Safe, Unharmed, Typed
<1>2. catalog'.exists
  <2>1. CatalogOK'
    BY <1>1, TypedNext DEF Typed
  <2>2. ~catalog'.exists => Indexed' = {}
    BY <2>1 DEF CatalogOK, NoTable, Indexed
  <2> QED BY <2>2
<1>3. CASE CreateTable
  BY <1>1, <1>3, CreateTableEffect
<1>4. CASE ~CreateTable
  <2>1. catalog.exists /\ harm = {} /\ i \in Indexed /\ (~Building(i) \/ BuildIndex)
    BY <1>1, <1>2, <1>4, IndexStep
  <2>2. i \in File /\ i # Table /\ FileOK(i, store[i])
    BY <1>1, <2>1, CatalogFields DEF StoreOK
  <2>3. CASE BuildIndex
    <3>1. PICK j \in Indexed :
                 /\ \A k : Building(k) <=> k = j
                 /\ Made(store[j])'
                 /\ \A f \in File \ {j} :
                   store'[f] = IF f = Table THEN Opened(f, store[f]) ELSE store[f]
      BY <1>1, <2>1, <2>3, BuildIndexEffect
    <3> QED BY <2>1, <2>2, <3>1 DEF Flushed
  <2>4. ASSUME ~BuildIndex PROVE Made(store[i])
    BY <2>1, <2>4 DEF Flushed
  <2>5. CASE ChangeRow
    <3>1. ~BuildIndex
      BY <2>5 DEF ChangeRow, BuildIndex
    <3>2. store'[i] = store[i] \/ Made(store'[i])
      BY <1>1, <2>1, <2>5, UnharmedChange
    <3> QED BY <2>4, <3>1, <3>2
  <2>6. CASE DiscardNext
    <3>1. /\ pc = "discard" /\ store' = [store EXCEPT ![Head(files)] = Discarded(@)]
          /\ ~BuildIndex
      BY <2>6 DEF DiscardNext, BuildIndex
    <3>2. Unused(Head(files)) /\ ~Unused(i)
      BY <1>1, <2>1, <3>1, StatementFields, UsedFiles DEF Dropped
    <3>3. store'[i] = store[i]
      BY <1>1, <2>2, <3>1, <3>2 DEF StoreOK
    <3> QED BY <2>4, <3>1, <3>3
  <2>7. CASE Kill
    <3>1. /\ pc = "idle" /\ ~Dirty
          /\ store'[i] = [store[i] EXCEPT !.mem = Closed]
      BY <2>2, <2>7 DEF Kill
    <3>2. ~BuildIndex /\ IsClean(store[i])
      BY <2>2, <3>1 DEF BuildIndex, Dirty, IsClean
    <3> DEFINE x == store[i]
               y == store'[i]
    <3>3. /\ i \in File /\ FileOK(i, x) /\ IsClean(x) /\ Made(x)
          /\ y = [x EXCEPT !.mem = Closed]
      BY <2>2, <2>4, <3>1, <3>2
    <3> HIDE DEF x, y
    <3>4. Made(y)
      BY ONLY <3>3, KilledOK
    <3> QED BY <3>4 DEF y
  <2>8. CASE Close
    <3>1. /\ ~BuildIndex
          /\ store'[i] = IF store[i].mem = Closed THEN store[i]
               ELSE [mem |-> Closed, file |-> store[i].mem, log |-> Emptied]
      BY <2>2, <2>8 DEF Close, BuildIndex
    <3> QED BY <2>2, <2>4, <3>1, ClosedOK
  <2>9. CASE store' = store /\ ~BuildIndex
    BY <2>4, <2>9
  <2>10. CASE ~BuildIndex /\ \E U \in SUBSET File : store' = OpenFiles(U)
    <3>1. store'[i] \in {store[i], Opened(i, store[i])}
      BY <1>1, <2>2, <2>10, OpenFilesOK
    <3> QED BY <2>2, <2>4, <2>10, <3>1, OpenedOK
  <2>11. CASE ~BuildIndex /\ \E f \in File : \E x \in {store[f], Opened(f, store[f])} :
              \E y \in Written(x) : store' = [store EXCEPT ![f] = y]
    <3>1. PICK f \in File : \E x \in {store[f], Opened(f, store[f])} :
              \E y \in Written(x) : store' = [store EXCEPT ![f] = y]
      BY <2>11
    <3>2. CASE f # i
      <4>1. store'[i] = store[i]
        BY <3>1, <3>2
      <4> QED BY <2>4, <2>11, <4>1
    <3>3. CASE f = i
      <4>1. PICK x \in {store[i], Opened(i, store[i])} : store'[i] \in Written(x)
        BY <1>1, <2>2, <3>1, <3>3 DEF StoreOK
      <4>2. FileOK(i, x) /\ Made(x)
        BY <2>2, <2>4, <2>11, <4>1, OpenedOK
      <4> QED BY <2>2, <4>1, <4>2, WrittenOK
    <3> QED BY <3>2, <3>3
  <2> QED BY <1>1, <2>3, <2>5, <2>6, <2>7, <2>8, <2>9, <2>10, <2>11, Shapes
<1> QED BY <1>3, <1>4
Kept(f) == \/ IsClean(store[f])
           \/ pc = "flush" /\ f \in ListedFiles
           \/ pc = "rows" /\ Len(todo) # statement.rows

LEMMA KeptStep ==
  ASSUME Safe, Unharmed, Flushed, [Next]_vars, harm' = {}, NEW f \in File
  PROVE  Kept(f)'
<1>1. /\ Typed /\ Dropped /\ MissedOK /\ Matched /\ Counts
      /\ StoreOK /\ CatalogOK /\ StatementOK
      /\ FileOK(f, store[f]) /\ store = [g \in File |-> store[g]]
      /\ Table \in File
  BY DEF Safe, Unharmed, Typed, StoreOK, File
<1>2. CASE CreateTable
  <2>1. store'[f].mem = Closed
    BY <1>1, <1>2, CreateTableEffect
  <2> QED BY <2>1 DEF Kept, IsClean
<1>3. ASSUME ~CreateTable
      PROVE  harm = {} /\ Kept(f) /\ \A i \in Indexed : ~Building(i) => Made(store[i])
  <2>1. harm = {}
    BY <1>1, <1>3, HarmGrows
  <2> QED BY <2>1 DEF Flushed, Kept
<1>4. CASE pc \notin {"flush", "rows"} /\ store' = store /\ ~CreateTable
  BY <1>3, <1>4 DEF Kept
<1>5. CASE UNCHANGED <<store, pc, todo, files, statement>>
  <2>1. ~CreateTable
    BY <1>5 DEF CreateTable
  <2> QED BY <1>3, <1>5, <2>1 DEF Kept, ListedFiles
<1>6. CASE \E g \in File : WriteBack(g)
  <2>1. PICK g \in File : WriteBack(g)
    BY <1>6
  <2>2. /\ UNCHANGED <<pc, todo, files, statement, harm>>
        /\ \E y \in Written(store[g]) : store' = [store EXCEPT ![g] = y]
    BY <2>1 DEF WriteBack
  <2>3. Kept(f)
    BY <2>2 DEF Flushed, Kept
  <2>4. CASE f = g
    <3>1. store'[f] \in Written(store[f])
      BY <1>1, <2>2, <2>4
    <3> QED BY <1>1, <3>1, WrittenOK DEF Kept
  <2>5. CASE f # g
    <3>1. store'[f] = store[f]
      BY <1>1, <2>2, <2>5
    <3> QED BY <2>2, <2>3, <3>1 DEF Kept, ListedFiles
  <2> QED BY <2>4, <2>5
<1>7. ASSUME ~CreateTable, pc \notin {"flush", "rows"},
             f \in Indexed => ~Building(f) /\ catalog.exists,
             store'[f] = store[f] \/
               (f \in {Table} \cup Indexed /\ store'[f] = Opened(f, store[f]))
      PROVE  Kept(f)'
  <2>1. IsClean(store[f]) /\ (f \in Indexed => Made(store[f]))
    BY <1>3, <1>7 DEF Kept
  <2>2. IsClean(store'[f])
    BY <1>1, <1>7, <2>1, OpenedOK
  <2> QED BY <2>2 DEF Kept
<1>8. CASE \E used \in {{}} \cup {{i} : i \in Indexed} : Select(used)
  <2>1. PICK used \in {{}} \cup {{i} : i \in Indexed} : Select(used)
    BY <1>8
  <2>2. /\ pc = "idle" /\ catalog.exists /\ store' = OpenFiles({Table} \cup used)
        /\ {Table} \cup used \subseteq {Table} \cup Indexed
    BY <2>1 DEF Select, Usable
  <2>3. ~CreateTable /\ ~Building(f)
    BY <2>2 DEF CreateTable, Building
  <2>4. store'[f] = store[f] \/
               (f \in {Table} \cup Indexed /\ store'[f] = Opened(f, store[f]))
    BY <2>2 DEF OpenFiles
  <2> QED BY <1>7, <2>2, <2>3, <2>4
<1>9. ASSUME pc \notin {"flush", "rows", "build"}, catalog.exists,
             store' = OpenFiles({Table})
      PROVE  Kept(f)'
  <2>1. ~CreateTable /\ ~Building(f)
    BY <1>9 DEF CreateTable, Building
  <2>2. store'[f] = store[f] \/
               (f \in {Table} \cup Indexed /\ store'[f] = Opened(f, store[f]))
    BY <1>9 DEF OpenFiles
  <2> QED BY <1>7, <1>9, <2>1, <2>2
<1>10. CASE CreateFile
  BY <1>1, <1>9, <1>10 DEF CreateFile, StatementOK
<1>11. ASSUME NEW kind, NEW changes, Begin(kind, changes) PROVE Kept(f)'
  BY <1>9, <1>11 DEF Begin, Usable
<1>12. CASE \E v \in Values : Insert(<<v>>) \/ \E w \in Values : Insert(<<v, w>>)
  BY <1>11, <1>12 DEF Insert
<1>13. CASE \E P \in Predicate : Delete(P) \/ \E v \in Values : Update(P, v)
  BY <1>11, <1>13 DEF Delete, Update
<1>14. CASE UNCHANGED vars \/ SaveDone \/ OpenRaises
  BY <1>5, <1>14 DEF vars, SaveDone, OpenRaises
<1>15. CASE \/ Open \/ SetIndexStats \/ DropTable
            \/ \E i \in Index : DropIndex(i) \/ CreateIndex(i)
  <2>1. pc \notin {"flush", "rows"} /\ store' = store
    BY <1>15 DEF Open, SetIndexStats, DropTable, Drop, DropIndex, CreateIndex, Usable
  <2> QED BY <1>2, <1>4, <2>1
<1>16. CASE Close \/ Kill
  <2>1. store'[f].mem = Closed
    BY <1>1, <1>16, ClosedOK, KilledOK DEF Close, Kill
  <2> QED BY <2>1 DEF Kept, IsClean
<1>17. CASE DiscardNext
  <2>1. /\ pc = "discard" /\ store' = [store EXCEPT ![Head(files)] = Discarded(@)]
        /\ ~CreateTable
    BY <1>17 DEF DiscardNext, CreateTable
  <2>2. CASE f = Head(files)
    <3>1. store'[f].mem = Closed
      BY <1>1, <2>1, <2>2, DiscardedOK
    <3> QED BY <3>1 DEF Kept, IsClean
  <2>3. CASE f # Head(files)
    <3>1. store'[f] = store[f] /\ IsClean(store[f])
      BY <1>1, <1>3, <2>1, <2>3 DEF Kept
    <3> QED BY <3>1 DEF Kept
  <2> QED BY <2>2, <2>3
<1>18. CASE BuildIndex
  <2>1. pc = "build" /\ ~CreateTable /\ catalog.exists
    BY <1>1, <1>18 DEF BuildIndex, CreateTable, StatementOK
  <2>2. harm = {}
    BY <1>3, <2>1
  <2>3. pc' = "flush" /\ UNCHANGED files
    BY <1>1, <1>18, <2>2, BuildIndexEffect
  <2>4. PICK i \in Indexed :
               /\ files = <<i>> /\ \A j : Building(j) <=> j = i
               /\ \A g \in File \ {i} :
                   store'[g] = IF g = Table THEN Opened(g, store[g]) ELSE store[g]
    BY <1>1, <1>18, <2>2, BuildIndexEffect
  <2>5. CASE f = i
    <3>1. files' = <<i>> /\ Len(files') = 1 /\ files'[1] = i
      BY <2>3, <2>4
    <3>2. f \in ListedFiles'
      BY <2>5, <3>1 DEF ListedFiles
    <3> QED BY <2>3, <3>2 DEF Kept
  <2>6. CASE f # i
    <3>1. store'[f] = store[f] \/
               (f \in {Table} \cup Indexed /\ store'[f] = Opened(f, store[f]))
      BY <2>4, <2>6
    <3>2. ~Building(f) /\ pc \notin {"flush", "rows"}
      BY <2>1, <2>4, <2>6
    <3> QED BY <1>7, <2>1, <3>1, <3>2
  <2> QED BY <2>5, <2>6
<1>19. CASE RowsDone
  <2>1. /\ catalog.exists /\ pc = "rows" /\ pc' = "flush"
        /\ files' = <<Table>> \o catalog.index /\ UNCHANGED store
    BY <1>1, <1>19, RowsDoneEffect
  <2>2. CASE f \in {Table} \cup Indexed
    <3>1. /\ <<Table>> \in Seq(File) /\ Len(<<Table>>) = 1 /\ <<Table>>[1] = Table
          /\ catalog.index \in Seq(File) /\ Len(catalog.index) \in Nat
      BY <1>1, CatalogFields DEF File
    <3>2. /\ Len(files') = 1 + Len(catalog.index)
          /\ \A n \in 1 .. 1 + Len(catalog.index) :
               files'[n] = IF n <= 1 THEN <<Table>>[n] ELSE catalog.index[n - 1]
      BY <2>1, <3>1, ConcatProperties
    <3>3. Table \in ListedFiles'
      <4>1. 1 \in 1 .. Len(files') /\ files'[1] = Table
        BY <3>1, <3>2
      <4> QED BY <4>1 DEF ListedFiles
    <3>4. ASSUME NEW i \in Indexed PROVE i \in ListedFiles'
      <4>1. PICK n \in 1 .. Len(catalog.index) : catalog.index[n] = i
        BY DEF Indexed
      <4>2. n + 1 \in 1 .. Len(files') /\ files'[n + 1] = i
        BY <3>1, <3>2, <4>1
      <4> QED BY <4>2 DEF ListedFiles
    <3>5. f \in ListedFiles'
      BY <2>2, <3>3, <3>4
    <3> QED BY <2>1, <3>5 DEF Kept
  <2>3. CASE f \notin {Table} \cup Indexed
    <3>1. Unused(f)
      BY <2>3 DEF Unused
    <3>2. store[f].mem = Closed
      BY <1>1, <2>1, <3>1 DEF Typed, UnusedClosed
    <3> QED BY <2>1, <3>2 DEF Kept, IsClean
  <2> QED BY <2>2, <2>3
<1>20. CASE ChangeRow
  <2>1. pc = "rows" /\ ~CreateTable /\ catalog.exists
    BY <1>1, <1>20 DEF ChangeRow, CreateTable, StatementOK
  <2>2. /\ todo # << >> /\ harm = {}
        /\ \/ /\ pc' = "idle" /\ Rows = statement.before
              /\ statement.kind = "insert" /\ store' = store
           \/ todo' = Tail(todo) /\ UNCHANGED <<pc, statement>>
    BY <1>1, <1>20, <2>1, UnharmedChange
  <2>3. /\ Len(todo) \in Nat /\ (Len(todo') = Len(todo) - 1 \/ pc' = "idle")
        /\ Len(todo) <= statement.rows /\ statement.rows \in Nat
        /\ todo \in Seq([gone : SUBSET Entry, new : SUBSET Values])
    BY <1>1, <2>1, <2>2, TodoSeq DEF Typed, RowsOK, StatementOK
  <2>4. CASE /\ pc' = "idle" /\ Rows = statement.before
             /\ statement.kind = "insert" /\ store' = store
    <3>1. /\ catalog.count = Cardinality(LiveIn(statement.before))
          /\ Cardinality(Live) + Len(todo) = catalog.count + statement.rows
      BY <1>1, <2>1, <2>2, <2>4 DEF Counts
    <3>2. Live = LiveIn(statement.before) /\ Cardinality(Live) \in Nat
      BY <2>4, SlotSets DEF Live, LiveIn
    <3>3. Len(todo) \in Nat
      BY <2>3
    <3>4. Len(todo) = statement.rows
      BY <2>3, <3>1, <3>2, <3>3
    <3> QED BY <1>3, <2>1, <2>4, <3>4 DEF Kept
  <2>5. CASE todo' = Tail(todo) /\ UNCHANGED <<pc, statement>>
    <3>1. Len(todo) \in Nat /\ Len(todo') = Len(todo) - 1
      BY <2>2, <2>3, <2>5, TodoSeq
    <3>2. Len(todo') # statement'.rows
      <4>1. statement' = statement /\ Len(todo) <= statement.rows
        BY <2>3, <2>5
      <4>2. statement.rows \in Nat
        BY <2>3
      <4> QED BY ONLY <3>1, <4>1, <4>2
    <3> QED BY <2>1, <2>5, <3>2 DEF Kept
  <2> QED BY <2>2, <2>4, <2>5
<1>21. CASE FlushNext
  <2>1. /\ pc = "flush" /\ ~CreateTable /\ catalog.exists
        /\ Head(files) \in {Table} \cup Indexed
    BY <1>1, <1>21, StatementFields DEF FlushNext, CreateTable, StatementOK
  <2>2. harm = {}
    BY <1>3, <2>1
  <2>3. Opened(Head(files), store[Head(files)]).mem # Closed
    <3>1. CASE Head(files) = Table
      BY <1>1, <2>1, <3>1, OpenedOK DEF StatementOK, CanOpen, StoreOK
    <3>2. CASE Head(files) \in Indexed /\ Head(files) # Table
      <4>2. View(Head(files)) \in EntryBags
        BY <1>1, <2>1, <2>2, <3>2, MatchedViews DEF Building
      <4>3. Head(files) \in File /\ FileOK(Head(files), store[Head(files)])
        BY <1>1, <3>2, CatalogFields DEF StoreOK
      <4>4. View(Head(files)) # Unreadable
        BY <3>2, <4>2, <4>3, Sentinels DEF Contents
      <4>5. CanOpen(store[Head(files)])
        BY <3>2, <4>3, <4>4, SeenType DEF View
      <4> QED BY <4>3, <4>5, OpenedOK
    <3> QED BY <2>1, <3>1, <3>2
  <2>4. \/ Len(files) > 1 /\ files' = Tail(files) /\ UNCHANGED pc
        \/ ~(Len(files) > 1) /\ pc' # "flush"
    BY <1>21, <2>3 DEF FlushNext, Return, End
  <2>5. CASE f = Head(files)
    <3>1. IsClean(store'[f])
      BY <1>1, <1>21, <2>5, FlushMem
    <3> QED BY <3>1 DEF Kept
  <2>6. CASE f # Head(files)
    <3>1. store'[f] = store[f]
      BY <1>1, <1>21, <2>6, FlushMem
    <3>2. IsClean(store[f]) \/ (f \in Elems(Tail(files)) /\ Len(files) > 1)
      <4>1. IsClean(store[f]) \/ f \in ListedFiles
        BY <1>3, <2>1 DEF Kept
      <4>2. /\ \A g \in ListedFiles : g = Head(files) \/ g \in Elems(Tail(files))
            /\ Len(files) \in Nat /\ Len(files) >= 1
            /\ Len(files) = 1 => ListedFiles = {Head(files)}
        BY <1>1, <2>1, StatementFields
      <4>3. Len(files) = 1 \/ Len(files) > 1
        BY ONLY <4>2
      <4> QED BY <2>6, <4>1, <4>2, <4>3
    <3>3. CASE IsClean(store[f])
      BY <3>1, <3>3 DEF Kept
    <3>4. CASE f \in Elems(Tail(files)) /\ Len(files) > 1
      <4>1. files' = Tail(files) /\ pc' = "flush"
        BY <2>1, <2>4, <3>4
      <4>2. ListedFiles' = Elems(Tail(files))
        BY <4>1 DEF ListedFiles, Elems
      <4> QED BY <3>4, <4>1, <4>2 DEF Kept
    <3> QED BY <3>2, <3>3, <3>4
  <2> QED BY <2>5, <2>6
<1> QED BY <1>2, <1>6, <1>8, <1>10, <1>12, <1>13, <1>14, <1>15, <1>16, <1>17, <1>18,
           <1>19, <1>20, <1>21 DEF Next, Statement

LEMMA FlushedAlways == Spec => []Flushed
<1>1. Init => Flushed
  BY DEF Init, Flushed, IsClean, Indexed, NoTable
<1>2. Safe /\ Unharmed /\ Flushed /\ [Next]_vars => Flushed'
  <2>1. SUFFICES ASSUME Safe, Unharmed, Flushed, [Next]_vars, harm' = {}
                 PROVE  /\ \A f \in File : Kept(f)'
                        /\ \A i \in Indexed' : ~Building(i)' => Made(store'[i])
    BY DEF Flushed, Kept
  <2> QED BY <2>1, KeptStep, MadeStep
<1> QED BY <1>1, <1>2, SafeAlways, UnharmedAlways, PTL DEF Spec

(* ReturnedSurvives: each statement flushes the table and its indexes and  *)
(* saves the catalog before it returns, so that a kill between statements  *)
(* loses none of the three and leaves a catalog that can be read.          *)
THEOREM StatementsSurvive == Spec => ReturnedSurvives
<1> DEFINE Survives ==
      pc = "idle" /\ saved # Torn /\ pc' = "down" =>
        /\ saved' = catalog
        /\ harm = {} => Rows' = Rows /\ \A i \in Indexed : View(i)' = View(i)
<1>1. ASSUME Safe, Flushed, Next PROVE Survives
  <2>1. SUFFICES ASSUME pc = "idle", saved # Torn, pc' = "down"
                 PROVE  /\ saved' = catalog
                        /\ harm = {} =>
                             Rows' = Rows /\ \A i \in Indexed : View(i)' = View(i)
    OBVIOUS
  <2>2. /\ Typed /\ StoreOK /\ Indexed \subseteq File /\ Table \in File
        /\ saved = catalog
    BY <1>1, <2>1, CatalogFields DEF Safe, Typed, CatalogOK, File
  <2>3. ASSUME saved' = saved, harm = {} => \A f \in File : View(f)' = View(f)
        PROVE  /\ saved' = catalog
               /\ harm = {} =>
                    Rows' = Rows /\ \A i \in Indexed : View(i)' = View(i)
    <3>1. harm = {} => View(Table)' = View(Table)
      BY <2>2, <2>3
    <3> QED BY <2>2, <2>3, <3>1 DEF Rows
  <2>4. CASE Close
    <3>1. ~ChangeRow /\ ~DiscardNext /\ ~BuildIndex
      BY <2>1 DEF ChangeRow, DiscardNext, BuildIndex
    <3>2. \A f \in File :
            store'[f] = IF store[f].mem = Closed THEN store[f]
               ELSE [mem |-> Closed, file |-> store[f].mem, log |-> Emptied]
      BY <2>4 DEF Close
    <3>3. \A f \in File : View(f)' = View(f)
      BY <2>2, <3>2, ClosedOK DEF View, StoreOK
    <3>4. saved' = saved
      BY <2>4 DEF Close, SameCatalog
    <3> QED BY <2>3, <3>3, <3>4
  <2>5. CASE Kill
    <3>1. ASSUME harm = {}, NEW f \in File PROVE View(f)' = View(f)
      <4> DEFINE x == store[f]
                 y == store'[f]
      <4>1. /\ f \in File /\ FileOK(f, x) /\ IsClean(x)
            /\ y = [x EXCEPT !.mem = Closed]
        BY <1>1, <2>1, <2>2, <2>5, <3>1 DEF Kill, StoreOK, Flushed
      <4> HIDE DEF x, y
      <4>2. Seen(f, y) = Seen(f, x)
        BY ONLY <4>1, KilledOK
      <4> QED BY <4>2 DEF View, x, y
    <3>2. saved' = saved
      BY <2>5 DEF Kill, SameCatalog
    <3> QED BY <2>3, <3>1, <3>2
  <2>6. ASSUME NEW kind, NEW changes, Begin(kind, changes) PROVE FALSE
    BY <2>1, <2>6 DEF Begin
  <2>7. CASE \E v \in Values : Insert(<<v>>) \/ \E w \in Values : Insert(<<v, w>>)
    BY <2>6, <2>7 DEF Insert
  <2>8. CASE \E P \in Predicate : Delete(P) \/ \E v \in Values : Update(P, v)
    BY <2>6, <2>8 DEF Delete, Update
  <2>9. CASE \E used \in {{}} \cup {{i} : i \in Indexed} : Select(used)
    BY <2>1, <2>9 DEF Select
  <2>10. CASE \E i \in Index : DropIndex(i) \/ CreateIndex(i)
    BY <2>1, <2>10 DEF DropIndex, Drop, CreateIndex
  <2>11. CASE \E f \in File : WriteBack(f)
    BY <2>1, <2>11 DEF WriteBack
  <2>12. CASE \/ CreateTable \/ DropTable \/ RowsDone \/ CreateFile \/ SetIndexStats
              \/ Open \/ OpenRaises \/ SaveDone \/ FlushNext \/ DiscardNext
              \/ BuildIndex \/ ChangeRow
    BY <2>1, <2>12 DEF CreateTable, DropTable, Drop, RowsDone, CreateFile,
         SetIndexStats, Open, OpenRaises, SaveDone, FlushNext, DiscardNext, BuildIndex,
         ChangeRow, vars
  <2> QED BY <1>1, <2>4, <2>5, <2>7, <2>8, <2>9, <2>10, <2>11, <2>12
          DEF Next, Statement
<1>2. Safe /\ Flushed /\ [Next]_vars => [Survives]_vars
  BY <1>1
<1> QED BY <1>2, SafeAlways, FlushedAlways, PTL DEF Spec, ReturnedSurvives
=============================================================================
