------------------------------ MODULE Planner ------------------------------
(***************************************************************************)
(* How a SELECT finds its rows: queryx/planner/optimizer.py and            *)
(* statistics.py, _build_scan of queryx/database.py with the scans of      *)
(* execution/operators.py; and the workload advisor, which turns what was  *)
(* queried into indexes (planner/advisor.py).                              *)
(*                                                                         *)
(* One table of INT columns.  An index holds an entry for every row, which *)
(* is what Database checks, so a lookup is a set of rows here.  In which   *)
(* order a scan returns its rows is not modelled.                          *)
(***************************************************************************)
EXTENDS Comparisons, FiniteSetsExt, SequencesExt

CONSTANTS
  Column,      (* column names                                             *)
  Key,         (* the integers in the columns                              *)
  RowId,
  Where,       (* predicates, see Predicate                                *)
  Name,        (* index names                                              *)
  AutoName,    (* column -> the name apply_recommendations gives its index *)
  MinUses,     (* advisor_min_uses                                         *)
  MaxPages,    (* data pages of the instance (a bound)                     *)
  MaxIndexes,  (* indexes of the instance (a bound)                        *)
  MaxUses,     (* recorded uses of the instance (a bound)                  *)
  Free         (* no row                                                   *)

(* A comparison of two operands, each a column or a literal.               *)
Operand == Column \cup Int
Comparison == [left : Operand, op : Op, right : Operand]

(* A WHERE clause is a sequence of conjuncts, the operands of its topmost  *)
(* ANDs; none at all for a query without WHERE.  A conjunct is a set of    *)
(* comparisons of which one must hold: a single one is a comparison as     *)
(* written, more are what an OR or a NOT comes to.                         *)
Predicate == Seq((SUBSET Comparison) \ {{}})

ASSUME PlannerAssumption ==
  /\ IsFiniteSet(Column) /\ IsFiniteSet(RowId)
  /\ Key \subseteq Int /\ Free \notin [Column -> Key]
  /\ Where \subseteq Predicate
  /\ AutoName \in [Column -> Name]
  /\ \A c, d \in Column : AutoName[c] = AutoName[d] => c = d
  /\ MinUses \in Nat \ {0} /\ MaxPages \in Nat /\ MaxIndexes \in Nat /\ MaxUses \in Nat

VARIABLES
  rows,     (* RowId -> row, or Free                                       *)
  pages,    (* data pages of the heap                                      *)
  index,    (* IndexInfos in the catalog's order                           *)
  equality, (* WorkloadAdvisor._equality, by column                        *)
  range     (* WorkloadAdvisor._range                                      *)

vars == <<rows, pages, index, equality, range>>
advisor == <<equality, range>>

Live == {r \in RowId : rows[r] # Free}
row_count == Cardinality(Live)

IndexInfo(name, column, kind) ==
  [name |-> name, column |-> column, kind |-> kind,
   n_distinct |-> Cardinality({rows[r][column] : r \in Live})]

Init ==
  /\ rows = [r \in RowId |-> Free] /\ pages = 0
  /\ index = << >>
  /\ equality = [c \in Column |-> 0] /\ range = [c \in Column |-> 0]

-----------------------------------------------------------------------------
(* evaluate.                                                               *)

ValueOf(operand, row) == IF operand \in Column THEN row[operand] ELSE operand

Holds(where, row) ==
  \A n \in DOMAIN where : \E c \in where[n] :
    Compare(ValueOf(c.left, row), c.op, ValueOf(c.right, row))

-----------------------------------------------------------------------------
(* Comparisons that an index could serve.                                  *)

(* Mutant: a comparison with the column on the right keeps its operator.   *)
FlipNot(op) == op

Flip(op) ==
  CASE op = "<" -> ">"
    [] op = ">" -> "<"
    [] op = "<=" -> ">="
    [] op = ">=" -> "<="
    [] op \in {"=", "!="} -> op

Normalized(c) ==
  IF c.left \in Column
    THEN [column |-> c.left, op |-> c.op, value |-> c.right]
    ELSE [column |-> c.right, op |-> Flip(c.op), value |-> c.left]

(* The conjuncts that are one comparison of a column with a literal.       *)
SargableComparisons(where) ==
  {n \in DOMAIN where :
     \E c \in where[n] :
       where[n] = {c} /\ (c.left \in Column) # (c.right \in Column)}

ComparisonAt(where, n) == Normalized(CHOOSE c \in where[n] : TRUE)

-----------------------------------------------------------------------------
(* Costs, in page accesses.                                                *)

(* round(p / q): to the nearest integer, and halves to the even one.       *)
Round(p, q) ==
  LET d == p \div q  r == p % q
  IN  IF 2 * r < q \/ (2 * r = q /\ d % 2 = 0) THEN d ELSE d + 1

(* estimate_rows of comparison_selectivity; 1/10 where nothing is known.   *)
EstimateRows(op, n_distinct) ==
  LET nd == IF n_distinct = 0 THEN 10 ELSE n_distinct
  IN  CASE op = "=" -> Round(row_count, nd)
        [] op = "!=" -> Round(row_count * (nd - 1), nd)
        [] op \in RangeOps -> Round(row_count, 3)

AtLeast1(n) == IF n < 1 THEN 1 ELSE n

SeqCost == AtLeast1(pages)

(* The descent of a tree with fewer than 128 rows reads 2 pages.           *)
IndexCost(info, op) ==
  (IF info.kind = "hash" THEN 1 ELSE 2) + AtLeast1(EstimateRows(op, info.n_distinct))

(* index_by_column: the last index on a column.                            *)
IndexesOn(column) == {n \in DOMAIN index : index[n].column = column}
IndexByColumn(column) == index[Max(IndexesOn(column))]

(* Mutant: the kind of the index is not looked at.                         *)
ServesAnything(s) == IndexesOn(s.column) # {}

Serves(s) ==
  /\ IndexesOn(s.column) # {}
  /\ IndexByColumn(s.column).kind = "hash" => s.op = "="

(* choose_access_path: the first of the cheapest, and the sequential scan  *)
(* unless one is cheaper.                                                  *)
SeqScan == [method |-> "SeqScan"]
IndexScan(s) == [method |-> "IndexScan", info |-> IndexByColumn(s.column),
                 op |-> s.op, value |-> s.value]

ChooseAccessPath(where) ==
  LET usable == {n \in SargableComparisons(where) : Serves(ComparisonAt(where, n))}
      Cost(n) == IndexCost(IndexByColumn(ComparisonAt(where, n).column),
                           ComparisonAt(where, n).op)
      cheapest == {n \in usable : /\ Cost(n) < SeqCost
                                  /\ \A m \in usable : Cost(n) <= Cost(m)}
  IN  IF cheapest = {} THEN SeqScan
      ELSE IndexScan(ComparisonAt(where, Min(cheapest)))

-----------------------------------------------------------------------------
(* Running the plan.                                                       *)

Search(column, key) == {r \in Live : rows[r][column] = key}
RangeFrom(column, low) == {r \in Live : rows[r][column] >= low}
RangeTo(column, high) == {r \in Live : rows[r][column] <= high}

(* _rowids_for.                                                            *)
RowIdsFor(path) ==
  LET column == path.info.column
  IN  CASE path.op = "=" -> Search(column, path.value)
        [] path.op = ">" -> RangeFrom(column, path.value + 1)
        [] path.op = ">=" -> RangeFrom(column, path.value)
        [] path.op = "<" -> RangeTo(column, path.value - 1)
        [] path.op = "<=" -> RangeTo(column, path.value)

(* No residual is needed when the WHERE is just the comparison.            *)
Residual(where) == IF Len(where) = 1 THEN << >> ELSE where

Filter(found, where) == {r \in found : Holds(where, rows[r])}

(* _rowids_for raises a QueryError for a path driven by !=; and a hash     *)
(* index has no range_scan.                                                *)
Raises(path) ==
  /\ path.method = "IndexScan"
  /\ \/ path.op = "!="
     \/ path.info.kind = "hash" /\ path.op # "="

Answer(path, where) ==
  IF path.method = "SeqScan" THEN Filter(Live, where)
  ELSE Filter(RowIdsFor(path), Residual(where))

-----------------------------------------------------------------------------
(* The advisor.                                                            *)

Uses(c) == equality[c] + range[c]

(* catalog.index_on.                                                       *)
Covered(c) == IndexesOn(c) # {}

Recommended == {c \in Column : Uses(c) >= MinUses /\ ~Covered(c)}

(* Mutant: the kind is chosen by whether any equality was seen.            *)
KindByEquality(c) == IF equality[c] > 0 THEN "hash" ELSE "btree"

KindFor(c) == IF range[c] > 0 THEN "btree" ELSE "hash"

HasIndex(name) == \E n \in DOMAIN index : index[n].name = name

-----------------------------------------------------------------------------
(* Statements.  An UPDATE is a DELETE and an INSERT for each row.          *)

Insert(row) ==
  /\ \E r \in RowId \ Live : rows' = [rows EXCEPT ![r] = row]
  /\ pages' \in {AtLeast1(pages), pages + 1} /\ pages' <= MaxPages
  /\ UNCHANGED <<index, advisor>>

(* The pages of deleted rows stay.                                         *)
Delete(r) ==
  /\ r \in Live
  /\ rows' = [rows EXCEPT ![r] = Free]
  /\ UNCHANGED <<pages, index, advisor>>

(* SQL creates B+ trees only.                                              *)
CreateIndex(name, c) ==
  /\ ~HasIndex(name) /\ Len(index) < MaxIndexes
  /\ index' = Append(index, IndexInfo(name, c, "btree"))
  /\ UNCHANGED <<rows, pages, advisor>>

DropIndex(n) ==
  /\ index' = SubSeq(index, 1, n - 1) \o SubSeq(index, n + 1, Len(index))
  /\ UNCHANGED <<rows, pages, advisor>>

(* Every recommended index whose name is free is created, that of the most *)
(* used column first; equals come in any order.                            *)
ApplyRecommendations ==
  LET created == {c \in Recommended : ~HasIndex(AutoName[c])}
  IN  /\ Len(index) + Cardinality(created) <= MaxIndexes
      /\ \E s \in SetToSeqs(created) :
           /\ \A m, n \in DOMAIN s : m < n => Uses(s[m]) >= Uses(s[n])
           /\ index' = index \o [n \in DOMAIN s |->
                               IndexInfo(AutoName[s[n]], s[n], KindFor(s[n]))]
      /\ UNCHANGED <<rows, pages, advisor>>

(* record_predicate for each sargable comparison: != counts as equality.   *)
Recorded(where, c, ops) ==
  Cardinality({n \in SargableComparisons(where) :
                 ComparisonAt(where, n).column = c /\ ComparisonAt(where, n).op \in ops})

Select(where) ==
  /\ MapThenSumSet(Uses, Column) + Cardinality(SargableComparisons(where)) <= MaxUses
  /\ equality' = [c \in Column |-> equality[c] + Recorded(where, c, Op \ RangeOps)]
  /\ range' = [c \in Column |-> range[c] + Recorded(where, c, RangeOps)]
  /\ UNCHANGED <<rows, pages, index>>

(* Close and open: the catalog is kept and the advisor's counts are not.   *)
Reopen ==
  /\ equality' = [c \in Column |-> 0] /\ range' = [c \in Column |-> 0]
  /\ UNCHANGED <<rows, pages, index>>

Next ==
  \/ \E row \in [Column -> Key] : Insert(row)
  \/ \E r \in RowId : Delete(r)
  \/ \E name \in Name, c \in Column : CreateIndex(name, c)
  \/ \E n \in DOMAIN index : DropIndex(n)
  \/ \E where \in Where : Select(where)
  \/ ApplyRecommendations
  \/ Reopen

Spec == Init /\ [][Next]_vars

-----------------------------------------------------------------------------
(* A query raises only for a != on a column with a B+ tree, and only if    *)
(* the table has more pages than the index would cost to read; a hash      *)
(* index is never asked for what it cannot answer, whichever indexes came  *)
(* and went (choose_access_path, _rowids_for).                             *)
RaisesOnlyUnequal ==
  \A where \in Where :
    Raises(ChooseAccessPath(where)) =>
      /\ pages > 3
      /\ \E n \in SargableComparisons(where) :
           LET s == ComparisonAt(where, n)
           IN  s.op = "!=" /\ \E m \in IndexesOn(s.column) : index[m].kind = "btree"

(* Whatever the statistics, the indexes and their order, a query that      *)
(* returns gives the rows that satisfy its predicate: the optimizer must   *)
(* never change answers (test_optimizer_integration.py, line 5).           *)
ReturnsTheRows ==
  \A where \in Where :
    LET path == ChooseAccessPath(where)
    IN  Raises(path) \/ Answer(path, where) = Filter(Live, where)

(* When the recommendations have been applied, every column that is hot    *)
(* has an index, unless another index has taken its name; and one that was *)
(* not indexed before gets an order if ranges were asked of it.            *)
HotColumnsServed ==
  [][ApplyRecommendations =>
       \A c \in Column : Uses(c) >= MinUses =>
         \/ HasIndex(AutoName[c])
         \/ \E n \in DOMAIN index' :
              /\ index'[n].column = c
              /\ Covered(c) \/ range[c] = 0 \/ index'[n].kind = "btree"]_vars
=============================================================================
