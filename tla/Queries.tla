------------------------------ MODULE Queries ------------------------------
(***************************************************************************)
(* A SELECT and the operators it is run with: what _select,                *)
(* _select_grouped and _select_join of queryx/database.py accept and       *)
(* build, and how queryx/execution/operators.py resolves names and         *)
(* evaluates predicates and aggregates.                                    *)
(*                                                                         *)
(* A value is an integer or a string.  A key is <<column>> as in "a",      *)
(* <<alias, column>> as in "u.a", or the label of an aggregate.  A SELECT  *)
(* has the fields of ast.Select; an absent list is << >>, any other absent *)
(* clause is None.                                                         *)
(***************************************************************************)
EXTENDS Comparisons, FiniteSetsExt, SequencesExt

CONSTANTS
  Columns,   (* the catalog: of each table its columns, in order           *)
  Types,     (* of each table the types of its columns, INT or TEXT        *)
  Strings,   (* the strings there are, in their order; the first is empty  *)
  None,      (* an absent clause; the MIN, MAX, SUM or AVG of no rows      *)
  Raised     (* an exception, for the value that there would be            *)

ASSUME QueriesAssumption ==
  /\ Raised # None
  /\ Strings # << >> /\ IsInjective(Strings)
  /\ ToSet(Strings) \cap (Int \cup {None, Raised}) = {}
  /\ DOMAIN Types = DOMAIN Columns
  /\ \A table \in DOMAIN Columns : DOMAIN Types[table] = DOMAIN Columns[table]

(* The nodes of ast.py.                                                    *)
Star == [kind |-> "star"]
Col(key) == [kind |-> "column", key |-> key]
Lit(n) == [kind |-> "literal", value |-> n]
Agg(func, arg) == [kind |-> "aggregate", func |-> func, arg |-> arg]
Not(operand) == [kind |-> "not", operand |-> operand]
Binary(kind, left, right) == [kind |-> kind, left |-> left, right |-> right]
Comparison(left, op, right) ==
  [kind |-> "comparison", op |-> op, left |-> left, right |-> right]

(* The argument of COUNT may be a star.                                    *)
Argument(agg) == IF agg.arg = Star THEN "*" ELSE Last(agg.arg.key)
Label(agg) == <<agg.func, "(", Argument(agg)>>

KeyOf(item) == IF item.kind = "aggregate" THEN Label(item) ELSE item.key

(* The part of a key behind the dot.                                       *)
Bare(key) == IF Len(key) = 2 THEN <<key[2]>> ELSE key

BareNames(columns) == [n \in DOMAIN columns |-> <<columns[n]>>]
Qualified(alias, columns) == [n \in DOMAIN columns |-> <<alias, columns[n]>>]

Optional(present, operator) == IF present THEN <<operator>> ELSE << >>

-----------------------------------------------------------------------------
(* column_index: the position of a full name, and of a bare one that only  *)
(* one column has.                                                         *)

Positions(names, key) == {n \in DOMAIN names : names[n] = key}
BarePositions(names, key) == {n \in DOMAIN names : Bare(names[n]) = key}

ColumnIndex(names) ==
  LET unique == {n \in DOMAIN names : Cardinality(BarePositions(names, Bare(names[n]))) = 1}
  IN  [key \in ToSet(names) \cup {Bare(names[n]) : n \in unique} |->
         IF Positions(names, key) # {} THEN Max(Positions(names, key))
                                       ELSE Max(BarePositions(names, key))]

(* Of the rows of the FROM table, if there is no join.                     *)
LeftIndex(q) == ColumnIndex(BareNames(Columns[q.table]))

-----------------------------------------------------------------------------
(* evaluate.  What is false is 0 and what is true is 1, as Python's bool   *)
(* is an int; of the values that are no predicates, 0 and the empty string *)
(* are false.  A string is neither less nor greater than a number: that is *)
(* a TypeError.  AND and OR stop at the first operand that decides.        *)

TextValues == ToSet(Strings)
IsText(value) == value \in TextValues

Truth(value) ==
  IF value = Raised THEN Raised ELSE IF value \in {0, Strings[1]} THEN 0 ELSE 1

(* Where a value stands among those of its type.                           *)
Ordinal(value) ==
  IF IsText(value) THEN CHOOSE n \in DOMAIN Strings : Strings[n] = value ELSE value

CompareValues(x, op, y) ==
  IF Raised \in {x, y} THEN Raised
  ELSE IF op \notin RangeOps THEN IF Compare(x, op, y) THEN 1 ELSE 0
  ELSE IF IsText(x) # IsText(y) THEN Raised
  ELSE IF Compare(Ordinal(x), op, Ordinal(y)) THEN 1 ELSE 0

RECURSIVE Evaluate(_, _, _)
Evaluate(expr, row, index) ==
  LET Val(e) == Evaluate(e, row, index)
  IN  CASE expr.kind = "literal" -> expr.value
        [] expr.kind \in {"column", "aggregate"} ->
             IF KeyOf(expr) \in DOMAIN index THEN row[index[KeyOf(expr)]] ELSE Raised
        [] expr.kind = "comparison" ->
             CompareValues(Val(expr.left), expr.op, Val(expr.right))
        [] expr.kind = "and" ->
             LET left == Truth(Val(expr.left))
             IN  IF left = 1 THEN Truth(Val(expr.right)) ELSE left
        [] expr.kind = "or" ->
             LET left == Truth(Val(expr.left))
             IN  IF left = 0 THEN Truth(Val(expr.right)) ELSE left
        [] expr.kind = "not" ->
             LET operand == Truth(Val(expr.operand))
             IN  IF operand = Raised THEN Raised ELSE 1 - operand

(* The columns and aggregates of a predicate, if there is one.             *)
RECURSIVE Operands(_)
Operands(expr) ==
  IF expr = None THEN {}
  ELSE CASE expr.kind \in {"comparison", "and", "or"} ->
              Operands(expr.left) \cup Operands(expr.right)
         [] expr.kind = "not" -> Operands(expr.operand)
         [] expr.kind \in {"column", "aggregate"} -> {expr}
         [] expr.kind = "literal" -> {}

AggregatesIn(predicate) == {o \in Operands(predicate) : o.kind = "aggregate"}
ReferencedKeys(predicate) ==
  {o.key : o \in Operands(predicate) \ AggregatesIn(predicate)}
ColumnsIn(predicate) == {Last(key) : key \in ReferencedKeys(predicate)}

-----------------------------------------------------------------------------
(* What is accepted: anything else is refused before a row is read.        *)

Of(q, kind) == {n \in DOMAIN q.projections : q.projections[n].kind = kind}
Known(q, names) == names \subseteq ToSet(Columns[q.table])
ArgumentsKnown(q, aggs) == Known(q, {Argument(agg) : agg \in aggs} \ {"*"})
StarAlone(q) == Of(q, "star") = {} \/ Len(q.projections) = 1
OrderKeys(q) == {q.order_by[n].key : n \in DOMAIN q.order_by}

ScalarAccepted(q) ==
  /\ Of(q, "aggregate") = DOMAIN q.projections
  /\ ~q.distinct /\ q.order_by = << >>
  /\ ArgumentsKnown(q, ToSet(q.projections))

(* An ORDER BY key is looked up as it is written.                          *)
PlainAccepted(q) ==
  /\ StarAlone(q)
  /\ OrderKeys(q) \subseteq ToSet(BareNames(Columns[q.table]))
  /\ \A n \in Of(q, "column") : Known(q, {Last(q.projections[n].key)})

(* The column names of HashAggregate.                                      *)
GroupNames(q) ==
  [n \in DOMAIN q.projections |->
     LET item == q.projections[n]
     IN  IF item.kind = "column" THEN <<Last(item.key)>> ELSE Label(item)]

GroupedAccepted(q) ==
  /\ Known(q, ToSet(q.group_by))
  /\ Of(q, "star") = {}
  /\ \A n \in Of(q, "column") : Last(q.projections[n].key) \in ToSet(q.group_by)
  /\ ArgumentsKnown(q, {q.projections[n] : n \in Of(q, "aggregate")})
  /\ ColumnsIn(q.having) \subseteq ToSet(q.group_by)
  /\ ArgumentsKnown(q, AggregatesIn(q.having))
  /\ OrderKeys(q) \subseteq ToSet(GroupNames(q))

LeftAlias(q) == IF q.table_alias = None THEN q.table ELSE q.table_alias
RightAlias(q) == IF q.join.alias = None THEN q.join.table ELSE q.join.alias
JoinNames(q) ==
  Qualified(LeftAlias(q), Columns[q.table])
  \o Qualified(RightAlias(q), Columns[q.join.table])

(* Mutant: WHERE is not validated in a join.                               *)
JoinAcceptedAnyWhere(q) ==
  /\ q.group_by = << >> /\ Of(q, "aggregate") = {}
  /\ q.join.table \in DOMAIN Columns
  /\ LeftAlias(q) # RightAlias(q)
  /\ StarAlone(q)
  /\ ReferencedKeys(q.join.on) \cup OrderKeys(q)
       \cup {q.projections[n].key : n \in Of(q, "column")}
       \subseteq DOMAIN ColumnIndex(JoinNames(q))

JoinAccepted(q) ==
  /\ q.group_by = << >> /\ Of(q, "aggregate") = {}
  /\ q.join.table \in DOMAIN Columns
  /\ LeftAlias(q) # RightAlias(q)
  /\ StarAlone(q)
  /\ ReferencedKeys(q.join.on) \cup ReferencedKeys(q.where) \cup OrderKeys(q)
       \cup {q.projections[n].key : n \in Of(q, "column")}
       \subseteq DOMAIN ColumnIndex(JoinNames(q))

Accepted(q) ==
  /\ q.table \in DOMAIN Columns
  /\ IF q.join # None THEN JoinAccepted(q)
     ELSE /\ Known(q, ColumnsIn(q.where))
          /\ IF q.group_by # << >> THEN GroupedAccepted(q)
             ELSE IF Of(q, "aggregate") # {} THEN ScalarAccepted(q)
             ELSE PlainAccepted(q)

-----------------------------------------------------------------------------
(* The operators, the scan first.  index is the column_index of the rows   *)
(* an operator gets.                                                       *)

Filter(q, index) ==
  Optional(q.where # None, [kind |-> "Filter", predicate |-> q.where, index |-> index])
Sort(q, index) ==
  Optional(q.order_by # << >>, [kind |-> "Sort", order |-> q.order_by, index |-> index])
Projection(q, index, keys) ==
  Optional(Of(q, "star") = {}, [kind |-> "Projection", keys |-> keys, index |-> index])
Distinct(q) == Optional(q.distinct, [kind |-> "Distinct"])
Limit(q) == Optional(q.limit # None, [kind |-> "Limit", count |-> q.limit])

ScalarPlan(q, index) ==
  <<[kind |-> "Aggregate", items |-> q.projections, index |-> index]>>

(* Mutant: rows are counted for the limit before duplicates are dropped.   *)
PlainPlanLimitFirst(q, index) ==
  Sort(q, index)
  \o Projection(q, index, [n \in DOMAIN q.projections |-> Bare(KeyOf(q.projections[n]))])
  \o Limit(q) \o Distinct(q)

PlainPlan(q, index) ==
  Sort(q, index)
  \o Projection(q, index, [n \in DOMAIN q.projections |-> Bare(KeyOf(q.projections[n]))])
  \o Distinct(q) \o Limit(q)

GroupedPlan(q, index) ==
  <<[kind |-> "HashAggregate", by |-> q.group_by, items |-> q.projections,
        having |-> q.having, index |-> index]>>
  \o Sort(q, ColumnIndex(GroupNames(q))) \o Distinct(q) \o Limit(q)

(* sargable_comparisons: of each conjunct of WHERE that compares a column  *)
(* with a constant the column, by its bare name, and what it must be.      *)
Flip(op) == CASE op = "<" -> ">" [] op = ">" -> "<" [] op = "<=" -> ">="
              [] op = ">=" -> "<=" [] op \in {"=", "!="} -> op

RECURSIVE Conjuncts(_)
Conjuncts(where) ==
  IF where = None THEN {}
  ELSE IF where.kind = "and" THEN Conjuncts(where.left) \cup Conjuncts(where.right)
  ELSE {where}

SargableComparisons(where) ==
  LET Comparing(left, other) ==
        {c \in Conjuncts(where) :
           c.kind = "comparison" /\ c.left.kind = left /\ c.right.kind = other}
  IN  {[column |-> Last(c.left.key), op |-> c.op, value |-> c.right.value] :
         c \in Comparing("column", "literal")}
      \cup {[column |-> Last(c.right.key), op |-> Flip(c.op), value |-> c.left.value] :
               c \in Comparing("literal", "column")}

(* Those an index may be looked up for: only an INT column has one.        *)
IndexableColumns(table) ==
  {Columns[table][n] : n \in {m \in DOMAIN Types[table] : Types[table][m] = "INT"}}
Lookups(q) == {c \in SargableComparisons(q.where) : c.column \in IndexableColumns(q.table)}

(* Those that raise if an index is chosen for them: no index is there for  *)
(* !=, and no key of an index compares with a string.                      *)
FailingLookups(q) == {c \in Lookups(q) : c.op = "!=" \/ IsText(c.value)}

(* _build_scan: all rows are read, or those an index has for one of the    *)
(* conjuncts; no filter is behind it if that is the whole WHERE.           *)
Scan(q, lookup) ==
  IF lookup = None THEN <<[kind |-> "SeqScan"]>> \o Filter(q, LeftIndex(q))
  ELSE <<[kind |-> "IndexScan", lookup |-> lookup, index |-> LeftIndex(q)]>>
       \o IF q.where.kind = "comparison" THEN << >> ELSE Filter(q, LeftIndex(q))

(* _equijoin: the comparison of a column of each side, both qualified.     *)
IsEquijoin(q) ==
  LET on == q.join.on
      Alias(operand) == IF Len(operand.key) = 2 THEN Head(operand.key) ELSE None
  IN  /\ on.kind = "comparison" /\ on.op = "="
      /\ on.left.kind = "column" /\ on.right.kind = "column"
      /\ {Alias(on.left), Alias(on.right)} = {LeftAlias(q), RightAlias(q)}

(* The column of the given side in an equijoin.                            *)
SideColumn(q, alias) ==
  LET on == q.join.on
  IN  IF Head(on.left.key) = alias THEN Last(on.left.key) ELSE Last(on.right.key)

(* _build_join: the right table is probed if the column it is joined by is *)
(* in indexed, the columns of the right table that have an index.          *)
Join(q, indexed) ==
  IF IsEquijoin(q) /\ SideColumn(q, RightAlias(q)) \in indexed
    THEN [kind |-> "IndexNestedLoopJoin",
          left |-> <<LeftAlias(q), SideColumn(q, LeftAlias(q))>>,
          right |-> <<RightAlias(q), SideColumn(q, RightAlias(q))>>]
    ELSE [kind |-> "NestedLoopJoin", on |-> q.join.on]

JoinPlan(q, indexed) ==
  LET index == ColumnIndex(JoinNames(q))
  IN  <<[kind |-> "SeqScan"], Join(q, indexed) @@ [index |-> index]>>
      \o Filter(q, index) \o Sort(q, index)
      \o Projection(q, index, [n \in DOMAIN q.projections |-> KeyOf(q.projections[n])])
      \o Distinct(q) \o Limit(q)

(* lookup: what the optimizer has chosen an index for, if anything.        *)
Plan(q, indexed, lookup) ==
  IF q.join # None THEN JoinPlan(q, indexed)
  ELSE Scan(q, lookup) \o
    (IF q.group_by # << >> THEN GroupedPlan(q, LeftIndex(q))
     ELSE IF Of(q, "aggregate") # {} THEN ScalarPlan(q, LeftIndex(q))
     ELSE PlainPlan(q, LeftIndex(q)))

-----------------------------------------------------------------------------
(* The operators that read all their rows before they return one.          *)

(* list.sort with a key and reverse: stable in both directions.            *)
SortedBy(rows, n, descending) ==
  LET Key(i) == Ordinal(rows[i][n])
      Before(i, j) == IF descending THEN Key(i) > Key(j) ELSE Key(i) < Key(j)
      Rank(i) == Cardinality({j \in DOMAIN rows :
                   Before(j, i) \/ (j < i /\ Key(j) = Key(i))})
  IN  [m \in DOMAIN rows |-> rows[CHOOSE i \in DOMAIN rows : Rank(i) = m - 1]]

(* One pass per key, by the last key first.                                *)
SortKey(operator, passes) == operator.order[Len(operator.order) - passes]

SortPass(operator, rows, passes) ==
  LET key == SortKey(operator, passes)
  IN  SortedBy(rows, operator.index[key.key], key.descending)

(* The value of an aggregate over some of the rows; that of AVG is a sum   *)
(* and a count.  sum() of strings is a TypeError.                          *)
Finalize(agg, rows, members, index) ==
  LET Arg(i) == rows[i][index[<<Last(agg.arg.key)>>]]
      args == {Arg(i) : i \in members}
      texts == {arg \in args : IsText(arg)}
  IN  CASE agg.func = "COUNT" -> Cardinality(members)
        [] agg.func # "COUNT" /\ members = {} -> None
        [] agg.func \in {"SUM", "AVG"} /\ members # {} /\ texts # {} -> Raised
        [] agg.func = "SUM" /\ members # {} /\ texts = {} -> MapThenSumSet(Arg, members)
        [] agg.func = "AVG" /\ members # {} /\ texts = {} ->
             <<MapThenSumSet(Arg, members), Cardinality(members)>>
        [] agg.func = "MIN" /\ members # {} ->
             CHOOSE x \in args : \A y \in args : Ordinal(x) <= Ordinal(y)
        [] agg.func = "MAX" /\ members # {} ->
             CHOOSE x \in args : \A y \in args : Ordinal(x) >= Ordinal(y)

AggregateRow(operator, rows) ==
  [n \in DOMAIN operator.items |->
     Finalize(operator.items[n], rows, DOMAIN rows, operator.index)]

(* The rows of a group, by its first row.                                  *)
GroupKey(operator, row) ==
  [n \in DOMAIN operator.by |-> row[operator.index[<<operator.by[n]>>]]]
Members(operator, rows, i) ==
  {j \in DOMAIN rows : GroupKey(operator, rows[j]) = GroupKey(operator, rows[i])}
Groups(operator, rows) ==
  {i \in DOMAIN rows : i = Min(Members(operator, rows, i))}

(* What is known of a group: its columns and the aggregates of the query,  *)
(* by name.  All of them are computed before HAVING is looked at.          *)
GroupValues(operator, rows, i) ==
  LET aggs == {x \in ToSet(operator.items) : x.kind = "aggregate"}
                \cup AggregatesIn(operator.having)
      keys == ToSet(BareNames(operator.by)) \cup {Label(agg) : agg \in aggs}
  IN  [key \in keys |->
         IF Len(key) = 1 THEN rows[i][operator.index[key]]
         ELSE Finalize(Agg(key[1], Col(<<key[3]>>)), rows, Members(operator, rows, i),
                       operator.index)]

Having(operator, values) ==
  IF operator.having = None THEN 1
  ELSE Truth(Evaluate(operator.having, values, [key \in DOMAIN values |-> key]))

GroupFails(operator, values) ==
  Raised \in Range(values) \/ Having(operator, values) = Raised

GroupRow(operator, values) ==
  [n \in DOMAIN operator.items |->
     LET item == operator.items[n]
     IN  values[IF item.kind = "aggregate" THEN Label(item) ELSE Bare(item.key)]]

GroupRows(operator, rows) ==
  LET Keeps(i) ==
        i \in Groups(operator, rows) /\ Having(operator, GroupValues(operator, rows, i)) = 1
      order == SelectSeq([i \in DOMAIN rows |-> i], Keeps)
  IN  [n \in DOMAIN order |-> GroupRow(operator, GroupValues(operator, rows, order[n]))]
=============================================================================
