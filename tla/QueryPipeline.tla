--------------------------- MODULE QueryPipeline ---------------------------
(***************************************************************************)
(* Running a SELECT, from its text on: Database.execute parses it, and     *)
(* runs the operators of queryx/execution/operators.py, each of which      *)
(* returns one row per call of next() and calls next() of the operator     *)
(* below it; Operator.__iter__ collects the rows.                          *)
(*                                                                         *)
(* Every call of next() and every return is a step.  The operators are     *)
(* opened from the scan up; Sort and the aggregates read all their rows    *)
(* while they are opened.  The rows of a scan come in any order, and those *)
(* an index has for a comparison are those it holds for: which index is    *)
(* chosen is Planner, what it finds BPlusTree and HashIndex.  Statements   *)
(* that are no SELECT are Database.                                        *)
(***************************************************************************)
EXTENDS SqlText

CONSTANTS
  Statements,  (* statements that are written down, and run                *)
  Texts,       (* other token sequences, most of them no statement         *)
  Keys,        (* the integers in the INT columns                          *)
  MaxRows,     (* rows of a table that is not joined (a bound)             *)
  MaxSide,     (* rows of each table of a join (a bound)                   *)
  NoRow,       (* _left_row is None                                        *)
  Nothing,     (* an operator has been called, or waits to be              *)
  End          (* next() returned None                                     *)

ASSUME PipelineAssumption ==
  /\ Keys \subseteq Int /\ MaxRows \in Nat /\ MaxSide \in Nat
  /\ Nothing # End

VARIABLES
  meant,    (* ghost: the statement that tokens were written for, if any   *)
  query,    (* the statement, once it is parsed                            *)
  input,    (* the rows the scan of the FROM table will return             *)
  right,    (* the rows of the other table of a join                       *)
  indexed,  (* the columns of that table that have an index                *)
  status,   (* "new", "parsed", "built", "running", then how it ended      *)
  plan,     (* the operators                                               *)
  opened,   (* operators whose open() has returned                         *)
  level,    (* the operator in next(); opened + 1 is the one that pulls:   *)
            (* an open() that reads its rows, or __iter__ at the top       *)
  item,     (* what the operator below has returned to it, if anything     *)
  state,    (* of each operator                                            *)
  out       (* rows collected                                              *)

vars == <<tokens, meant, query, input, right, indexed, status, plan, opened, level,
          item, state, out>>
given == <<tokens, meant, query, input, right, indexed>>

Rows ==
  LET Values(table, n) == IF Types[table][n] = "INT" THEN Keys ELSE TextValues
  IN  [table \in DOMAIN Columns |->
         {row \in [DOMAIN Columns[table] -> Keys \cup TextValues] :
            \A n \in DOMAIN row : row[n] \in Values(table, n)}]
Tables(table, max) == UNION {[1 .. n -> Rows[table]] : n \in 0 .. max}

(* rows is what is buffered, pos counts rows returned or tried and, before *)
(* a Sort is open, its passes, seen is the set of rows Distinct has        *)
(* returned and left the _left_row of a join.                              *)
Fresh == [rows |-> << >>, pos |-> 0, seen |-> {}, left |-> NoRow]

Init ==
  /\ \/ meant \in Statements /\ \E full \in BOOLEAN : tokens = Written(meant, full)
     \/ meant = None /\ tokens \in Texts
  /\ query = None /\ input = << >> /\ right = << >> /\ indexed = {}
  /\ status = "new" /\ plan = << >>
  /\ opened = 0 /\ level = 0 /\ item = Nothing /\ state = << >> /\ out = << >>

(* SQLSyntaxError, or a statement; only a SELECT is run here.              *)
Parse ==
  /\ status = "new"
  /\ LET parsed == Parsed
     IN  \/ parsed = {} /\ status' = "syntax" /\ UNCHANGED query
         \/ /\ query' \in parsed
            /\ status' = IF query'.kind = "Select" THEN "parsed" ELSE "other"
  /\ UNCHANGED <<tokens, meant, input, right, indexed, plan, opened, level, item,
                 state, out>>

(* A refused statement raises QueryError or CatalogError.                  *)
Refuse ==
  /\ status = "parsed" /\ ~Accepted(query)
  /\ status' = "refused"
  /\ UNCHANGED <<given, plan, opened, level, item, state, out>>

(* _rowids_for looks the index up while the operators are built, before    *)
(* anything but the columns of WHERE has been validated: with a key that   *)
(* does not compare, or for !=, it raises.                                 *)
LookupRaises ==
  /\ status = "parsed"
  /\ query.join = None /\ query.table \in DOMAIN Columns
  /\ Known(query, ColumnsIn(query.where))
  /\ FailingLookups(query) # {}
  /\ status' = "raised"
  /\ UNCHANGED <<given, plan, opened, level, item, state, out>>

(* The operators are built.  Any INT column may have an index, which may   *)
(* be chosen for the scan.                                                 *)
Build ==
  /\ status = "parsed" /\ Accepted(query)
  /\ status' = "built"
  /\ indexed' \in IF query.join = None THEN {{}}
                  ELSE SUBSET IndexableColumns(query.join.table)
  /\ \E lookup \in {None} \cup (Lookups(query) \ FailingLookups(query)) :
       plan' = Plan(query, indexed', lookup)
  /\ state' = [n \in DOMAIN plan' |-> Fresh]
  /\ tokens' = << >> /\ meant' = None
  /\ UNCHANGED <<query, input, right, opened, level, item, out>>

(* list(root).  The tables hold anything, but one that is joined with      *)
(* itself holds the same on both sides.                                    *)
Start ==
  /\ status = "built"
  /\ status' = "running"
  /\ input' \in Tables(query.table, IF query.join = None THEN MaxRows ELSE MaxSide)
  /\ IF query.join = None THEN UNCHANGED right
     ELSE IF query.join.table = query.table THEN right' = input'
     ELSE right' \in Tables(query.join.table, MaxSide)
  /\ level' = 1
  /\ UNCHANGED <<tokens, meant, query, indexed, plan, opened, item, state, out>>

-----------------------------------------------------------------------------
(* Calls and returns.                                                      *)

CallBelow == level' = level - 1 /\ item' = Nothing
Return(row) == level' = level + 1 /\ item' = row

(* An exception leaves execute.                                            *)
Raise == status' = "raised" /\ UNCHANGED <<opened, level, item, state>>

Running(kind) ==
  /\ status = "running" /\ level \in 1 .. opened
  /\ plan[level].kind = kind

SetState(fields) == state' = [state EXCEPT ![level] = fields @@ @]

(* What every step of an operator leaves alone.                            *)
Still == UNCHANGED <<given, plan, opened, out>>
Goes == UNCHANGED status

-----------------------------------------------------------------------------
(* Opening.                                                                *)

Opening == status = "running" /\ opened < Len(plan) /\ level = opened + 1
Blocking == {"Sort", "Aggregate", "HashAggregate"}

Opened(rows) ==
  /\ opened' = opened + 1 /\ level' = level + 1 /\ item' = Nothing
  /\ SetState([rows |-> rows, pos |-> 0])
  /\ Goes

(* A nested loop reads the right table as a whole, which nothing changes   *)
(* while the query runs.                                                   *)
OpenAtOnce ==
  /\ Opening /\ plan[level].kind \notin Blocking
  /\ Opened(<< >>)
  /\ UNCHANGED <<given, plan, out>>

OpenReads ==
  /\ Opening /\ plan[level].kind \in Blocking
  /\ \/ item = Nothing /\ UNCHANGED state
     \/ item \notin {Nothing, End} /\ SetState([rows |-> Append(state[level].rows, item)])
  /\ CallBelow /\ Goes
  /\ Still

OpenHasRead ==
  /\ Opening /\ item = End
  /\ LET operator == plan[level]
         rows == state[level].rows
         passes == state[level].pos
     IN  CASE operator.kind = "Sort" ->
                IF passes = Len(operator.order) THEN Opened(rows)
                ELSE /\ SetState([rows |-> SortPass(operator, rows, passes), pos |-> passes + 1])
                     /\ UNCHANGED <<opened, level, item>> /\ Goes
           [] operator.kind = "Aggregate" ->
                LET row == AggregateRow(operator, rows)
                IN  IF Raised \in ToSet(row) THEN Raise ELSE Opened(<<row>>)
           [] operator.kind = "HashAggregate" ->
                IF \E i \in Groups(operator, rows) :
                     GroupFails(operator, GroupValues(operator, rows, i))
                  THEN Raise ELSE Opened(GroupRows(operator, rows))
  /\ UNCHANGED <<given, plan, out>>

-----------------------------------------------------------------------------
(* next() of each operator.                                                *)

(* The next of some rows that are there already: of the scan, or of what   *)
(* open() has computed.                                                    *)
ReturnNext(rows) ==
  LET pos == state[level].pos
  IN  IF pos < Len(rows)
        THEN Return(rows[pos + 1]) /\ SetState([pos |-> pos + 1])
        ELSE Return(End) /\ UNCHANGED state

NextScan == Running("SeqScan") /\ ReturnNext(input) /\ Goes /\ Still

(* The rows the index has for the comparison.                              *)
Fetched(operator) ==
  LET lookup == operator.lookup
      Serves(row) ==
        CompareValues(row[operator.index[<<lookup.column>>]], lookup.op, lookup.value) = 1
  IN  SelectSeq(input, Serves)

NextIndexScan ==
  Running("IndexScan") /\ ReturnNext(Fetched(plan[level])) /\ Goes /\ Still

NextBuffered ==
  /\ \E kind \in Blocking : Running(kind)
  /\ ReturnNext(state[level].rows) /\ Goes /\ Still

(* Mutant: None is passed over like a row that is not wanted.              *)
CallOrSkip(kinds) ==
  /\ \E kind \in kinds : Running(kind)
  /\ item \in {Nothing, End} /\ CallBelow
  /\ UNCHANGED state /\ Goes /\ Still

(* An operator that has nothing to return without a row from below calls   *)
(* for one, and passes on that there is none.                              *)
CallOrEnd(kinds) ==
  /\ \E kind \in kinds : Running(kind)
  /\ \/ item = Nothing /\ CallBelow
     \/ item = End /\ Return(End)
  /\ UNCHANGED state /\ Goes /\ Still

Has(kind) == Running(kind) /\ item \notin {Nothing, End}

NextFilter ==
  /\ Has("Filter")
  /\ LET outcome == Truth(Evaluate(plan[level].predicate, item, plan[level].index))
     IN  \/ outcome = 1 /\ Return(item) /\ UNCHANGED state /\ Goes
         \/ outcome = 0 /\ CallBelow /\ UNCHANGED state /\ Goes
         \/ outcome = Raised /\ Raise
  /\ Still

NextProjection ==
  /\ Has("Projection")
  /\ Return([n \in DOMAIN plan[level].keys |->
               item[plan[level].index[plan[level].keys[n]]]])
  /\ UNCHANGED state /\ Goes /\ Still

NextDistinct ==
  /\ Has("Distinct")
  /\ IF item \in state[level].seen
       THEN CallBelow /\ UNCHANGED state
       ELSE Return(item) /\ SetState([seen |-> state[level].seen \cup {item}])
  /\ Goes /\ Still

(* Mutant: the count is compared after the child has been called.          *)
LimitReachedLate == state[level].pos > plan[level].count

LimitReached == state[level].pos >= plan[level].count

NextLimit ==
  /\ Running("Limit")
  /\ \/ item = Nothing /\ LimitReached /\ Return(End) /\ UNCHANGED state
     \/ item = Nothing /\ ~LimitReached /\ CallBelow /\ UNCHANGED state
     \/ item = End /\ Return(End) /\ UNCHANGED state
     \/ /\ item \notin {Nothing, End}
        /\ Return(item) /\ SetState([pos |-> state[level].pos + 1])
  /\ Goes /\ Still

-----------------------------------------------------------------------------
(* Joins.                                                                  *)

(* A probe for a string raises, but that of a B+ tree without a key.       *)
ProbeFails(row) ==
  /\ plan[level].kind = "IndexNestedLoopJoin"
  /\ IsText(row[plan[level].index[plan[level].left]])

(* The next left row, or the end.                                          *)
NextLeft ==
  /\ \E kind \in {"NestedLoopJoin", "IndexNestedLoopJoin"} : Running(kind)
  /\ state[level].left = NoRow
  /\ \/ item = Nothing /\ CallBelow /\ UNCHANGED state /\ Goes
     \/ item = End /\ Return(End) /\ UNCHANGED state /\ Goes
     \/ /\ item \notin {Nothing, End}
        /\ \/ /\ ProbeFails(item) => right = << >>
              /\ SetState([left |-> item, pos |-> 0])
              /\ item' = Nothing /\ UNCHANGED level /\ Goes
           \/ ProbeFails(item) /\ Raise
  /\ Still

(* Whether the left row joins with row n of the right table.  A probe of   *)
(* the index finds the rows with the key of the left row.                  *)
JoinOutcome(n) ==
  LET operator == plan[level]
      joined == state[level].left \o right[n]
  IN  IF operator.kind = "NestedLoopJoin"
        THEN Truth(Evaluate(operator.on, joined, operator.index))
        ELSE IF joined[operator.index[operator.left]] = joined[operator.index[operator.right]]
        THEN 1 ELSE 0

(* The right rows behind the last one tried, up to one that joins.         *)
NextJoined ==
  /\ \E kind \in {"NestedLoopJoin", "IndexNestedLoopJoin"} : Running(kind)
  /\ state[level].left # NoRow
  /\ LET tried == state[level].pos + 1 .. Len(right)
     IN  \/ /\ \A n \in tried : JoinOutcome(n) = 0
            /\ SetState([left |-> NoRow]) /\ UNCHANGED <<level, item>> /\ Goes
         \/ \E n \in tried :
              /\ \A m \in tried : m < n => JoinOutcome(m) = 0
              /\ \/ /\ JoinOutcome(n) = 1
                    /\ Return(state[level].left \o right[n])
                    /\ SetState([pos |-> n])
                    /\ Goes
                 \/ JoinOutcome(n) = Raised /\ Raise
  /\ Still

-----------------------------------------------------------------------------
(* list(root).                                                             *)

Collecting == status = "running" /\ opened = Len(plan) /\ level = opened + 1

Collect ==
  /\ Collecting
  /\ \/ item = Nothing /\ UNCHANGED out /\ CallBelow /\ Goes
     \/ /\ item \notin {Nothing, End}
        /\ out' = Append(out, item) /\ CallBelow /\ Goes
     \/ /\ item = End /\ status' = "returned"
        /\ UNCHANGED <<out, level, item>>
  /\ UNCHANGED <<given, plan, opened, state>>

Step ==
  \/ OpenAtOnce \/ OpenReads \/ OpenHasRead
  \/ NextScan \/ NextIndexScan \/ NextBuffered \/ CallOrEnd({"Filter", "Projection", "Distinct"})
  \/ NextFilter \/ NextProjection \/ NextDistinct \/ NextLimit
  \/ NextLeft \/ NextJoined
  \/ Collect

Next == Parse \/ Refuse \/ LookupRaises \/ Build \/ Start \/ Step

Spec == Init /\ [][Next]_vars

(* The engine has one thread, and nothing it runs waits for anything.      *)
FairSpec == Spec /\ WF_vars(Next)

-----------------------------------------------------------------------------
(* A statement is parsed as what it was written for, by the grammar and    *)
(* the precedences of DESIGN.md (OR, AND, NOT, comparison): with just the  *)
(* parentheses it needs, or with as many as there can be.                  *)
ParsesAsWritten ==
  status # "new" /\ meant # None => status # "syntax" /\ query = meant

(* Of a text that is accepted nothing is passed over or put in another     *)
(* place, whatever it is: the statement, when it is written down, says the *)
(* same but for the way it is bracketed.                                   *)
NothingIgnored ==
  status \in {"parsed", "other"} =>
    Balanced(tokens) /\ Content(Written(query, FALSE)) = Content(tokens)

-----------------------------------------------------------------------------
(* What a SELECT means: a choice of units, one for each row returned.  A   *)
(* unit is a row, a pair of rows, a group or, for aggregates without GROUP *)
(* BY, the table.                                                          *)

JoinIndex == ColumnIndex(JoinNames(query))
Pair(u) == input[u[1]] \o right[u[2]]

(* The value of a key or an aggregate in a unit.                           *)
ValueIn(u, it) ==
  IF query.join # None THEN Pair(u)[JoinIndex[KeyOf(it)]]
  ELSE IF it.kind = "aggregate" THEN Finalize(it, input, u, LeftIndex(query))
  ELSE input[Min(u)][LeftIndex(query)[Bare(it.key)]]

(* The units a predicate holds for: AND, OR and NOT are those of sets.     *)
RECURSIVE Matching(_, _)
Matching(expr, units) ==
  LET Side(o, u) ==
        IF o.kind = "literal" THEN o.value
        ELSE IF o.kind \in {"column", "aggregate"} THEN ValueIn(u, o)
        ELSE Cardinality(Matching(o, {u}))
  IN  IF expr = None THEN units
      ELSE CASE expr.kind = "and" -> Matching(expr.left, units) \cap Matching(expr.right, units)
             [] expr.kind = "or" -> Matching(expr.left, units) \cup Matching(expr.right, units)
             [] expr.kind = "not" -> units \ Matching(expr.operand, units)
             [] expr.kind = "comparison" ->
                  {u \in units :
                     CompareValues(Side(expr.left, u), expr.op, Side(expr.right, u)) = 1}
             [] OTHER -> {u \in units : Truth(Side(expr, u)) = 1}

Selected == UNION Matching(query.where, {{i} : i \in DOMAIN input})

Units ==
  IF query.join # None
    THEN Matching(query.where, Matching(query.join.on, (DOMAIN input) \X (DOMAIN right)))
  ELSE IF query.group_by # << >>
    THEN LET By(i) == [c \in ToSet(query.group_by) |-> ValueIn({i}, Col(<<c>>))]
         IN  {{j \in Selected : By(j) = By(i)} : i \in Selected}
  ELSE IF Of(query, "aggregate") # {} THEN {Selected}
  ELSE {{i} : i \in Selected}

(* The groups HAVING keeps.                                                *)
Kept == Matching(query.having, Units)

Shown(u) ==
  IF Of(query, "star") # {}
    THEN IF query.join # None THEN Pair(u) ELSE input[Min(u)]
    ELSE [n \in DOMAIN query.projections |-> ValueIn(u, query.projections[n])]

(* ORDER BY puts unit u before unit v.                                     *)
Before(u, v) ==
  \E n \in DOMAIN query.order_by :
    LET Key(w, m) == Ordinal(ValueIn(w, Col(query.order_by[m].key)))
    IN  /\ \A m \in 1 .. n - 1 : Key(u, m) = Key(v, m)
        /\ IF query.order_by[n].descending THEN Key(u, n) > Key(v, n) ELSE Key(u, n) < Key(v, n)

(* Each row of the answer shows a unit of its own, in the order asked for; *)
(* a unit is left out only if its row is shown already, when duplicates    *)
(* are dropped, or if the limit is reached; and never one that comes       *)
(* before the unit shown in its place.  LIMIT says nothing of aggregates   *)
(* without GROUP BY (_select returns before it).                           *)
Answers(rows) ==
  LET limit == IF Of(query, "aggregate") # {} /\ query.group_by = << >>
                 THEN None ELSE query.limit
      kept == Kept
  IN  \E shown \in Injection(DOMAIN rows, kept) :
        /\ \A n \in DOMAIN rows : rows[n] = Shown(shown[n])
        /\ \A m, n \in DOMAIN rows : m < n => ~Before(shown[n], shown[m])
        /\ query.distinct => IsInjective(rows)
        /\ limit # None => Len(rows) <= limit
        /\ \A u \in kept \ {shown[n] : n \in DOMAIN rows} :
             LET same == {n \in DOMAIN rows : rows[n] = Shown(u)}
             IN  IF query.distinct /\ same # {}
                   THEN \A n \in same : ~Before(u, shown[n])
                   ELSE /\ limit # None /\ Len(rows) = limit
                        /\ \A n \in DOMAIN rows : ~Before(u, shown[n])

(* A query that returns gives an answer to the SELECT as it was written,   *)
(* whatever the table holds and whichever index is chosen to scan it or to *)
(* join with (_select, _select_grouped, _select_join, _build_scan,         *)
(* _build_join).                                                           *)
AnswersQuery == status = "returned" => Answers(out)

(* What the validation, which looks at names only, lets pass.  A name that *)
(* stands for no column has no type.                                       *)
ColumnType(key) ==
  LET alone == query.join = None
      index == IF alone THEN LeftIndex(query) ELSE JoinIndex
      types == IF alone THEN Types[query.table]
                        ELSE Types[query.table] \o Types[query.join.table]
      name == IF alone THEN Bare(key) ELSE key
  IN  IF name \in DOMAIN index THEN types[index[name]] ELSE "none"

TypeOf(expr) ==
  CASE expr.kind = "literal" -> IF IsText(expr.value) THEN "TEXT" ELSE "INT"
    [] expr.kind = "column" -> ColumnType(expr.key)
    [] expr.kind = "aggregate" /\ expr.func \in {"MIN", "MAX"} -> ColumnType(expr.arg.key)
    [] OTHER -> "INT"

RECURSIVE MixesTypes(_)
MixesTypes(expr) ==
  IF expr = None THEN FALSE
  ELSE CASE expr.kind = "comparison" ->
              \/ expr.op \in RangeOps /\ {TypeOf(expr.left), TypeOf(expr.right)} = {"INT", "TEXT"}
              \/ MixesTypes(expr.left) \/ MixesTypes(expr.right)
         [] expr.kind \in {"and", "or"} -> MixesTypes(expr.left) \/ MixesTypes(expr.right)
         [] expr.kind = "not" -> MixesTypes(expr.operand)
         [] OTHER -> FALSE

QualifiedAlone ==
  query.join = None /\ \E key \in ReferencedKeys(query.where) \cup ReferencedKeys(query.having) :
                        Len(key) = 2
AggregateTooEarly ==
  AggregatesIn(query.where) # {} \/ (query.join # None /\ AggregatesIn(query.join.on) # {})
UnfitForIndex == plan = << >> /\ query.join = None /\ FailingLookups(query) # {}
TextProbesIndex ==
  \E n \in DOMAIN plan :
    plan[n].kind = "IndexNestedLoopJoin" /\ ColumnType(plan[n].left) = "TEXT"
SumsText ==
  \E agg \in {query.projections[n] : n \in Of(query, "aggregate")} \cup AggregatesIn(query.having) :
    agg.func \in {"SUM", "AVG"} /\ ColumnType(agg.arg.key) = "TEXT"

Mistaken ==
  \/ UnfitForIndex \/ QualifiedAlone \/ AggregateTooEarly \/ TextProbesIndex \/ SumsText
  \/ MixesTypes(query.where) \/ MixesTypes(query.having)
  \/ query.join # None /\ MixesTypes(query.join.on)

(* These are all the mistakes that pass: a qualified name outside a join,  *)
(* an aggregate in WHERE or ON, < of a string and a number, the sum of a   *)
(* TEXT column, != or a string for an INT column in a conjunct an index is *)
(* chosen for, and a TEXT column an index is probed with.  Any other       *)
(* accepted query runs to its end, on every table and whichever index is   *)
(* chosen (_validate_columns, _validate_keys, column_index, evaluate,      *)
(* _rowids_for).                                                           *)
RaisesOnlyMistaken == status = "raised" => Mistaken

(* Once LIMIT has returned its rows, nothing below it is called any more   *)
(* (operators.py, "then stop pulling from the child").                     *)
LimitStopsPulling ==
  [][\A n \in 1 .. opened :
       plan[n].kind = "Limit" /\ state[n].pos >= plan[n].count =>
         \A m \in 1 .. n - 1 : state'[m] = state[m]]_vars

(* Every statement is refused, raises or returns.                          *)
EveryQueryEnds == <>(status \in {"syntax", "other", "refused", "raised", "returned"})
=============================================================================
