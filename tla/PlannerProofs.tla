--------------------------- MODULE PlannerProofs ---------------------------
(***************************************************************************)
(* What TLAPS proves of the planner, for every set of columns, keys, rows, *)
(* index names and predicates.                                             *)
(***************************************************************************)
EXTENDS Planner, FiniteSetTheorems, WellFoundedInduction, TLAPS

Row == [Column -> Key]
RowsTyped == rows \in [RowId -> Row \cup {Free}]

Info == [name : Name, column : Column, kind : {"btree", "hash"}, n_distinct : Nat]
IndexTyped == index \in Seq(Info)

PagesTyped == pages \in Nat

-----------------------------------------------------------------------------
(* Rows are rows, and the catalog's indexes are a sequence of IndexInfos.  *)

LEMMA LiveIsFinite == IsFiniteSet(Live) /\ row_count \in Nat
BY PlannerAssumption, FS_Subset, FS_CardinalityType DEF Live, row_count

LEMMA InfoTyped ==
  ASSUME NEW name \in Name, NEW c \in Column, NEW kind \in {"btree", "hash"}
  PROVE  IndexInfo(name, c, kind) \in Info
<1> DEFINE T == {rows[r][c] : r \in Live}
           f == [r \in Live |-> rows[r][c]]
<1>1. f \in Surjection(Live, T)
  BY DEF Surjection
<1>2. IsFiniteSet(T)
  BY <1>1, LiveIsFinite, FS_Surjection
<1> QED
  BY <1>2, FS_CardinalityType DEF IndexInfo, Info

LEMMA TypesInvariant == Spec => [](RowsTyped /\ IndexTyped /\ PagesTyped)
<1>1. Init => RowsTyped /\ IndexTyped /\ PagesTyped
  BY DEF Init, RowsTyped, IndexTyped, PagesTyped
<1>2. RowsTyped /\ [Next]_vars => RowsTyped'
  <2> SUFFICES ASSUME RowsTyped, [Next]_vars PROVE RowsTyped'
    OBVIOUS
  <2>1. CASE \E row \in [Column -> Key] : Insert(row)
    BY <2>1 DEF Insert, RowsTyped, Row
  <2>2. CASE \E r \in RowId : Delete(r)
    BY <2>2 DEF Delete, RowsTyped
  <2>3. CASE UNCHANGED rows
    BY <2>3 DEF RowsTyped
  <2> QED
    BY <2>1, <2>2, <2>3 DEF Next, CreateIndex, DropIndex, Select,
       ApplyRecommendations, Reopen, vars
<1>3. IndexTyped /\ [Next]_vars => IndexTyped'
  <2> SUFFICES ASSUME IndexTyped, [Next]_vars PROVE IndexTyped'
    OBVIOUS
  <2> USE DEF IndexTyped
  <2>1. ASSUME NEW name \in Name, NEW c \in Column, CreateIndex(name, c)
        PROVE  IndexTyped'
    <3>1. IndexInfo(name, c, "btree") \in Info
      BY InfoTyped
    <3> QED
      BY <2>1, <3>1 DEF CreateIndex
  <2>2. ASSUME NEW n \in DOMAIN index, DropIndex(n) PROVE IndexTyped'
    <3>1. Len(index) \in Nat /\ n \in 1 .. Len(index)
      OBVIOUS
    <3>2. /\ SubSeq(index, 1, n - 1) \in Seq(Info)
          /\ SubSeq(index, n + 1, Len(index)) \in Seq(Info)
      BY <3>1
    <3> QED
      BY <2>2, <3>2 DEF DropIndex
  <2>3. CASE ApplyRecommendations
    <3> DEFINE created == {c \in Recommended : ~HasIndex(AutoName[c])}
    <3>1. PICK s \in SetToSeqs(created) :
            index' = index \o [n \in DOMAIN s |->
                                IndexInfo(AutoName[s[n]], s[n], KindFor(s[n]))]
      BY <2>3 DEF ApplyRecommendations
    <3>2. Cardinality(created) \in Nat /\ created \subseteq Column
      BY PlannerAssumption, FS_Subset, FS_CardinalityType DEF Recommended
    <3>3. DOMAIN s = 1 .. Cardinality(created) /\ \A n \in DOMAIN s : s[n] \in created
      BY DEF SetToSeqs
    <3>4. \A n \in DOMAIN s : IndexInfo(AutoName[s[n]], s[n], KindFor(s[n])) \in Info
      <4>1. ASSUME NEW n \in DOMAIN s
            PROVE  /\ s[n] \in Column /\ AutoName[s[n]] \in Name
                   /\ KindFor(s[n]) \in {"btree", "hash"}
        BY <3>2, <3>3, PlannerAssumption DEF KindFor
      <4> QED
        BY <4>1, InfoTyped
    <3> DEFINE new == [n \in DOMAIN s |-> IndexInfo(AutoName[s[n]], s[n], KindFor(s[n]))]
    <3> HIDE DEF created
    <3>5. new \in [1 .. Cardinality(created) -> Info]
      BY <3>3, <3>4
    <3>6. new \in Seq(Info)
      BY <3>2, <3>5
    <3> QED
      BY <3>1, <3>6
  <2>4. CASE UNCHANGED index
    BY <2>4
  <2> QED
    BY <2>1, <2>2, <2>3, <2>4 DEF Next, Insert, Delete, Select, Reopen, vars
<1>4. PagesTyped /\ [Next]_vars => PagesTyped'
  <2> SUFFICES ASSUME PagesTyped, [Next]_vars PROVE PagesTyped'
    OBVIOUS
  <2>1. CASE \E row \in [Column -> Key] : Insert(row)
    BY <2>1 DEF Insert, AtLeast1, PagesTyped
  <2>2. CASE UNCHANGED pages
    BY <2>2 DEF PagesTyped
  <2> QED
    BY <2>1, <2>2 DEF Next, Delete, CreateIndex, DropIndex, Select,
       ApplyRecommendations, Reopen, vars
<1> QED
  BY <1>1, <1>2, <1>3, <1>4, PTL DEF Spec

-----------------------------------------------------------------------------
(* Choosing.                                                               *)

(* A non-empty set of positions has a first one.                           *)
LEMMA FirstIsThere ==
  ASSUME NEW S \in SUBSET Nat, S # {}
  PROVE  \E x \in S : \A y \in S : x <= y
<1>1. PICK x \in S : \A y \in S : ~ (<<y, x>> \in OpToRel(<, Nat))
  BY NatLessThanWellFounded, WFMin
<1>2. ASSUME NEW y \in S PROVE x <= y
  <2>1. x \in Nat /\ y \in Nat
    OBVIOUS
  <2>2. y < x => <<y, x>> \in {p \in Nat \X Nat : p[1] < p[2]}
    BY <2>1
  <2>3. ~ (y < x)
    BY <1>1, <2>2 DEF OpToRel
  <2> QED
    BY <2>1, <2>3
<1> QED
  BY <1>2

LEMMA MinIsThere ==
  ASSUME NEW S \in SUBSET Nat, S # {}
  PROVE  Min(S) \in S
BY FirstIsThere DEF Min

(* A non-empty set of positions up to a last one has a last one itself.    *)
LEMMA MaxIsThere ==
  ASSUME NEW last \in Nat, NEW S \in SUBSET (1 .. last), S # {}
  PROVE  Max(S) \in S
<1> DEFINE T == {last - x : x \in S}
<1>1. ASSUME NEW x \in S PROVE x \in Int /\ last - x \in Nat /\ last - x \in T
  <2>1. x \in 1 .. last
    OBVIOUS
  <2> QED
    BY <2>1
<1>2. T \in SUBSET Nat /\ T # {}
  BY <1>1
<1>3. PICK t \in T : \A y \in T : t <= y
  BY <1>2, FirstIsThere
<1>4. PICK x \in S : t = last - x
  BY <1>3
<1>5. ASSUME NEW y \in S PROVE x >= y
  <2>1. x \in Int /\ y \in Int /\ last - x <= last - y
    BY <1>1, <1>3, <1>4
  <2> QED
    BY <2>1
<1> QED
  BY <1>5 DEF Max

(* A path is a sequential scan or is driven by a sargable comparison that  *)
(* the index serves.                                                       *)
LEMMA PathChosen ==
  ASSUME NEW where \in Predicate,
         ChooseAccessPath(where).method # "SeqScan"
  PROVE  \E n \in SargableComparisons(where) :
           /\ Serves(ComparisonAt(where, n))
           /\ ChooseAccessPath(where) = IndexScan(ComparisonAt(where, n))
           /\ IndexCost(IndexByColumn(ComparisonAt(where, n).column),
                        ComparisonAt(where, n).op) < SeqCost
<1> DEFINE usable == {n \in SargableComparisons(where) : Serves(ComparisonAt(where, n))}
           Cost(n) == IndexCost(IndexByColumn(ComparisonAt(where, n).column),
                                ComparisonAt(where, n).op)
           cheapest == {n \in usable : /\ Cost(n) < SeqCost
                                       /\ \A m \in usable : Cost(n) <= Cost(m)}
<1>1. ChooseAccessPath(where) =
        IF cheapest = {} THEN SeqScan
        ELSE IndexScan(ComparisonAt(where, Min(cheapest)))
  BY DEF ChooseAccessPath
<1>2. cheapest # {}
  BY <1>1 DEF SeqScan
<1>3. cheapest \in SUBSET Nat
  BY DEF SargableComparisons, Predicate
<1>4. Min(cheapest) \in cheapest
  BY <1>2, <1>3, MinIsThere
<1> QED
  BY <1>1, <1>2, <1>4

-----------------------------------------------------------------------------
(* What a sargable comparison says of a row, and what the index finds.     *)

Satisfies(row, s) == Compare(row[s.column], s.op, s.value)

(* Turning a comparison round keeps its meaning.                           *)
LEMMA NormalizedMeaning ==
  ASSUME NEW row \in [Column -> Int], NEW c \in Comparison,
         (c.left \in Column) # (c.right \in Column)
  PROVE  /\ Normalized(c).column \in Column
         /\ Normalized(c).op \in Op
         /\ Normalized(c).value \in Int
         /\ Satisfies(row, Normalized(c))
              <=> Compare(ValueOf(c.left, row), c.op, ValueOf(c.right, row))
<1>1. CASE c.left \in Column
  BY <1>1 DEF Normalized, Satisfies, ValueOf, Comparison, Operand
<1>2. CASE c.left \notin Column
  <2> DEFINE x == c.left  y == row[c.right]
  <2>1. x \in Int /\ y \in Int /\ c.right \in Column /\ c.op \in Op
    BY <1>2 DEF Comparison, Operand
  <2>2. /\ ValueOf(c.left, row) = x /\ ValueOf(c.right, row) = y
        /\ Normalized(c) = [column |-> c.right, op |-> Flip(c.op), value |-> x]
    BY <1>2, <2>1 DEF ValueOf, Normalized
  <2>3. Flip(c.op) \in Op
    BY <2>1 DEF Flip, Op, RangeOps
  <2>4. Compare(y, Flip(c.op), x) <=> Compare(x, c.op, y)
    BY <2>1 DEF Flip, Op, RangeOps, Compare
  <2> QED
    BY <2>1, <2>2, <2>3, <2>4 DEF Satisfies
<1> QED
  BY <1>1, <1>2

(* The conjunct at a sargable position is its comparison, normalized.      *)
LEMMA SargableMeaning ==
  ASSUME NEW where \in Predicate, NEW n \in SargableComparisons(where)
  PROVE  /\ n \in DOMAIN where
         /\ ComparisonAt(where, n).column \in Column
         /\ ComparisonAt(where, n).op \in Op
         /\ ComparisonAt(where, n).value \in Int
         /\ \A row \in [Column -> Int] :
              Satisfies(row, ComparisonAt(where, n)) <=>
                \E c \in where[n] :
                  Compare(ValueOf(c.left, row), c.op, ValueOf(c.right, row))
<1>1. PICK c \in where[n] :
        where[n] = {c} /\ (c.left \in Column) # (c.right \in Column)
  BY DEF SargableComparisons
<1>2. n \in DOMAIN where /\ c \in Comparison
  BY <1>1 DEF SargableComparisons, Predicate
<1>3. ComparisonAt(where, n) = Normalized(c)
  BY <1>1 DEF ComparisonAt
<1>4. ASSUME NEW row \in [Column -> Int]
      PROVE  /\ Normalized(c).column \in Column
             /\ Normalized(c).op \in Op
             /\ Normalized(c).value \in Int
             /\ Satisfies(row, Normalized(c))
                  <=> Compare(ValueOf(c.left, row), c.op, ValueOf(c.right, row))
  BY <1>1, <1>2, NormalizedMeaning
<1>5. [x \in Column |-> 0] \in [Column -> Int]
  OBVIOUS
<1> QED
  BY <1>1, <1>2, <1>3, <1>4, <1>5

(* The index chosen for a column is one on that column.                    *)
LEMMA IndexOnColumn ==
  ASSUME IndexTyped, NEW column, IndexesOn(column) # {}
  PROVE  /\ Max(IndexesOn(column)) \in IndexesOn(column)
         /\ IndexByColumn(column) = index[Max(IndexesOn(column))]
         /\ IndexByColumn(column).column = column
         /\ IndexByColumn(column) \in Info
<1>1. Len(index) \in Nat /\ DOMAIN index = 1 .. Len(index)
  BY DEF IndexTyped
<1>2. Max(IndexesOn(column)) \in IndexesOn(column)
  BY <1>1, MaxIsThere DEF IndexesOn
<1> QED
  BY <1>2 DEF IndexesOn, IndexByColumn, IndexTyped

(* The bounds of _rowids_for are exact for integers.                       *)
LEMMA RowIdsExact ==
  ASSUME RowsTyped, IndexTyped,
         NEW s, s.column \in Column, s.value \in Int,
         s.op \in Op \ {"!="}, Serves(s)
  PROVE  RowIdsFor(IndexScan(s)) = {r \in Live : Satisfies(rows[r], s)}
<1> DEFINE path == IndexScan(s)
<1>1. /\ path.info.column = s.column /\ path.op = s.op /\ path.value = s.value
  BY IndexOnColumn DEF Serves, IndexScan
<1>2. \A r \in Live : rows[r][s.column] \in Int
  BY PlannerAssumption DEF RowsTyped, Row, Live
<1>3. \A r \in Live :
        /\ rows[r][s.column] >= s.value + 1 <=> rows[r][s.column] > s.value
        /\ rows[r][s.column] <= s.value - 1 <=> rows[r][s.column] < s.value
  BY <1>2
<1>4. CASE s.op = "="
  BY <1>1, <1>4 DEF RowIdsFor, Search, Satisfies, Compare
<1>5. CASE s.op = ">"
  BY <1>1, <1>3, <1>5 DEF RowIdsFor, RangeFrom, Satisfies, Compare
<1>6. CASE s.op = ">="
  BY <1>1, <1>6 DEF RowIdsFor, RangeFrom, Satisfies, Compare
<1>7. CASE s.op = "<"
  BY <1>1, <1>3, <1>7 DEF RowIdsFor, RangeTo, Satisfies, Compare
<1>8. CASE s.op = "<="
  BY <1>1, <1>8 DEF RowIdsFor, RangeTo, Satisfies, Compare
<1> QED
  BY <1>4, <1>5, <1>6, <1>7, <1>8 DEF Op, RangeOps

-----------------------------------------------------------------------------
(* A query that returns gives the rows of its predicate.                   *)
LEMMA AnswerExact ==
  ASSUME RowsTyped, IndexTyped, NEW where \in Where,
         ~Raises(ChooseAccessPath(where))
  PROVE  Answer(ChooseAccessPath(where), where) = Filter(Live, where)
<1> DEFINE path == ChooseAccessPath(where)
<1>1. CASE path.method = "SeqScan"
  BY <1>1 DEF Answer
<1>2. CASE path.method # "SeqScan"
  <2>1. where \in Predicate
    BY PlannerAssumption
  <2>2. PICK n \in SargableComparisons(where) :
          Serves(ComparisonAt(where, n)) /\ path = IndexScan(ComparisonAt(where, n))
    BY <1>2, <2>1, PathChosen
  <2> DEFINE s == ComparisonAt(where, n)
  <2>3. /\ n \in DOMAIN where
        /\ s.column \in Column /\ s.op \in Op /\ s.value \in Int
        /\ \A row \in [Column -> Int] :
             Satisfies(row, s) <=>
               \E c \in where[n] :
                 Compare(ValueOf(c.left, row), c.op, ValueOf(c.right, row))
    BY <2>1, SargableMeaning
  <2>4. s.op # "!=" /\ path.method = "IndexScan"
    BY <2>2 DEF Raises, IndexScan
  <2>5. RowIdsFor(path) = {r \in Live : Satisfies(rows[r], s)}
    BY <2>2, <2>3, <2>4, RowIdsExact
  <2>6. \A r \in Live : rows[r] \in [Column -> Int]
    BY PlannerAssumption DEF RowsTyped, Row, Live
  <2>7. \A r \in Live : Holds(where, rows[r]) => Satisfies(rows[r], s)
    BY <2>3, <2>6 DEF Holds
  <2>8. CASE Len(where) = 1
    <3>1. DOMAIN where = {1} /\ n = 1
      BY <2>1, <2>3, <2>8 DEF Predicate
    <3>2. \A r \in Live : Satisfies(rows[r], s) => Holds(where, rows[r])
      BY <2>3, <2>6, <3>1 DEF Holds
    <3>3. \A r \in Live : Holds(<< >>, rows[r])
      BY DEF Holds
    <3> QED
      BY <2>4, <2>5, <2>7, <2>8, <3>2, <3>3 DEF Answer, Residual, Filter
  <2>9. CASE Len(where) # 1
    BY <2>4, <2>5, <2>7, <2>9 DEF Answer, Residual, Filter
  <2> QED
    BY <2>8, <2>9
<1> QED
  BY <1>1, <1>2

(* Whatever the statistics, the indexes and their order, the optimizer     *)
(* does not change the answer of a query that returns (choose_access_path  *)
(* and _build_scan).                                                       *)
THEOREM OptimizerKeepsAnswers == Spec => []ReturnsTheRows
<1>1. RowsTyped /\ IndexTyped => ReturnsTheRows
  BY AnswerExact DEF ReturnsTheRows
<1> QED
  BY <1>1, TypesInvariant, PTL

-----------------------------------------------------------------------------
(* An index scan driven by != costs at least three page accesses.          *)
LEMMA UnequalCost ==
  ASSUME NEW info \in Info, info.kind # "hash"
  PROVE  IndexCost(info, "!=") \in Int /\ IndexCost(info, "!=") >= 3
<1> DEFINE nd == IF info.n_distinct = 0 THEN 10 ELSE info.n_distinct
           rest == row_count * (nd - 1)
<1>1. nd \in Nat \ {0} /\ row_count \in Nat
  BY LiveIsFinite DEF Info
<1>2. rest \in Int
  BY <1>1
<1>3. EstimateRows("!=", info.n_distinct) = Round(rest, nd)
  BY DEF EstimateRows, RangeOps
<1> HIDE DEF nd, rest
<1>4. rest \div nd \in Int
  BY <1>1, <1>2
<1>5. Round(rest, nd) \in Int
  BY <1>4 DEF Round
<1>6. AtLeast1(Round(rest, nd)) \in Int /\ AtLeast1(Round(rest, nd)) >= 1
  BY <1>5 DEF AtLeast1
<1> QED
  BY <1>3, <1>6 DEF IndexCost

(* A query raises only for a != on a column with a B+ tree, and only if    *)
(* the table has more than three pages (choose_access_path, _rowids_for).  *)
THEOREM IndexIsAskedWhatItServes == Spec => []RaisesOnlyUnequal
<1>1. RowsTyped /\ IndexTyped /\ PagesTyped => RaisesOnlyUnequal
  <2> SUFFICES ASSUME IndexTyped, PagesTyped,
                      NEW where \in Where, Raises(ChooseAccessPath(where))
               PROVE  /\ pages > 3
                      /\ \E n \in SargableComparisons(where) :
                           LET s == ComparisonAt(where, n)
                           IN  s.op = "!=" /\ \E m \in IndexesOn(s.column) :
                                                index[m].kind = "btree"
    BY DEF RaisesOnlyUnequal
  <2>1. where \in Predicate /\ ChooseAccessPath(where).method = "IndexScan"
    BY PlannerAssumption DEF Raises
  <2>2. PICK n \in SargableComparisons(where) :
          /\ Serves(ComparisonAt(where, n))
          /\ ChooseAccessPath(where) = IndexScan(ComparisonAt(where, n))
          /\ IndexCost(IndexByColumn(ComparisonAt(where, n).column),
                       ComparisonAt(where, n).op) < SeqCost
    BY <2>1, PathChosen
  <2> DEFINE s == ComparisonAt(where, n)
             info == IndexByColumn(s.column)
  <2>3. s.op = "!=" /\ info.kind # "hash"
    BY <2>2 DEF Raises, IndexScan, Serves
  <2>4. /\ info \in Info /\ info = index[Max(IndexesOn(s.column))]
        /\ Max(IndexesOn(s.column)) \in IndexesOn(s.column)
    BY <2>2, IndexOnColumn DEF Serves
  <2>5. info.kind = "btree"
    BY <2>3, <2>4 DEF Info
  <2>6. IndexCost(info, "!=") \in Int /\ IndexCost(info, "!=") >= 3
    BY <2>3, <2>4, UnequalCost
  <2>7. SeqCost > 3
    BY <2>2, <2>3, <2>6 DEF SeqCost, AtLeast1, PagesTyped
  <2>8. pages > 3
    BY <2>7 DEF SeqCost, AtLeast1, PagesTyped
  <2> QED
    BY <2>2, <2>3, <2>4, <2>5, <2>8
<1> QED
  BY <1>1, TypesInvariant, PTL

-----------------------------------------------------------------------------
(* The advisor.                                                            *)

(* The uses of a column are counted.                                       *)
RangeTyped == range \in [Column -> Nat]

LEMMA RangeInvariant == Spec => []RangeTyped
<1>1. Init => RangeTyped
  BY DEF Init, RangeTyped
<1>2. RangeTyped /\ [Next]_vars => RangeTyped'
  <2> SUFFICES ASSUME RangeTyped, [Next]_vars PROVE RangeTyped'
    OBVIOUS
  <2>1. ASSUME NEW where \in Where, Select(where) PROVE RangeTyped'
    <3>1. where \in Seq((SUBSET Comparison) \ {{}})
      BY PlannerAssumption DEF Predicate
    <3>2. ASSUME NEW c \in Column PROVE Recorded(where, c, RangeOps) \in Nat
      <4> DEFINE T == {n \in SargableComparisons(where) :
                 ComparisonAt(where, n).column = c /\ ComparisonAt(where, n).op \in RangeOps}
      <4>1. T \in SUBSET (1 .. Len(where)) /\ Len(where) \in Nat
        BY <3>1 DEF SargableComparisons
      <4>2. IsFiniteSet(1 .. Len(where))
        BY <4>1, FS_Interval
      <4> HIDE DEF T
      <4>3. Cardinality(T) \in Nat
        BY <4>1, <4>2, FS_Subset, FS_CardinalityType
      <4> QED BY <4>3 DEF T, Recorded
    <3> QED BY <2>1, <3>2 DEF Select, RangeTyped
  <2>2. CASE Reopen
    BY <2>2 DEF Reopen, RangeTyped
  <2>3. CASE UNCHANGED range
    BY <2>3 DEF RangeTyped
  <2> QED
    BY <2>1, <2>2, <2>3 DEF Next, Insert, Delete, CreateIndex, DropIndex,
       ApplyRecommendations, advisor, vars
<1> QED
  BY <1>1, <1>2, PTL DEF Spec

(* An order of a set's elements has all of them.                           *)
LEMMA OrderHasAll ==
  ASSUME NEW S, IsFiniteSet(S), NEW s \in SetToSeqs(S), NEW x \in S
  PROVE  \E n \in 1 .. Cardinality(S) : s[n] = x
<1> DEFINE D == 1 .. Cardinality(S)
<1>1. Cardinality(S) \in Nat /\ IsFiniteSet(D) /\ Cardinality(D) = Cardinality(S)
  <2>1. Cardinality(S) \in Nat
    BY FS_CardinalityType
  <2>2. IsFiniteSet(D) /\ Cardinality(D) = IF 1 > Cardinality(S) THEN 0 ELSE Cardinality(S) - 1 + 1
    BY <2>1, FS_Interval
  <2> QED BY <2>1, <2>2
<1>2. s \in Injection(D, S)
  BY DEF SetToSeqs, Injection, IsInjective
<1>3. s \in Surjection(D, S)
  BY <1>1, <1>2, FS_Injection
<1> QED BY <1>3 DEF Surjection

(* HotColumnsServed: apply_recommendations leaves every hot column with an *)
(* index, and with an ordered one where ranges were asked of it and it had *)
(* none before, unless an index has taken the name.                        *)
THEOREM RecommendationsServe == Spec => HotColumnsServed
<1>1. ASSUME IndexTyped, RangeTyped, ApplyRecommendations,
             NEW c \in Column, Uses(c) >= MinUses, ~HasIndex(AutoName[c])
      PROVE  \E n \in DOMAIN index' :
               /\ index'[n].column = c
               /\ Covered(c) \/ range[c] = 0 \/ index'[n].kind = "btree"
  <2> DEFINE created == {d \in Recommended : ~HasIndex(AutoName[d])}
  <2>1. PICK s \in SetToSeqs(created) :
          index' = index \o [n \in DOMAIN s |->
                              IndexInfo(AutoName[s[n]], s[n], KindFor(s[n]))]
    BY <1>1 DEF ApplyRecommendations
  <2>2. IsFiniteSet(created) /\ Cardinality(created) \in Nat
    BY PlannerAssumption, FS_Subset, FS_CardinalityType DEF Recommended
  <2>3. DOMAIN s = 1 .. Cardinality(created)
    BY DEF SetToSeqs
  <2> DEFINE added == [n \in DOMAIN s |-> IndexInfo(AutoName[s[n]], s[n], KindFor(s[n]))]
  <2>4. Len(index) \in Nat /\ DOMAIN index = 1 .. Len(index)
    BY <1>1 DEF IndexTyped
  <2>5. /\ DOMAIN index' = 1 .. Len(index) + Cardinality(created)
        /\ \A n \in 1 .. Len(index) + Cardinality(created) :
             index'[n] = IF n <= Len(index) THEN index[n] ELSE added[n - Len(index)]
    <3> DEFINE T == Info \cup {added[n] : n \in DOMAIN s}
    <3>1. DOMAIN added = 1 .. Cardinality(created) /\ Len(added) = Cardinality(created)
      BY <2>2, <2>3
    <3>2. index \in Seq(T) /\ added \in Seq(T)
      <4>1. added \in [1 .. Cardinality(created) -> T]
        BY <2>3
      <4>2. index \in [1 .. Len(index) -> T]
        BY <1>1, <2>4 DEF IndexTyped
      <4> HIDE DEF added, created, T
      <4> QED BY <2>2, <2>4, <4>1, <4>2
    <3>3. index' = index \o added
      BY <2>1
    <3> HIDE DEF added, created, T
    <3>4. /\ DOMAIN (index \o added) = 1 .. Len(index) + Len(added)
          /\ \A n \in 1 .. Len(index) + Len(added) :
               (index \o added)[n] = IF n <= Len(index) THEN index[n]
                                     ELSE added[n - Len(index)]
      BY ONLY <3>2
    <3> QED BY <3>1, <3>3, <3>4
  <2>6. CASE Covered(c)
    <3>1. PICK n \in DOMAIN index : index[n].column = c
      BY <2>6 DEF Covered, IndexesOn
    <3>2. n \in DOMAIN index' /\ index'[n] = index[n]
      <4> HIDE DEF created, added
      <4>1. n \in 1 .. Len(index) + Cardinality(created) /\ n <= Len(index)
        BY <2>2, <2>4, <3>1
      <4> QED BY <2>5, <4>1
    <3> QED BY <2>6, <3>1, <3>2
  <2>7. CASE ~Covered(c)
    <3>1. c \in created
      BY <1>1, <2>7 DEF Recommended
    <3>2. PICK n \in 1 .. Cardinality(created) : s[n] = c
      BY <2>2, <3>1, OrderHasAll
    <3>3. added[n] = IndexInfo(AutoName[c], c, KindFor(c))
      BY <2>3, <3>2
    <3>4. /\ Len(index) + n \in DOMAIN index'
          /\ index'[Len(index) + n] = IndexInfo(AutoName[c], c, KindFor(c))
      <4> HIDE DEF created, added
      <4>1. /\ Len(index) + n \in 1 .. Len(index) + Cardinality(created)
            /\ ~(Len(index) + n <= Len(index)) /\ (Len(index) + n) - Len(index) = n
        BY <2>2, <2>4, <3>2
      <4> QED BY <2>5, <3>3, <4>1
    <3>5. range[c] = 0 \/ KindFor(c) = "btree"
      BY <1>1 DEF RangeTyped, KindFor
    <3> QED BY <3>4, <3>5 DEF IndexInfo
  <2> QED BY <2>6, <2>7
<1>2. IndexTyped /\ RangeTyped /\ [Next]_vars =>
        [ApplyRecommendations =>
           \A c \in Column : Uses(c) >= MinUses =>
             \/ HasIndex(AutoName[c])
             \/ \E n \in DOMAIN index' :
                  /\ index'[n].column = c
                  /\ Covered(c) \/ range[c] = 0 \/ index'[n].kind = "btree"]_vars
  BY <1>1
<1> QED
  BY <1>2, TypesInvariant, RangeInvariant, PTL DEF Spec, HotColumnsServed
=============================================================================
