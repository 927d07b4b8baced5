----------------------------- MODULE SqlParser -----------------------------
(***************************************************************************)
(* The recursive-descent parser of queryx/sql/parser.py.                   *)
(*                                                                         *)
(* A rule takes the position of its first token and gives the set of what  *)
(* it returns: one pair of a node and the position behind it, or nothing   *)
(* if it raises SQLSyntaxError.                                            *)
(***************************************************************************)
EXTENDS Queries

VARIABLE tokens   (* _tokens: ends with EOF                                *)

(* A token has a type, which for words and symbols is what is written; the *)
(* value is that of a number or a string, or the name.                     *)
Token(type, value) == [type |-> type, value |-> value]
Word(type) == Token(type, None)

COMPARISONS == {"=", "!=", "<", ">", "<=", ">="}
AGGREGATES == {"COUNT", "SUM", "AVG", "MIN", "MAX"}

At(p, types) == tokens[p].type \in types

Done(node, p) == {<<node, p>>}
Fail == {}
Then(results, Rule(_, _)) == UNION {Rule(r[1], r[2]) : r \in results}
As(results, Node(_)) == {<<Node(r[1]), r[2]>> : r \in results}

(* _expect.  No rule goes beyond EOF.                                      *)
Expect(type, p) == IF At(p, {type}) THEN Done(tokens[p].value, p + 1) ELSE Fail
Identifier(p) == Expect("IDENT", p)

(* A row of tokens of these types: their values.                           *)
Phrase(types, p) ==
  LET last == p + Len(types) - 1
  IN  IF last \in DOMAIN tokens /\ \A n \in DOMAIN types : At(p + n - 1, {types[n]})
      THEN Done([n \in DOMAIN types |-> tokens[p + n - 1].value], last + 1) ELSE Fail

(* If the keyword is there it is consumed, and the rule must succeed.      *)
OptionalClause(keyword, Rule(_), absent, p) ==
  IF At(p, {keyword}) THEN Rule(p + 1) ELSE Done(absent, p)
Flag(keyword, p) ==
  IF At(p, {keyword}) THEN Done(TRUE, p + 1) ELSE Done(FALSE, p)

(* One or more.                                                            *)
Separated(Item(_), separator, p) ==
  LET list[q \in DOMAIN tokens] ==
        Then(Item(q), LAMBDA x, r :
          IF At(r, {separator})
            THEN As(list[r + 1], LAMBDA rest : <<x>> \o rest)
            ELSE Done(<<x>>, r))
  IN  list[p]

Enclosed(Rule(_), p) ==
  Then(Expect("(", p), LAMBDA open, q :
  Then(Rule(q), LAMBDA node, r :
  Then(Expect(")", r), LAMBDA close, end :
    Done(node, end))))

-----------------------------------------------------------------------------
(* Names, literals and aggregates.                                         *)

ColumnRef(p) ==
  Then(Identifier(p), LAMBDA first, q :
    IF At(q, {"."}) THEN As(Identifier(q + 1), LAMBDA name : Col(<<first, name>>))
                    ELSE Done(Col(<<first>>), q))

(* _value: a minus only goes before a number.                              *)
LiteralValue(p) ==
  IF At(p, {"-"}) THEN As(Expect("NUMBER", p + 1), LAMBDA n : Lit(-n))
  ELSE IF At(p, {"NUMBER", "STRING"}) THEN Done(Lit(tokens[p].value), p + 1)
  ELSE Fail

LiteralOrColumn(p) == IF At(p, {"IDENT"}) THEN ColumnRef(p) ELSE LiteralValue(p)

Aggregate(p) ==
  LET func == tokens[p].type
      AggregateArgument(q) ==
        IF func = "COUNT" /\ At(q, {"*"}) THEN Done(Star, q + 1) ELSE ColumnRef(q)
  IN  As(Enclosed(AggregateArgument, p + 1), LAMBDA arg : Agg(func, arg))

-----------------------------------------------------------------------------
(* Expressions, from the operator that binds loosest to the tightest.      *)

RECURSIVE OrExpr(_)

Primary(p) ==
  IF At(p, {"("}) THEN Enclosed(OrExpr, p)
  ELSE IF At(p, AGGREGATES) THEN Aggregate(p)
  ELSE LiteralOrColumn(p)

(* Not associative: a = b = c is left with a second = behind it.           *)
ComparisonExpr(p) ==
  Then(Primary(p), LAMBDA left, q :
    IF At(q, COMPARISONS)
      THEN As(Primary(q + 1), LAMBDA other : Comparison(left, tokens[q].type, other))
      ELSE Done(left, q))

RECURSIVE NotExpr(_)
NotExpr(p) ==
  IF At(p, {"NOT"}) THEN As(NotExpr(p + 1), Not) ELSE ComparisonExpr(p)

(* The loops of _or_expr and _and_expr: the first two are joined first.    *)
LeftToRight(kind, operands) ==
  FoldLeft(LAMBDA left, other : Binary(kind, left, other), Head(operands), Tail(operands))

(* Mutant: AND reaches over an OR.                                         *)
OrExprTight(p) ==
  As(Separated(LAMBDA q : As(Separated(NotExpr, "OR", q), LAMBDA list : LeftToRight("or", list)),
               "AND", p),
     LAMBDA list : LeftToRight("and", list))

AndExpr(p) == As(Separated(NotExpr, "AND", p), LAMBDA list : LeftToRight("and", list))
OrExpr(p) == As(Separated(AndExpr, "OR", p), LAMBDA list : LeftToRight("or", list))

Expression(p) == OrExpr(p)

OptionalWhere(p) == OptionalClause("WHERE", Expression, None, p)

-----------------------------------------------------------------------------
(* SELECT.                                                                 *)

SelectItem(p) ==
  IF At(p, {"*"}) THEN Done(Star, p + 1)
  ELSE IF At(p, AGGREGATES) THEN Aggregate(p)
  ELSE ColumnRef(p)

(* A name behind the name of a table is its alias.                         *)
TableRef(p) ==
  Then(Identifier(p), LAMBDA table, q :
    IF At(q, {"IDENT"}) THEN Done(<<table, tokens[q].value>>, q + 1)
                        ELSE Done(<<table, None>>, q))

OptionalJoin(p) ==
  LET Joined(q) ==
        Then(TableRef(q), LAMBDA ref, r :
        Then(Expect("ON", r), LAMBDA on, s :
          As(Expression(s), LAMBDA condition :
               [table |-> ref[1], alias |-> ref[2], on |-> condition])))
  IN  OptionalClause("JOIN", Joined, None, p)

(* HAVING only comes behind GROUP BY.                                      *)
OptionalGroupBy(p) ==
  LET Grouped(q) ==
        Then(Expect("BY", q), LAMBDA by, r :
        Then(Separated(Identifier, ",", r), LAMBDA columns, s :
          As(OptionalClause("HAVING", Expression, None, s), LAMBDA having :
               <<columns, having>>)))
  IN  OptionalClause("GROUP", Grouped, << << >>, None>>, p)

OrderItem(p) ==
  Then(ColumnRef(p), LAMBDA column, q :
    Done([key |-> column.key, descending |-> At(q, {"DESC"})],
         IF At(q, {"DESC", "ASC"}) THEN q + 1 ELSE q))

OptionalOrderBy(p) ==
  LET Ordered(q) == Then(Expect("BY", q), LAMBDA by, r : Separated(OrderItem, ",", r))
  IN  OptionalClause("ORDER", Ordered, << >>, p)

OptionalLimit(p) ==
  OptionalClause("LIMIT", LAMBDA q : Expect("NUMBER", q), None, p)

Select(p) ==
  Then(Expect("SELECT", p),              LAMBDA select, p1 :
  Then(Flag("DISTINCT", p1),             LAMBDA distinct, p2 :
  Then(Separated(SelectItem, ",", p2),   LAMBDA projections, p3 :
  Then(Expect("FROM", p3),               LAMBDA from, p4 :
  Then(TableRef(p4),                     LAMBDA ref, p5 :
  Then(OptionalJoin(p5),                 LAMBDA join, p6 :
  Then(OptionalWhere(p6),                LAMBDA where, p7 :
  Then(OptionalGroupBy(p7),              LAMBDA group, p8 :
  Then(OptionalOrderBy(p8),              LAMBDA order_by, p9 :
    As(OptionalLimit(p9),                LAMBDA limit :
       [kind |-> "Select", table |-> ref[1], table_alias |-> ref[2],
        projections |-> projections, distinct |-> distinct, join |-> join,
        where |-> where, group_by |-> group[1], having |-> group[2],
        order_by |-> order_by, limit |-> limit]))))))))))

-----------------------------------------------------------------------------
(* The other statements.                                                   *)

Insert(p) ==
  LET Names(q) == Separated(Identifier, ",", q)
      ValueTuple(q) == Enclosed(LAMBDA r : Separated(LiteralValue, ",", r), q)
  IN  Then(Phrase(<<"INSERT", "INTO", "IDENT">>, p), LAMBDA words, q :
      Then(IF At(q, {"("}) THEN Enclosed(Names, q) ELSE Done(<< >>, q), LAMBDA columns, r :
      Then(Expect("VALUES", r), LAMBDA values, s :
        As(Separated(ValueTuple, ",", s), LAMBDA rows :
           [kind |-> "Insert", table |-> words[3], columns |-> columns, rows |-> rows]))))

Assignment(p) ==
  Then(Phrase(<<"IDENT", "=">>, p), LAMBDA words, q :
    As(LiteralValue(q), LAMBDA value : [column |-> words[1], value |-> value]))

Update(p) ==
  Then(Phrase(<<"UPDATE", "IDENT", "SET">>, p), LAMBDA words, q :
  Then(Separated(Assignment, ",", q), LAMBDA assignments, r :
    As(OptionalWhere(r), LAMBDA where :
       [kind |-> "Update", table |-> words[2], assignments |-> assignments,
        where |-> where])))

Delete(p) ==
  Then(Phrase(<<"DELETE", "FROM", "IDENT">>, p), LAMBDA words, q :
    As(OptionalWhere(q), LAMBDA where :
       [kind |-> "Delete", table |-> words[3], where |-> where]))

ColumnDef(p) ==
  Then(Identifier(p), LAMBDA name, q :
    IF At(q, {"INT", "TEXT"}) THEN Done([name |-> name, type |-> tokens[q].type], q + 1)
                              ELSE Fail)

CreateTable(p) ==
  Then(Phrase(<<"CREATE", "TABLE", "IDENT">>, p), LAMBDA words, q :
    As(Enclosed(LAMBDA r : Separated(ColumnDef, ",", r), q), LAMBDA columns :
       [kind |-> "CreateTable", table |-> words[3], columns |-> columns]))

CreateIndex(p) ==
  As(Phrase(<<"CREATE", "INDEX", "IDENT", "ON", "IDENT", "(", "IDENT", ")">>, p),
     LAMBDA words : [kind |-> "CreateIndex", name |-> words[3], table |-> words[5],
                     column |-> words[7]])

Drop(p) ==
  As(Phrase(<<"DROP", "TABLE", "IDENT">>, p),
     LAMBDA words : [kind |-> "DropTable", table |-> words[3]])
  \cup As(Phrase(<<"DROP", "INDEX", "IDENT">>, p),
          LAMBDA words : [kind |-> "DropIndex", name |-> words[3]])

Statement ==
  CASE At(1, {"SELECT"})  -> Select(1)
    [] At(1, {"INSERT"})  -> Insert(1)
    [] At(1, {"CREATE"})  -> CreateTable(1) \cup CreateIndex(1)
    [] At(1, {"DROP"})    -> Drop(1)
    [] At(1, {"UPDATE"})  -> Update(1)
    [] At(1, {"DELETE"})  -> Delete(1)
    [] At(1, {"EXPLAIN"}) -> As(Select(2), LAMBDA query : [kind |-> "Explain", query |-> query])
    [] OTHER -> Fail

(* Mutant: what is behind the statement is not looked at.                  *)
ParsedAnyEnd == {r[1] : r \in Statement}

(* parse: what the tokens say, if they are a statement.                    *)
Parsed ==
  {r[1] : r \in {s \in Statement :
                   At(IF At(s[2], {";"}) THEN s[2] + 1 ELSE s[2], {"EOF"})}}
=============================================================================
