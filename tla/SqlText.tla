------------------------------ MODULE SqlText ------------------------------
(***************************************************************************)
(* What a statement looks like when it is written down: the other way      *)
(* round from SqlParser, by the grammar and the precedences that           *)
(* DESIGN.md:85-133 states.  In two places a text is what the parser takes *)
(* and not what DESIGN.md says: GROUP BY has bare names here, where        *)
(* DESIGN.md:106 has colref, and a star may stand among other items, where *)
(* it has one alone.                                                       *)
(*                                                                         *)
(* Everything is written in one of two ways: plain, without anything that  *)
(* could be left out, or in full, with parentheses around every operand,   *)
(* ASC and a semicolon.                                                    *)
(***************************************************************************)
EXTENDS SqlParser

Words(types) == [n \in DOMAIN types |-> Word(types[n])]
Name(name) == <<Token("IDENT", name)>>
Paren(text) == Words(<<"(">>) \o text \o Words(<<")">>)

(* The texts, with a separator between them.                               *)
Listed(texts, separator) ==
  FoldLeft(LAMBDA before, text : before \o Words(<<separator>>) \o text,
           Head(texts), Tail(texts))
ListOf(Text(_), items) == Listed([n \in DOMAIN items |-> Text(items[n])], ",")

Unless(absent, clause, text) == IF clause = absent THEN << >> ELSE text

KeyText(key) == Listed([n \in DOMAIN key |-> Name(key[n])], ".")

(* A number, or a string, which here is a model value.                     *)
LiteralText(value) ==
  IF value \notin Int THEN <<Token("STRING", value)>>
  ELSE IF value < 0 THEN <<Word("-"), Token("NUMBER", -value)>>
  ELSE <<Token("NUMBER", value)>>

ItemText(item) ==
  CASE item.kind = "star" -> Words(<<"*">>)
    [] item.kind = "literal" -> LiteralText(item.value)
    [] item.kind = "column" -> KeyText(item.key)
    [] item.kind = "aggregate" ->
         Words(<<item.func>>) \o Paren(IF item.arg = Star THEN Words(<<"*">>)
                                       ELSE KeyText(item.arg.key))

(* How tight an expression binds.  An operand that binds less tight than   *)
(* its place asks for goes into parentheses.                               *)
Tightness(expr) ==
  CASE expr.kind = "or" -> 1 [] expr.kind = "and" -> 2 [] expr.kind = "not" -> 3
    [] expr.kind = "comparison" -> 4 [] OTHER -> 5

RECURSIVE ExprText(_, _, _)
ExprText(expr, asked, full) ==
  LET tight == Tightness(expr)
      text ==
        CASE tight = 5 -> ItemText(expr)
          [] tight = 4 -> ExprText(expr.left, 5, full) \o Words(<<expr.op>>)
                          \o ExprText(expr.right, 5, full)
          [] tight = 3 -> Words(<<"NOT">>) \o ExprText(expr.operand, 3, full)
          [] tight = 2 -> ExprText(expr.left, 2, full) \o Words(<<"AND">>)
                          \o ExprText(expr.right, 3, full)
          [] tight = 1 -> ExprText(expr.left, 1, full) \o Words(<<"OR">>)
                          \o ExprText(expr.right, 2, full)
  IN  IF full \/ tight < asked THEN Paren(text) ELSE text

ClauseText(keyword, expr, full) ==
  Unless(None, expr, Words(<<keyword>>) \o ExprText(expr, 1, full))

TableText(table, alias) == Name(table) \o Unless(None, alias, Name(alias))

OrderText(order_by, full) ==
  LET Text(item) ==
        KeyText(item.key)
        \o Words(IF item.descending THEN <<"DESC">> ELSE IF full THEN <<"ASC">> ELSE << >>)
  IN  Unless(<< >>, order_by, Words(<<"ORDER", "BY">>) \o ListOf(Text, order_by))

SelectText(q, full) ==
  Words(<<"SELECT">>)
  \o Words(IF q.distinct THEN <<"DISTINCT">> ELSE << >>)
  \o ListOf(ItemText, q.projections)
  \o Words(<<"FROM">>) \o TableText(q.table, q.table_alias)
  \o Unless(None, q.join, Words(<<"JOIN">>) \o TableText(q.join.table, q.join.alias)
                          \o ClauseText("ON", q.join.on, full))
  \o ClauseText("WHERE", q.where, full)
  \o Unless(<< >>, q.group_by, Words(<<"GROUP", "BY">>) \o ListOf(Name, q.group_by)
                               \o ClauseText("HAVING", q.having, full))
  \o OrderText(q.order_by, full)
  \o Unless(None, q.limit, <<Word("LIMIT"), Token("NUMBER", q.limit)>>)

StatementText(s, full) ==
  LET RowText(row) == Paren(ListOf(ItemText, row))
      DefText(def) == Name(def.name) \o Words(<<def.type>>)
      SetText(assignment) ==
        Name(assignment.column) \o Words(<<"=">>) \o ItemText(assignment.value)
  IN  CASE s.kind = "Select" -> SelectText(s, full)
        [] s.kind = "Explain" -> Words(<<"EXPLAIN">>) \o SelectText(s.query, full)
        [] s.kind = "Insert" ->
             Words(<<"INSERT", "INTO">>) \o Name(s.table)
             \o Unless(<< >>, s.columns, Paren(ListOf(Name, s.columns)))
             \o Words(<<"VALUES">>) \o ListOf(RowText, s.rows)
        [] s.kind = "Update" ->
             Words(<<"UPDATE">>) \o Name(s.table) \o Words(<<"SET">>)
             \o ListOf(SetText, s.assignments) \o ClauseText("WHERE", s.where, full)
        [] s.kind = "Delete" ->
             Words(<<"DELETE", "FROM">>) \o Name(s.table) \o ClauseText("WHERE", s.where, full)
        [] s.kind = "CreateTable" ->
             Words(<<"CREATE", "TABLE">>) \o Name(s.table) \o Paren(ListOf(DefText, s.columns))
        [] s.kind = "CreateIndex" ->
             Words(<<"CREATE", "INDEX">>) \o Name(s.name) \o Words(<<"ON">>)
             \o Name(s.table) \o Paren(Name(s.column))
        [] s.kind = "DropTable" -> Words(<<"DROP", "TABLE">>) \o Name(s.table)
        [] s.kind = "DropIndex" -> Words(<<"DROP", "INDEX">>) \o Name(s.name)

(* The tokens of a statement, as the lexer gives them.                     *)
Written(s, full) ==
  StatementText(s, full) \o Words(IF full THEN <<";", "EOF">> ELSE <<"EOF">>)

(* What a text says besides how it is bracketed.                           *)
Content(text) ==
  SelectSeq(text, LAMBDA token : token.type \notin {"(", ")", "ASC", ";"})

Balanced(text) ==
  Len(SelectSeq(text, LAMBDA token : token.type = "("))
    = Len(SelectSeq(text, LAMBDA token : token.type = ")"))
=============================================================================
