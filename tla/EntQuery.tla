------------------------------- MODULE EntQuery ------------------------------
(* The predicates of the generated where.go files, with SQL's three truth    *)
(* values. The rows of a table are a function of their ids.                  *)
EXTENDS EntMutation

Predicate(op, col, val) == [op |-> op, col |-> col, val |-> val]

\* A comparison with NULL is neither true nor false.
Compare(op, x, v) ==
  CASE op = "IsNil"  -> x = Null
    [] op = "NotNil" -> x # Null
    [] op \notin {"IsNil", "NotNil"} /\ x = Null -> Null
    [] op = "EQ"  /\ x # Null -> x = v
    [] op = "NEQ" /\ x # Null -> x # v
    [] op = "GT"  /\ x # Null -> x > v
    [] op = "GTE" /\ x # Null -> x >= v
    [] op = "LT"  /\ x # Null -> x < v
    [] op = "LTE" /\ x # Null -> x <= v
    [] op = "In"  /\ x # Null -> x \in v
    [] op = "NotIn" /\ x # Null -> x \notin v

Holds(p, id, row) == Compare(p.op, IF p.col = "id" THEN id ELSE row[p.col], p.val)

\* The predicates of one statement are and-ed (And of the where.go files).
And(truths) == IF FALSE \in truths THEN FALSE
               ELSE IF Null \in truths THEN Null ELSE TRUE

\* A statement is about the rows for which its predicates, and-ed, are true.
Matching(rows, where) ==
  {id \in DOMAIN rows : And({Holds(p, id, rows[id]) : p \in where}) = TRUE}

IdIs(id) == Predicate("EQ", "id", id)

----------------------------------------------------------------------------
\* The tables an earlier run of the server may have left: the columns of
\* interest hold anything the migration allows, the others 1.
LeftTables(e, columns, most) ==
  LET Held(c) == IF c \in e.table.notNull THEN {0, 1} ELSE {0, 1, Null}
      LeftRows == {Over(focus, [c \in e.columns |-> 1]) :
                     focus \in {f \in [columns -> {0, 1, Null}] : \A c \in columns : f[c] \in Held(c)}}
  IN {table \in UNION {[1..n -> LeftRows] : n \in 0..most} :
        \A i, j \in DOMAIN table : \A c \in e.table.unique :
          i # j => table[i][c] # table[j][c]}

=============================================================================
