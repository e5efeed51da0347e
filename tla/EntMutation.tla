----------------------------- MODULE EntMutation -----------------------------
(* The mutation a builder of src/internal/ent fills in: a value, an added    *)
(* number and a cleared mark per column, kept apart until the save turns     *)
(* them into one statement. Each operator is generated once per entity and   *)
(* column; it is written here once, for any of them.                         *)
EXTENDS EntSchema

Without(f, c) == Restrict(f, DOMAIN f \ {c})

\* newXMutation: the operation, the id it is about (Null before one is known),
\* the rows it is restricted to, and no change.
NewMutation(op, id) ==
  [op |-> op, id |-> id, where |-> {}, set |-> Nothing, add |-> Nothing,
   cleared |-> {}]

----------------------------------------------------------------------------
\* The mutation's own operations

SetBesideAdd(m, c, v) == [m EXCEPT !.set = Over(With(c, v), @)]

\* SetX: a number that was being added is forgotten; a cleared mark stays.
SetValue(m, c, v) ==
  [m EXCEPT !.set = Over(With(c, v), @), !.add = Without(@, c)]

\* AddX: repeated additions sum up; a value that was set stays.
AddValue(m, c, n) ==
  [m EXCEPT !.add = Over(With(c, IF c \in DOMAIN @ THEN @[c] + n ELSE n), @)]

ClearValue(m, c) ==
  [m EXCEPT !.set = Without(@, c), !.add = Without(@, c),
            !.cleared = @ \union {c}]

ResetValue(m, c) ==
  [m EXCEPT !.set = Without(@, c), !.add = Without(@, c),
            !.cleared = @ \ {c}]

Where(m, predicates) == [m EXCEPT !.where = @ \union predicates]

\* The calls that name a column: SetField, AddField, ClearField, ResetField.
SetField(fields, m, c, v) == IF c \in fields.all THEN SetValue(m, c, v) ELSE m
AddField(fields, m, c, n) == IF c \in fields.numeric THEN AddValue(m, c, n) ELSE m
ClearField(fields, m, c) == IF c \in fields.nullable THEN ClearValue(m, c) ELSE m
ResetField(fields, m, c) == IF c \in fields.all THEN ResetValue(m, c) ELSE m

----------------------------------------------------------------------------
\* The builders' operations

\* SetX of a create builder.
CreateSet(m, c, v) == SetValue(m, c, v)

\* SetX of an update builder: a number is reset first.
UpdateSet(updates, m, c, v) ==
  SetValue(IF c \in updates.add THEN ResetValue(m, c) ELSE m, c, v)

----------------------------------------------------------------------------
\* What a save sends to the database

\* defaults: a column with a default that was not set.
Defaults(creates, m) ==
  [m EXCEPT !.set = Over(@, creates.default)]

\* check: the first required column that was not set refuses the save.
Checked(creates, m) == creates.required \subseteq DOMAIN m.set

\* createSpec: the columns of the INSERT.
CreateSpec(creates, m) == Restrict(m.set, DOMAIN m.set \intersect creates.writes)

\* The update builder's sqlSave: three lists of columns.
UpdateSpec(updates, m) ==
  [set |-> Restrict(m.set, DOMAIN m.set \intersect updates.set),
   add |-> Restrict(m.add, DOMAIN m.add \intersect updates.add),
   clear |-> m.cleared \intersect updates.clear]

NamedOnly(columns, table, spec) == spec

\* The INSERT: the table's default, or NULL, for a column it does not name.
InsertedRow(columns, table, spec) ==
  [c \in columns |->
     IF c \in DOMAIN spec THEN spec[c]
     ELSE IF c \in DOMAIN table.default THEN table.default[c] ELSE Null]

\* The UPDATE assigns NULLs, then values, then additions to the row's own
\* value (a NULL counts as 0); of several assignments the last one holds.
UpdatedRow(row, spec) ==
  [c \in DOMAIN row |->
     CASE c \in DOMAIN spec.add ->
            (IF row[c] = Null THEN 0 ELSE row[c]) + spec.add[c]
       [] c \in DOMAIN spec.set \ DOMAIN spec.add -> spec.set[c]
       [] c \in spec.clear \ (DOMAIN spec.set \union DOMAIN spec.add) -> Null
       [] OTHER -> row[c]]

=============================================================================
