------------------------------- MODULE EntStore -------------------------------
(* The generated data layer at work: goroutines that fill in builders of one *)
(* table, one call at a time, and save them. A builder belongs to the        *)
(* goroutine that made it; the table is shared, on one connection, so that   *)
(* each statement is one step. The columns in focus are the ones the calls   *)
(* name; a create sets all others before.                                    *)
EXTENDS EntQuery

CONSTANTS
  Workers,   \* goroutines
  Ids,       \* ids of rows whose key is a text
  Focus,     \* the tables and columns a behaviour may be about, and how many
             \* rows an earlier run of the server may have left (a bound)
  MaxCalls,  \* bound: calls on builders
  MaxBuilders \* bound: builders made

ASSUME EntBounds ==
  /\ {MaxCalls, MaxBuilders} \subseteq Nat /\ Ids \subseteq Nat
  /\ \A f \in Focus : /\ f.name \in DOMAIN Schema /\ f.left \in Nat
                     /\ f.columns \subseteq Schema[f.name].columns

VARIABLES entity, rows, nextId, last, out,
  m,         \* worker -> the mutation of its builder
  calls,     \* calls made on builders
  made       \* builders made

vars == <<entity, rows, nextId, last, out, m, calls, made>>

E == Schema[entity.name]
NoCall == [kind |-> "none", col |-> "none", val |-> 0]
NoBuilder == NewMutation("none", Null)

Init ==
  /\ entity \in Focus
  /\ rows \in LeftTables(Schema[entity.name], entity.columns, entity.left)
  /\ nextId = entity.left + 1
  /\ m = [w \in Workers |-> NoBuilder]
  /\ last = [w \in Workers |-> NoCall]
  /\ calls = 0 /\ made = 0
  /\ out = [w \in Workers |-> "none"]

----------------------------------------------------------------------------
\* The client's builders

\* The predicates a caller restricts a statement to.
Restrictions ==
  {{}} \union {{Predicate(op, c, 0)} : op \in {"EQ", "GT"}, c \in entity.columns}
     \union {{Predicate("IsNil", c, 0)} : c \in entity.columns \intersect E.table.nullable}

Begin(w, mutation) ==
  /\ m[w] = NoBuilder /\ made < MaxBuilders
  /\ m' = [m EXCEPT ![w] = mutation]
  /\ made' = made + 1
  /\ out' = [out EXCEPT ![w] = "none"]
  /\ UNCHANGED <<entity, rows, nextId, last, calls>>

\* Create: SetID for a text key, and every column out of focus.
Create(w) ==
  \E id \in IF E.table.key = "text" THEN Ids ELSE {Null} :
    Begin(w, [NewMutation("create", id) EXCEPT
                !.set = [c \in E.columns \ entity.columns |-> 1]])

Update(w) == \E where \in Restrictions :
  Begin(w, Where(NewMutation("update", Null), where))

UpdateOneID(w) == \E id \in DOMAIN rows, where \in Restrictions :
  Begin(w, Where(NewMutation("updateOne", id), where))

Delete(w) == \E where \in Restrictions :
  Begin(w, Where(NewMutation("delete", Null), where))

\* DeleteOneID adds the id to the predicates of a Delete.
DeleteOneID(w) == \E id \in DOMAIN rows :
  Begin(w, NewMutation("deleteOne", id))

----------------------------------------------------------------------------
\* Calls on a builder

Called(w, call, mutation) ==
  /\ calls < MaxCalls
  /\ m[w].op \in {"create", "update", "updateOne"}
  /\ m' = [m EXCEPT ![w] = mutation]
  /\ last' = [last EXCEPT ![w] = call]
  /\ calls' = calls + 1
  /\ UNCHANGED <<entity, rows, nextId, out, made>>

AsCall(kind, c, v) == [kind |-> kind, col |-> c, val |-> v]
Updates1(w) == IF m[w].op = "update" THEN E.update ELSE E.updateOne

BuilderSet(w) == \E c \in entity.columns, v \in 0..1 :
  Called(w, AsCall("set", c, v),
         IF m[w].op = "create" THEN CreateSet(m[w], c, v)
         ELSE UpdateSet(Updates1(w), m[w], c, v))

BuilderAdd(w) == \E c \in entity.columns \intersect Updates1(w).add :
  m[w].op # "create" /\ Called(w, AsCall("add", c, 1), AddValue(m[w], c, 1))

BuilderClear(w) == \E c \in entity.columns \intersect Updates1(w).clear :
  m[w].op # "create" /\ Called(w, AsCall("clear", c, 0), ClearValue(m[w], c))

\* Builder.Mutation() gives the calls by name, with no reset before a set.
MutationSet(w) == \E c \in entity.columns \intersect E.fields.all, v \in 0..1 :
  Called(w, AsCall("set", c, v), SetField(E.fields, m[w], c, v))

MutationAdd(w) == \E c \in entity.columns \intersect E.fields.numeric :
  Called(w, AsCall("add", c, 1), AddField(E.fields, m[w], c, 1))

MutationClear(w) == \E c \in entity.columns \intersect E.fields.nullable :
  Called(w, AsCall("clear", c, 0), ClearField(E.fields, m[w], c))

MutationReset(w) == \E c \in entity.columns \intersect E.fields.all :
  Called(w, AsCall("reset", c, 0), ResetField(E.fields, m[w], c))

----------------------------------------------------------------------------
\* Saves

\* The statement's answer, and the end of the builder.
Answer(w, how, table) ==
  /\ m[w] # NoBuilder
  /\ rows' = table
  /\ out' = [out EXCEPT ![w] = how]
  /\ m' = [m EXCEPT ![w] = NoBuilder]
  /\ last' = [last EXCEPT ![w] = NoCall]
  /\ UNCHANGED <<entity, made, calls>>

\* What the database refuses: a NULL, a second row with a unique value.
Refused(table) ==
  \/ \E id \in DOMAIN table : \E c \in E.table.notNull : table[id][c] = Null
  \/ \E i, j \in DOMAIN table : \E c \in E.table.unique :
       i # j /\ table[i][c] = table[j][c]

SaveCreate(w) ==
  LET filled == Defaults(E.create, m[w])
      row == InsertedRow(E.columns, E.table, CreateSpec(E.create, filled))
      id == IF E.table.key = "text" THEN m[w].id ELSE nextId
      table == Over([i \in {id} |-> row], rows) IN
  /\ m[w].op = "create"
  /\ IF ~Checked(E.create, filled) THEN Answer(w, "Invalid", rows) /\ UNCHANGED nextId
     ELSE IF id \in DOMAIN rows \/ Refused(table)
     THEN Answer(w, "Constraint", rows) /\ UNCHANGED nextId
     ELSE /\ Answer(w, "Saved", table)
          /\ nextId' = IF E.table.key = "int" THEN nextId + 1 ELSE nextId

\* An UPDATE of the rows, or of the one row that still has to be there.
SaveUpdate(w) ==
  LET one == m[w].op = "updateOne"
      ids == Matching(rows, m[w].where \union (IF one THEN {IdIs(m[w].id)} ELSE {}))
      table == [id \in DOMAIN rows |->
                  IF id \in ids THEN UpdatedRow(rows[id], UpdateSpec(Updates1(w), m[w]))
                  ELSE rows[id]] IN
  /\ m[w].op \in {"update", "updateOne"}
  /\ IF one /\ ids = {} THEN Answer(w, "NotFound", rows)
     ELSE IF Refused(table) THEN Answer(w, "Constraint", rows)
     ELSE Answer(w, "Saved", table)
  /\ UNCHANGED nextId

SaveDelete(w) ==
  LET one == m[w].op = "deleteOne"
      ids == Matching(rows, m[w].where \union (IF one THEN {IdIs(m[w].id)} ELSE {})) IN
  /\ m[w].op \in {"delete", "deleteOne"}
  /\ IF one /\ ids = {} THEN Answer(w, "NotFound", rows)
     ELSE Answer(w, "Saved", Restrict(rows, DOMAIN rows \ ids))
  /\ UNCHANGED nextId

Next == \E w \in Workers :
  \/ Create(w) \/ Update(w) \/ UpdateOneID(w) \/ Delete(w) \/ DeleteOneID(w)
  \/ BuilderSet(w) \/ BuilderAdd(w) \/ BuilderClear(w)
  \/ MutationSet(w) \/ MutationAdd(w) \/ MutationClear(w) \/ MutationReset(w)
  \/ SaveCreate(w) \/ SaveUpdate(w) \/ SaveDelete(w)

Spec == Init /\ [][Next]_vars

----------------------------------------------------------------------------
\* What a builder's three lists come to for one column.
WishOf(mutation, c) ==
  CASE c \in DOMAIN mutation.add /\ mutation.op # "create" ->
         [kind |-> "bump", val |-> mutation.add[c]]
    [] c \in DOMAIN mutation.set /\ ~(c \in DOMAIN mutation.add /\ mutation.op # "create") ->
         [kind |-> "put", val |-> mutation.set[c]]
    [] c \in mutation.cleared /\ c \notin DOMAIN mutation.set \union DOMAIN mutation.add
         /\ mutation.op # "create" ->
         [kind |-> "clear", val |-> 0]
    [] OTHER -> [kind |-> "keep", val |-> 0]

Wishes == INSTANCE RowWishes WITH
  task <- [w \in Workers |-> [op |-> m[w].op, id |-> m[w].id, where |-> m[w].where]],
  wish <- [w \in Workers |-> [c \in E.columns |-> WishOf(m[w], c)]]

\* The builders implement the wishes: whatever the order of the calls, the
\* last one about a column decides, additions add to the row as it is when
\* the save runs, a save that is refused changes nothing, and one that is
\* not changes exactly the matching rows and the columns that were named
\* (the Set, Add, Clear and Reset methods of mutation.go, sqlSave of the
\* create, update and delete builders).
SavesGrantWishes == Wishes!Spec

\* Type correctness. Every stored row has all its required columns, whatever
\* builder wrote it: check() and the absence of Clear methods stand between
\* the callers and the NOT NULL columns of the migration.
TypeOK ==
  /\ \A id \in DOMAIN rows :
       /\ DOMAIN rows[id] = E.columns
       /\ \A c \in E.table.notNull : rows[id][c] \in Int
       /\ \A c \in E.table.nullable : rows[id][c] \in Int \union {Null}
  /\ nextId \in Nat
  /\ calls \in 0..MaxCalls /\ made \in 0..MaxBuilders

\* A ConstraintError means that the row was a duplicate of another: callers
\* (EnsureAdmin, recordLoginFailure) need not expect the database to refuse
\* a column, since the builders' own files agree with the migration.
OnlyDuplicatesRefused ==
  [][\A w \in Workers :
       out'[w] = "Constraint" /\ out[w] # "Constraint" =>
         \/ m[w].op = "create" /\ m[w].id \in DOMAIN rows
         \/ \E c \in E.table.unique \intersect DOMAIN m[w].set :
              \/ \E id \in DOMAIN rows : rows[id][c] = m[w].set[c]
              \/ m[w].op = "update" /\ Cardinality(DOMAIN rows) > 1]_vars

=============================================================================
