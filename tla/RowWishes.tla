------------------------------ MODULE RowWishes ------------------------------
(* What the generated data layer of src/internal/ent promises its callers.   *)
(* A builder is a list of wishes, one per column, in which the last call     *)
(* about a column decides; a save applies all of them to every row it is     *)
(* about, or refuses and applies none. EntStore, which keeps values,         *)
(* additions and cleared marks apart and leaves their merging to SQL,        *)
(* implements this specification.                                            *)
EXTENDS EntQuery

CONSTANTS Workers, Focus

VARIABLES
  entity,    \* the table, and the columns the behaviour is about
  rows,      \* id -> row
  nextId,    \* the next id of a table that counts its ids
  task,      \* worker -> what its builder is to do, and to which rows
  wish,      \* worker -> column -> what the save will do to it
  last,      \* worker -> the last call on its builder
  out        \* worker -> how its last save ended

vars == <<entity, rows, nextId, task, wish, last, out>>

Keep == [kind |-> "keep", val |-> 0]
Put(v) == [kind |-> "put", val |-> v]
Clear == [kind |-> "clear", val |-> 0]
Bump(n) == [kind |-> "bump", val |-> n]

Idle == [op |-> "none", id |-> Null, where |-> {}]
NoCall == [kind |-> "none", col |-> "none", val |-> 0]

Kind == Schema[entity.name].table
Columns == Kind.notNull \union Kind.nullable

Init ==
  /\ entity \in Focus
  /\ rows \in LeftTables(Schema[entity.name], entity.columns, entity.left)
  /\ nextId = entity.left + 1
  /\ task = [w \in Workers |-> Idle]
  /\ wish = [w \in Workers |-> [c \in Columns |-> Keep]]
  /\ last = [w \in Workers |-> NoCall]
  /\ out = [w \in Workers |-> "none"]

Tasks ==
  [op : {"create", "update", "updateOne", "delete", "deleteOne"},
   id : Nat \union {Null},
   where : {{}} \union {{Predicate(op, c, 0)} : op \in {"EQ", "IsNil", "GT"},
                                                c \in entity.columns}]

\* A builder starts with no wish; a create sets what is not in focus.
Start(w) ==
  /\ task[w] = Idle /\ task'[w] \in Tasks
  /\ task' = [task EXCEPT ![w] = task'[w]]
  /\ wish' = [wish EXCEPT ![w] =
                [c \in Columns |->
                   IF task'[w].op = "create" /\ c \notin entity.columns
                   THEN Put(1) ELSE Keep]]
  /\ out' = [out EXCEPT ![w] = "none"]
  /\ UNCHANGED <<entity, rows, nextId, last>>

\* What a call leaves of a wish. A row that does not exist yet has nothing
\* to add to and nothing to clear.
Granted(op, old, call) ==
  CASE call.kind = "set" -> Put(call.val)
    [] call.kind = "reset" -> Keep
    [] call.kind = "add" ->
         IF op = "create" THEN old
         ELSE IF old.kind = "bump" THEN Bump(old.val + call.val)
         ELSE Bump(call.val)
    [] call.kind = "clear" -> IF op = "create" THEN Keep ELSE Clear

Call(w) ==
  /\ task[w] # Idle
  /\ UNCHANGED <<entity, rows, nextId, task, out>>
  /\ \E c \in entity.columns, kind \in {"set", "add", "clear", "reset"}, v \in 0..1 :
       LET call == [kind |-> kind, col |-> c, val |-> v] IN
       /\ last' = [last EXCEPT ![w] = call]
       /\ wish' = [wish EXCEPT ![w][c] = Granted(task[w].op, @, call)]

----------------------------------------------------------------------------
Granting(row, wishes) ==
  [c \in Columns |->
     CASE wishes[c].kind = "keep" -> row[c]
       [] wishes[c].kind = "put" -> wishes[c].val
       [] wishes[c].kind = "clear" -> Null
       [] wishes[c].kind = "bump" ->
            (IF row[c] = Null THEN 0 ELSE row[c]) + wishes[c].val]

NewRow == [c \in Columns |->
             IF c \in DOMAIN Kind.default THEN Kind.default[c] ELSE Null]

Duplicates(table) ==
  \E i, j \in DOMAIN table : \E c \in Kind.unique : i # j /\ table[i][c] = table[j][c]

Answer(w, how, table) ==
  /\ rows' = table
  /\ out' = [out EXCEPT ![w] = how]
  /\ task' = [task EXCEPT ![w] = Idle]
  /\ last' = [last EXCEPT ![w] = NoCall]
  /\ wish' = [wish EXCEPT ![w] = [c \in Columns |-> Keep]]
  /\ UNCHANGED entity

SaveCreate(w) ==
  LET row == Granting(NewRow, wish[w])
      id == IF Kind.key = "int" THEN nextId ELSE task[w].id
      table == Over([i \in {id} |-> row], rows) IN
  /\ task[w].op = "create"
  /\ IF \E c \in Kind.notNull : row[c] = Null
     THEN Answer(w, "Invalid", rows) /\ UNCHANGED nextId
     ELSE IF id \in DOMAIN rows \/ Duplicates(table)
     THEN Answer(w, "Constraint", rows) /\ UNCHANGED nextId
     ELSE /\ Answer(w, "Saved", table)
          /\ nextId' = IF Kind.key = "int" THEN nextId + 1 ELSE nextId

About(w) ==
  Matching(rows, task[w].where)
    \intersect (IF task[w].op \in {"updateOne", "deleteOne"} THEN {task[w].id}
                ELSE DOMAIN rows)

SaveUpdate(w) ==
  LET table == [i \in DOMAIN rows |->
                  IF i \in About(w) THEN Granting(rows[i], wish[w]) ELSE rows[i]] IN
  /\ task[w].op \in {"update", "updateOne"}
  /\ IF task[w].op = "updateOne" /\ About(w) = {} THEN Answer(w, "NotFound", rows)
     ELSE IF Duplicates(table) THEN Answer(w, "Constraint", rows)
     ELSE Answer(w, "Saved", table)
  /\ UNCHANGED nextId

SaveDelete(w) ==
  /\ task[w].op \in {"delete", "deleteOne"}
  /\ IF task[w].op = "deleteOne" /\ About(w) = {} THEN Answer(w, "NotFound", rows)
     ELSE Answer(w, "Saved", Restrict(rows, DOMAIN rows \ About(w)))
  /\ UNCHANGED nextId

Next == \E w \in Workers :
  Start(w) \/ Call(w) \/ SaveCreate(w) \/ SaveUpdate(w) \/ SaveDelete(w)

Spec == Init /\ [][Next]_vars

=============================================================================
