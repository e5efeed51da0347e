----------------------------- MODULE EntStoreProofs -----------------------------
(***************************************************************************)
(* The generated data layer, for any goroutines, ids and columns, and any *)
(* number of builders and calls: the rows keep their columns, the         *)
(* database refuses nothing but duplicates, and the builders implement    *)
(* RowWishes.                                                             *)
(***************************************************************************)
EXTENDS EntStore, FiniteSetTheorems, TLAPS

-----------------------------------------------------------------------------
(* The generated files                                                     *)

\* Values for some of the columns of S.
Changes(S) == UNION {[D -> Int] : D \in SUBSET S}

\* What the files of one entity have to agree on.
Agrees(e) ==
  /\ e.table.key \in {"int", "text"}
  /\ e.columns = e.table.notNull \cup e.table.nullable
  /\ e.table.notNull \cap e.table.nullable = {}
  /\ e.create.required = e.table.notNull /\ e.create.writes = e.columns
  /\ e.create.default = e.table.default /\ e.table.default \in Changes(e.table.notNull)
  /\ e.fields.all = e.columns /\ e.update.set = e.columns /\ e.updateOne.set = e.columns
  /\ e.update.add = e.fields.numeric /\ e.updateOne.add = e.fields.numeric
  /\ e.fields.numeric \subseteq e.columns
  /\ e.update.clear = e.fields.nullable /\ e.updateOne.clear = e.fields.nullable
  /\ e.fields.nullable = e.table.nullable
  /\ e.table.unique \subseteq e.table.notNull
  /\ e.table.unique \cap (e.fields.numeric \cup DOMAIN e.table.default) = {}

\* Values for some columns are a function of integers on them.
LEMMA ChangesAre ==
  ASSUME NEW S, NEW f
  PROVE  f \in Changes(S) <=> DOMAIN f \subseteq S /\ f \in [DOMAIN f -> Int]
BY DEF Changes

\* No default is no value for no column.
LEMMA NothingChanges == \A S : Nothing \in Changes(S) /\ DOMAIN Nothing = {}
BY DEF Nothing, Changes

\* admins.
LEMMA AdminAgrees == Agrees(Schema.Admin)
BY NothingChanges DEF Agrees, Schema, Entity, AdminTable, AdminColumns, AdminCreate, AdminUpdate,
   AdminUpdateOne, AdminFields, Table, Creates, Updates, Fields

\* audit_events.
LEMMA AuditEventAgrees == Agrees(Schema.AuditEvent)
BY NothingChanges DEF Agrees, Schema, Entity, AuditEventTable, AuditEventColumns, AuditEventCreate,
   AuditEventUpdate, AuditEventUpdateOne, AuditEventFields, Table, Creates, Updates, Fields

\* ip_bans.
LEMMA IpBanAgrees == Agrees(Schema.IpBan)
BY NothingChanges DEF Agrees, Schema, Entity, IpBanTable, IpBanColumns, IpBanCreate, IpBanUpdate,
   IpBanUpdateOne, IpBanFields, Table, Creates, Updates, Fields

\* login_failure_events.
LEMMA LoginFailureEventAgrees == Agrees(Schema.LoginFailureEvent)
BY NothingChanges DEF Agrees, Schema, Entity, LoginFailureEventTable, LoginFailureEventColumns,
   LoginFailureEventCreate, LoginFailureEventUpdate, LoginFailureEventUpdateOne, LoginFailureEventFields,
   Table, Creates, Updates, Fields

\* A value for one column.
LEMMA WithIs ==
  ASSUME NEW c, NEW v
  PROVE  /\ DOMAIN With(c, v) = {c} /\ With(c, v)[c] = v
         /\ v \in Int => With(c, v) \in [{c} -> Int]
BY DEF With

\* sessions.
LEMMA SessionAgrees == Agrees(Schema.Session)
<1>1. /\ DOMAIN With("language", 1) = {"language"}
      /\ With("language", 1) \in Changes({"csrf", "language", "created_at", "expires_at"})
  <2>1. With("language", 1) \in [{"language"} -> Int]
    BY DEF With
  <2> QED
    BY <2>1, WithIs DEF Changes
<1> QED
  BY <1>1 DEF Agrees, Schema, Entity, SessionTable, SessionColumns, SessionCreate, SessionUpdate,
     SessionUpdateOne, SessionFields, Table, Creates, Updates, Fields

\* shares.
LEMMA ShareAgrees == Agrees(Schema.Share)
<1> DEFINE e == Schema.Share
<1>1. /\ e.table = ShareTable /\ e.columns = ShareColumns /\ e.create = ShareCreate
      /\ e.update = ShareUpdate /\ e.updateOne = ShareUpdateOne /\ e.fields = ShareFields
  BY DEF Schema, Entity
<1>2. /\ ShareTable.key = "text" /\ ShareTable.notNull = ShareRequired /\ ShareTable.nullable = ShareNullable
      /\ ShareTable.unique = {} /\ ShareTable.default = ShareCreate.default
  BY DEF ShareTable, ShareCreate, Table, Creates, ShareRequired, ShareNullable
<1>3. /\ ShareCreate.required = ShareRequired /\ ShareCreate.writes = ShareWritten
      /\ ShareCreate.default = [c \in {"security_warning", "admin_message"} |-> 0]
  BY DEF ShareCreate, Creates
<1>4. ShareUpdate = ShareUpdateOne /\ ShareUpdate.set = ShareColumns /\ ShareUpdate.add = {"size"} /\ ShareUpdate.clear = ShareNullable
  BY DEF ShareUpdate, ShareUpdateOne, Updates
<1>5. ShareFields.all = ShareColumns /\ ShareFields.numeric = {"size"} /\ ShareFields.nullable = ShareNullable
  BY DEF ShareFields, Fields
<1>6. ShareColumns = ShareRequired \cup ShareNullable /\ "size" \in ShareColumns
  BY DEF ShareColumns, ShareRequired, ShareNullable
<1>7. ShareWritten = ShareColumns
  BY DEF ShareWritten, ShareColumns
<1>8. ShareRequired \cap ShareNullable = {}
  BY DEF ShareRequired, ShareNullable
<1>9. ShareCreate.default \in Changes(ShareRequired)
  <2>1. ShareCreate.default \in [{"security_warning", "admin_message"} -> Int]
    BY <1>3
  <2>2. {"security_warning", "admin_message"} \subseteq ShareRequired
    BY DEF ShareRequired
  <2> QED
    BY <2>1, <2>2 DEF Changes
<1> HIDE DEF e
<1> QED
  BY <1>1, <1>2, <1>3, <1>4, <1>5, <1>6, <1>7, <1>8, <1>9 DEF Agrees, e

\* So do those of the entity a behaviour is about.
LEMMA FilesAgree == ASSUME NEW name \in DOMAIN Schema PROVE Agrees(Schema[name])
<1>1. DOMAIN Schema = {"Admin", "AuditEvent", "IpBan", "LoginFailureEvent", "Session", "Share"}
  BY DEF Schema
<1> QED
  BY <1>1, AdminAgrees, AuditEventAgrees, IpBanAgrees, LoginFailureEventAgrees, SessionAgrees, ShareAgrees

-----------------------------------------------------------------------------
(* The operators on values                                                 *)

\* One value is put before the others.
LEMMA PutBefore ==
  ASSUME NEW S, NEW f \in Changes(S), NEW c \in S, NEW v \in Int
  PROVE  LET g == Over(With(c, v), f) IN
         /\ g \in Changes(S) /\ DOMAIN g = {c} \cup DOMAIN f /\ g[c] = v
         /\ \A x \in DOMAIN f \ {c} : g[x] = f[x]
<1> DEFINE g == Over(With(c, v), f)
<1>1. DOMAIN With(c, v) = {c} /\ With(c, v)[c] = v /\ f \in [DOMAIN f -> Int] /\ DOMAIN f \subseteq S
  BY WithIs, ChangesAre
<1>2. g = [x \in {c} \cup DOMAIN f |-> IF x \in {c} THEN With(c, v)[x] ELSE f[x]]
  BY <1>1 DEF Over
<1>3. g \in [{c} \cup DOMAIN f -> Int]
  BY <1>1, <1>2
<1> HIDE DEF g
<1> QED
  BY <1>1, <1>2, <1>3, ChangesAre DEF g

\* Defaults are put behind.
LEMMA PutBehind ==
  ASSUME NEW S, NEW f \in Changes(S), NEW d \in Changes(S)
  PROVE  Over(f, d) \in Changes(S)
<1> DEFINE g == Over(f, d)
<1>1. f \in [DOMAIN f -> Int] /\ DOMAIN f \subseteq S /\ d \in [DOMAIN d -> Int] /\ DOMAIN d \subseteq S
  BY ChangesAre
<1>2. g = [x \in DOMAIN f \cup DOMAIN d |-> IF x \in DOMAIN f THEN f[x] ELSE d[x]]
  BY <1>1 DEF Over
<1>3. g \in [DOMAIN f \cup DOMAIN d -> Int]
  BY <1>1, <1>2
<1> HIDE DEF g
<1> QED
  BY <1>1, <1>2, <1>3, ChangesAre DEF g

\* Nothing is left out of what names only columns of S.
LEMMA AllKept ==
  ASSUME NEW S, NEW f \in Changes(S) PROVE Restrict(f, DOMAIN f \cap S) = f
<1>1. DOMAIN f \subseteq S /\ f \in [DOMAIN f -> Int]
  BY ChangesAre
<1>2. DOMAIN f \cap S = DOMAIN f
  BY <1>1
<1> QED
  BY <1>1, <1>2 DEF Restrict

\* A single column is taken out.
LEMMA WithoutOne ==
  ASSUME NEW S, NEW f \in Changes(S), NEW c
  PROVE  LET g == Without(f, c) IN
         /\ g \in Changes(S) /\ DOMAIN g = DOMAIN f \ {c}
         /\ \A x \in DOMAIN f \ {c} : g[x] = f[x]
<1> DEFINE g == Without(f, c)
<1>1. f \in [DOMAIN f -> Int] /\ DOMAIN f \subseteq S
  BY ChangesAre
<1>2. g = [x \in DOMAIN f \ {c} |-> f[x]]
  BY DEF Without, Restrict
<1>3. g \in [DOMAIN f \ {c} -> Int]
  BY <1>1, <1>2
<1> HIDE DEF g
<1> QED
  BY <1>1, <1>2, <1>3, ChangesAre DEF g

-----------------------------------------------------------------------------
(* The mutation of a builder                                               *)

Ops == {"none", "create", "update", "updateOne", "delete", "deleteOne"}

\* The mutations the calls on a builder lead to: of columns C, of which N are
\* numeric and K nullable, with restrictions R.
Mutations(C, N, K, R) ==
  [op : Ops, id : Nat \cup {Null}, where : R,
   set : Changes(C), add : Changes(N), cleared : SUBSET K]

\* The call about c leaves the others' wishes, and what the builder is for.
OnlyAbout(m1, m2, c) ==
  /\ m2.op = m1.op /\ m2.id = m1.id /\ m2.where = m1.where
  /\ \A x : x # c => WishOf(m2, x) = WishOf(m1, x)

PutWish(v) == [kind |-> "put", val |-> v]
BumpWish(n) == [kind |-> "bump", val |-> n]
ClearWish == [kind |-> "clear", val |-> 0]
KeepWish == [kind |-> "keep", val |-> 0]

\* A wish, case by case.
LEMMA WishIs ==
  ASSUME NEW mu, NEW c
  PROVE  /\ mu.op # "create" /\ c \in DOMAIN mu.add => WishOf(mu, c) = BumpWish(mu.add[c])
         /\ c \in DOMAIN mu.set /\ (mu.op = "create" \/ c \notin DOMAIN mu.add) =>
              WishOf(mu, c) = PutWish(mu.set[c])
         /\ mu.op # "create" /\ c \in mu.cleared /\ c \notin DOMAIN mu.set /\ c \notin DOMAIN mu.add =>
              WishOf(mu, c) = ClearWish
         /\ /\ c \notin DOMAIN mu.set
            /\ mu.op = "create" \/ (c \notin DOMAIN mu.add /\ c \notin mu.cleared)
            => WishOf(mu, c) = KeepWish
BY DEF WishOf, BumpWish, PutWish, ClearWish, KeepWish

\* Two mutations that agree on a column have one wish for it.
LEMMA SameWish ==
  ASSUME NEW m1, NEW m2, NEW c, m1.op = m2.op,
         c \in DOMAIN m1.set <=> c \in DOMAIN m2.set, c \in DOMAIN m1.set => m1.set[c] = m2.set[c],
         c \in DOMAIN m1.add <=> c \in DOMAIN m2.add, c \in DOMAIN m1.add => m1.add[c] = m2.add[c],
         c \in m1.cleared <=> c \in m2.cleared
  PROVE  WishOf(m1, c) = WishOf(m2, c)
BY DEF WishOf

\* A set decides what the column will be.
LEMMA SetGrants ==
  ASSUME NEW C, NEW N, NEW K, NEW R, NEW mu \in Mutations(C, N, K, R), NEW c \in C, NEW v, v \in Int
  PROVE  LET m2 == SetValue(mu, c, v) IN
         m2 \in Mutations(C, N, K, R) /\ OnlyAbout(mu, m2, c) /\ WishOf(m2, c) = PutWish(v)
<1> DEFINE set == mu.set
           add == mu.add
           f == Over(With(c, v), set)
           g == Without(add, c)
           m2 == [mu EXCEPT !.set = f, !.add = g, !.cleared = mu.cleared]
<1>0. set \in Changes(C) /\ add \in Changes(N) /\ mu.cleared \subseteq K
  BY DEF Mutations
<1>1. SetValue(mu, c, v) = m2
  BY DEF SetValue, Mutations
<1> HIDE DEF set, add
<1>2. f \in Changes(C) /\ DOMAIN f = {c} \cup DOMAIN set /\ f[c] = v
      /\ \A x \in DOMAIN set \ {c} : f[x] = set[x]
  <2> DEFINE val == v
  <2>1. val \in Int
    OBVIOUS
  <2> HIDE DEF val
  <2>2. LET h == Over(With(c, val), set) IN
        h \in Changes(C) /\ DOMAIN h = {c} \cup DOMAIN set /\ h[c] = val
        /\ \A x \in DOMAIN set \ {c} : h[x] = set[x]
    BY <1>0, <2>1, PutBefore
  <2> QED
    BY <2>2 DEF val
<1>3. g \in Changes(N) /\ DOMAIN g = DOMAIN add \ {c}
      /\ \A x \in DOMAIN add \ {c} : g[x] = add[x]
  BY <1>0, WithoutOne
<1> HIDE DEF f, g
<1>4. /\ m2.op = mu.op /\ m2.id = mu.id /\ m2.where = mu.where
      /\ m2.set = f /\ m2.add = g /\ m2.cleared = mu.cleared /\ m2 \in Mutations(C, N, K, R)
  BY <1>0, <1>2, <1>3 DEF Mutations, set, add
<1> HIDE DEF m2
<1>5. ASSUME NEW x, x # c PROVE WishOf(m2, x) = WishOf(mu, x)
  BY <1>2, <1>3, <1>4, <1>5, SameWish DEF set, add
<1>6. WishOf(m2, c) = PutWish(v)
  BY <1>2, <1>3, <1>4, WishIs DEF set, add
<1> QED
  BY <1>1, <1>4, <1>5, <1>6 DEF OnlyAbout

\* An addition joins the one before it, and waits behind a value of a create.
LEMMA AddGrants ==
  ASSUME NEW C, NEW N, NEW K, NEW R, NEW mu \in Mutations(C, N, K, R), NEW c \in N, NEW n \in Int
  PROVE  LET m2   == AddValue(mu, c, n)
             wish == WishOf(mu, c) IN
         /\ m2 \in Mutations(C, N, K, R) /\ OnlyAbout(mu, m2, c)
         /\ mu.op = "create" => WishOf(m2, c) = wish
         /\ mu.op # "create" =>
              WishOf(m2, c) = BumpWish(IF wish.kind = "bump" THEN wish.val + n ELSE n)
<1> DEFINE add == mu.add
           sum == IF c \in DOMAIN add THEN add[c] + n ELSE n
           g == Over(With(c, sum), add)
           m2 == [mu EXCEPT !.set = mu.set, !.add = g, !.cleared = mu.cleared]
<1>0. mu.set \in Changes(C) /\ add \in Changes(N) /\ mu.cleared \subseteq K
  BY DEF Mutations
<1>1. AddValue(mu, c, n) = m2
  BY DEF AddValue, Mutations
<1> HIDE DEF add
<1>2. sum \in Int
  BY <1>0, ChangesAre
<1> HIDE DEF sum
<1>3. g \in Changes(N) /\ DOMAIN g = {c} \cup DOMAIN add /\ g[c] = sum
      /\ \A x \in DOMAIN add \ {c} : g[x] = add[x]
  BY <1>0, <1>2, PutBefore
<1> HIDE DEF g
<1>4. /\ m2.op = mu.op /\ m2.id = mu.id /\ m2.where = mu.where
      /\ m2.set = mu.set /\ m2.add = g /\ m2.cleared = mu.cleared /\ m2 \in Mutations(C, N, K, R)
  BY <1>0, <1>3 DEF Mutations, add
<1> HIDE DEF m2
<1>5. ASSUME NEW x, x # c PROVE WishOf(m2, x) = WishOf(mu, x)
  BY <1>3, <1>4, <1>5, SameWish DEF add
<1>6. mu.op = "create" => WishOf(m2, c) = WishOf(mu, c)
  BY <1>4 DEF WishOf
<1>7. mu.op # "create" => WishOf(m2, c) = BumpWish(sum)
  BY <1>3, <1>4, WishIs DEF add
<1>8. mu.op # "create" =>
        sum = IF WishOf(mu, c).kind = "bump" THEN WishOf(mu, c).val + n ELSE n
  <2>1. CASE c \in DOMAIN add
    BY <2>1, WishIs DEF BumpWish, sum, add
  <2>2. CASE c \notin DOMAIN add
    BY <2>2, WishIs DEF PutWish, ClearWish, KeepWish, sum, add
  <2> QED
    BY <2>1, <2>2
<1> QED
  BY <1>1, <1>4, <1>5, <1>6, <1>7, <1>8 DEF OnlyAbout

Out(mu, c, D) == [mu EXCEPT !.set = Without(mu.set, c), !.add = Without(mu.add, c), !.cleared = D]

\* What takes a column out of the lists, and marks it as cleared or not.
LEMMA TakesOut ==
  ASSUME NEW C, NEW N, NEW K, NEW R, NEW mu \in Mutations(C, N, K, R), NEW c, NEW D \in SUBSET K,
         \A x : x # c => (x \in D <=> x \in mu.cleared)
  PROVE  LET m2 == Out(mu, c, D) IN
         /\ m2 \in Mutations(C, N, K, R) /\ OnlyAbout(mu, m2, c)
         /\ WishOf(m2, c) = IF mu.op # "create" /\ c \in D THEN ClearWish ELSE KeepWish
<1> DEFINE set == mu.set
           add == mu.add
           f == Without(set, c)
           g == Without(add, c)
           m2 == [mu EXCEPT !.set = f, !.add = g, !.cleared = D]
<1>0. set \in Changes(C) /\ add \in Changes(N)
  BY DEF Mutations
<1> HIDE DEF set, add
<1>1. f \in Changes(C) /\ DOMAIN f = DOMAIN set \ {c}
      /\ \A x \in DOMAIN set \ {c} : f[x] = set[x]
  BY <1>0, WithoutOne
<1>2. g \in Changes(N) /\ DOMAIN g = DOMAIN add \ {c}
      /\ \A x \in DOMAIN add \ {c} : g[x] = add[x]
  BY <1>0, WithoutOne
<1> HIDE DEF f, g
<1>3. /\ m2.op = mu.op /\ m2.id = mu.id /\ m2.where = mu.where
      /\ m2.set = f /\ m2.add = g /\ m2.cleared = D /\ m2 \in Mutations(C, N, K, R)
  BY <1>0, <1>1, <1>2 DEF Mutations, set, add
<1> HIDE DEF m2
<1>4. ASSUME NEW x, x # c PROVE WishOf(m2, x) = WishOf(mu, x)
  BY <1>1, <1>2, <1>3, <1>4, SameWish DEF set, add
<1>5. WishOf(m2, c) = IF mu.op # "create" /\ c \in D THEN ClearWish ELSE KeepWish
  BY <1>1, <1>2, <1>3, WishIs DEF set, add
<1> QED
  BY <1>3, <1>4, <1>5 DEF OnlyAbout, Out, m2, f, g, set, add

\* A clear asks for NULL; a row that is yet to be has nothing to clear.
LEMMA ClearGrants ==
  ASSUME NEW C, NEW N, NEW K, NEW R, NEW mu \in Mutations(C, N, K, R), NEW c \in K
  PROVE  LET m2 == ClearValue(mu, c) IN
         /\ m2 \in Mutations(C, N, K, R) /\ OnlyAbout(mu, m2, c)
         /\ WishOf(m2, c) = IF mu.op = "create" THEN KeepWish ELSE ClearWish
<1> DEFINE D == mu.cleared \cup {c}
<1>1. D \in SUBSET K /\ c \in D /\ \A x : x # c => (x \in D <=> x \in mu.cleared)
  BY DEF Mutations
<1>2. ClearValue(mu, c) = Out(mu, c, D)
  BY DEF ClearValue, Out, Mutations
<1> HIDE DEF D
<1>3. LET m2 == Out(mu, c, D) IN
      /\ m2 \in Mutations(C, N, K, R) /\ OnlyAbout(mu, m2, c)
      /\ WishOf(m2, c) = IF mu.op # "create" /\ c \in D THEN ClearWish ELSE KeepWish
  BY <1>1, TakesOut
<1> QED
  BY <1>1, <1>2, <1>3

\* A reset leaves the column alone.
LEMMA ResetGrants ==
  ASSUME NEW C, NEW N, NEW K, NEW R, NEW mu \in Mutations(C, N, K, R), NEW c
  PROVE  LET m2 == ResetValue(mu, c) IN
         m2 \in Mutations(C, N, K, R) /\ OnlyAbout(mu, m2, c) /\ WishOf(m2, c) = KeepWish
<1> DEFINE D == mu.cleared \ {c}
<1>1. D \in SUBSET K /\ c \notin D /\ \A x : x # c => (x \in D <=> x \in mu.cleared)
  BY DEF Mutations
<1>2. ResetValue(mu, c) = Out(mu, c, D)
  BY DEF ResetValue, Out, Mutations
<1> HIDE DEF D
<1>3. LET m2 == Out(mu, c, D) IN
      /\ m2 \in Mutations(C, N, K, R) /\ OnlyAbout(mu, m2, c)
      /\ WishOf(m2, c) = IF mu.op # "create" /\ c \in D THEN ClearWish ELSE KeepWish
  BY <1>1, TakesOut
<1> QED
  BY <1>1, <1>2, <1>3

\* A builder's set resets a number first; it comes to the same.
LEMMA UpdateSetGrants ==
  ASSUME NEW C, NEW N, NEW K, NEW R, NEW mu \in Mutations(C, N, K, R), NEW c \in C, NEW v, v \in Int, NEW updates
  PROVE  LET m2 == UpdateSet(updates, mu, c, v) IN
         m2 \in Mutations(C, N, K, R) /\ OnlyAbout(mu, m2, c) /\ WishOf(m2, c) = PutWish(v)
<1>1. CASE c \notin updates.add
  BY <1>1, SetGrants DEF UpdateSet
<1>2. CASE c \in updates.add
  <2> DEFINE m1 == ResetValue(mu, c)
             m2 == SetValue(m1, c, v)
  <2>1. m1 \in Mutations(C, N, K, R) /\ OnlyAbout(mu, m1, c)
    BY ResetGrants
  <2>2. UpdateSet(updates, mu, c, v) = m2
    BY <1>2 DEF UpdateSet
  <2> HIDE DEF m1
  <2>3. m2 \in Mutations(C, N, K, R) /\ OnlyAbout(m1, m2, c) /\ WishOf(m2, c) = PutWish(v)
    BY <2>1, SetGrants
  <2> HIDE DEF m2
  <2> QED
    BY <2>1, <2>2, <2>3 DEF OnlyAbout
<1> QED
  BY <1>1, <1>2

-----------------------------------------------------------------------------
(* What a save makes of a row                                              *)

\* Granting and NewRow of RowWishes, of columns C.
GrantedRow(C, row, wishes) ==
  [c \in C |->
     CASE wishes[c].kind = "keep" -> row[c]
       [] wishes[c].kind = "put" -> wishes[c].val
       [] wishes[c].kind = "clear" -> Null
       [] wishes[c].kind = "bump" ->
            (IF row[c] = Null THEN 0 ELSE row[c]) + wishes[c].val]
DefaultRow(C, default) == [c \in C |-> IF c \in DOMAIN default THEN default[c] ELSE Null]

AllWishes(C, mu) == [c \in C |-> WishOf(mu, c)]

\* It is a function of the columns.
LEMMA GrantedIsRow ==
  ASSUME NEW C, NEW row, NEW wishes
  PROVE  LET want == GrantedRow(C, row, wishes) IN want = [c \in C |-> want[c]]
<1> DEFINE value(c) == CASE wishes[c].kind = "keep" -> row[c]
                         [] wishes[c].kind = "put" -> wishes[c].val
                         [] wishes[c].kind = "clear" -> Null
                         [] wishes[c].kind = "bump" ->
                              (IF row[c] = Null THEN 0 ELSE row[c]) + wishes[c].val
           want     == GrantedRow(C, row, wishes)
<1>1. want = [c \in C |-> value(c)]
  BY DEF GrantedRow
<1> HIDE DEF value, want
<1> QED
  BY <1>1 DEF want

\* A wish, granted for one column.
LEMMA GrantedColumn ==
  ASSUME NEW C, NEW mu, NEW row, NEW c \in C
  PROVE  LET value == GrantedRow(C, row, AllWishes(C, mu))[c] IN
         /\ mu.op # "create" /\ c \in DOMAIN mu.add =>
              value = (IF row[c] = Null THEN 0 ELSE row[c]) + mu.add[c]
         /\ c \in DOMAIN mu.set /\ (mu.op = "create" \/ c \notin DOMAIN mu.add) => value = mu.set[c]
         /\ mu.op # "create" /\ c \in mu.cleared /\ c \notin DOMAIN mu.set /\ c \notin DOMAIN mu.add =>
              value = Null
         /\ /\ c \notin DOMAIN mu.set
            /\ mu.op = "create" \/ (c \notin DOMAIN mu.add /\ c \notin mu.cleared)
            => value = row[c]
<1> DEFINE value == GrantedRow(C, row, AllWishes(C, mu))[c]
           wish  == WishOf(mu, c)
<1>1. value = CASE wish.kind = "keep" -> row[c]
                [] wish.kind = "put" -> wish.val
                [] wish.kind = "clear" -> Null
                [] wish.kind = "bump" -> (IF row[c] = Null THEN 0 ELSE row[c]) + wish.val
  BY DEF GrantedRow, AllWishes
<1> HIDE DEF value, wish
<1>2. CASE mu.op # "create" /\ c \in DOMAIN mu.add
  <2>1. wish.kind = "bump" /\ wish.val = mu.add[c]
    BY <1>2, WishIs DEF BumpWish, wish
  <2> QED
    BY <1>1, <1>2, <2>1 DEF value
<1>3. CASE c \in DOMAIN mu.set /\ (mu.op = "create" \/ c \notin DOMAIN mu.add)
  <2>1. wish.kind = "put" /\ wish.val = mu.set[c]
    BY <1>3, WishIs DEF PutWish, wish
  <2> QED
    BY <1>1, <1>3, <2>1 DEF value
<1>4. CASE mu.op # "create" /\ c \in mu.cleared /\ c \notin DOMAIN mu.set /\ c \notin DOMAIN mu.add
  <2>1. wish.kind = "clear"
    BY <1>4, WishIs DEF ClearWish, wish
  <2> QED
    BY <1>1, <1>4, <2>1 DEF value
<1>5. CASE c \notin DOMAIN mu.set /\ (mu.op = "create" \/ (c \notin DOMAIN mu.add /\ c \notin mu.cleared))
  <2>1. wish.kind = "keep"
    BY <1>5, WishIs DEF KeepWish, wish
  <2> QED
    BY <1>1, <1>5, <2>1 DEF value
<1> QED
  BY <1>2, <1>3, <1>4, <1>5 DEF value

\* The UPDATE grants the wishes; it makes no NULL of a column that cannot be
\* cleared, and gives a column that is no number the value that was set.
LEMMA UpdateGrants ==
  ASSUME NEW C, NEW N, N \subseteq C, NEW K, NEW R, NEW mu \in Mutations(C, N, K, R), mu.op # "create",
         NEW updates, updates.set = C, updates.add = N, updates.clear = K,
         NEW row \in [C -> Int \cup {Null}]
  PROVE  LET new == UpdatedRow(row, UpdateSpec(updates, mu)) IN
         /\ new = GrantedRow(C, row, AllWishes(C, mu))
         /\ new \in [C -> Int \cup {Null}]
         /\ \A c \in C \ K : row[c] \in Int => new[c] \in Int
         /\ \A c \in C \ (N \cup K) : new[c] = IF c \in DOMAIN mu.set THEN mu.set[c] ELSE row[c]
<1> DEFINE set  == mu.set
           add  == mu.add
           spec == UpdateSpec(updates, mu)
           new  == UpdatedRow(row, spec)
           want == GrantedRow(C, row, AllWishes(C, mu))
<1>1. set \in Changes(C) /\ add \in Changes(N) /\ mu.cleared \subseteq K
  BY DEF Mutations
<1>2. /\ spec.set = Restrict(set, DOMAIN set \cap C) /\ spec.add = Restrict(add, DOMAIN add \cap N)
      /\ spec.clear = mu.cleared
  BY <1>1 DEF UpdateSpec
<1> HIDE DEF set, add, spec
<1>3. DOMAIN set \subseteq C /\ DOMAIN add \subseteq N /\ \A c \in DOMAIN set : set[c] \in Int
  BY <1>1, ChangesAre
<1>4. \A c \in DOMAIN add : add[c] \in Int
  BY <1>1, ChangesAre
<1>5. spec.set = set
  BY <1>1, <1>2, AllKept
<1>6. spec.add = add
  BY <1>1, <1>2, AllKept
<1>7. ASSUME NEW c \in C
      PROVE  /\ new[c] = want[c] /\ new[c] \in Int \cup {Null}
             /\ c \notin K => (row[c] \in Int => new[c] \in Int)
             /\ c \notin N /\ c \notin K => new[c] = IF c \in DOMAIN set THEN set[c] ELSE row[c]
  <2>1. new[c] = CASE c \in DOMAIN add -> (IF row[c] = Null THEN 0 ELSE row[c]) + add[c]
                   [] c \in DOMAIN set \ DOMAIN add -> set[c]
                   [] c \in mu.cleared \ (DOMAIN set \cup DOMAIN add) -> Null
                   [] OTHER -> row[c]
    BY <1>2, <1>5, <1>6 DEF UpdatedRow
  <2> HIDE DEF new, want
  <2>2. row[c] \in Int \cup {Null}
    OBVIOUS
  <2>3. CASE c \in DOMAIN add
    <3>1. new[c] = (IF row[c] = Null THEN 0 ELSE row[c]) + add[c]
      BY <2>1, <2>3
    <3>2. want[c] = (IF row[c] = Null THEN 0 ELSE row[c]) + add[c]
      BY <2>3, GrantedColumn DEF want, add
    <3>3. new[c] \in Int
      BY <1>4, <2>2, <2>3, <3>1
    <3> QED
      BY <1>3, <2>3, <3>1, <3>2, <3>3
  <2>4. CASE c \in DOMAIN set \ DOMAIN add
    <3>1. new[c] = set[c]
      BY <2>1, <2>4
    <3>2. want[c] = set[c]
      BY <2>4, GrantedColumn DEF want, set, add
    <3> QED
      BY <1>3, <2>4, <3>1, <3>2
  <2>5. CASE c \in mu.cleared \ (DOMAIN set \cup DOMAIN add)
    <3>1. new[c] = Null
      BY <2>1, <2>5
    <3>2. want[c] = Null
      BY <2>5, GrantedColumn DEF want, set, add
    <3> QED
      BY <1>1, <2>5, <3>1, <3>2
  <2>6. CASE c \notin mu.cleared \cup DOMAIN set \cup DOMAIN add
    <3>1. new[c] = row[c]
      BY <2>1, <2>6
    <3>2. want[c] = row[c]
      BY <2>6, GrantedColumn DEF want, set, add
    <3> QED
      BY <2>2, <2>6, <3>1, <3>2
  <2> QED
    BY <2>3, <2>4, <2>5, <2>6
<1>8. new = [c \in C |-> new[c]]
  BY DEF UpdatedRow
<1>9. want = [c \in C |-> want[c]]
  BY GrantedIsRow
<1> HIDE DEF new, want
<1>10. new = want
  BY <1>7, <1>8, <1>9
<1> QED
  BY <1>7, <1>8, <1>10 DEF new, want, spec, set

\* So does the INSERT, of a row with the defaults; check lets it pass when no
\* required column is left without a value, and a column without a default
\* then has the value that was set.
LEMMA InsertGrants ==
  ASSUME NEW C, NEW N, NEW K, NEW R, NEW mu \in Mutations(C, N, K, R), mu.op = "create",
         NEW creates, NEW table, creates.writes = C, creates.default = table.default,
         table.default \in Changes(C), creates.required \subseteq C
  PROVE  LET filled == Defaults(creates, mu)
             new    == InsertedRow(C, table, CreateSpec(creates, filled)) IN
         /\ new = GrantedRow(C, DefaultRow(C, table.default), AllWishes(C, mu))
         /\ new \in [C -> Int \cup {Null}]
         /\ Checked(creates, filled) <=> \A c \in creates.required : new[c] # Null
         /\ \A c \in C \ DOMAIN table.default : new[c] # Null => c \in DOMAIN mu.set /\ new[c] = mu.set[c]
<1> DEFINE set     == mu.set
           given   == table.default
           filled  == Defaults(creates, mu)
           full    == filled.set
           spec    == CreateSpec(creates, filled)
           new     == InsertedRow(C, table, spec)
           want    == GrantedRow(C, DefaultRow(C, table.default), AllWishes(C, mu))
<1>1. set \in Changes(C) /\ given \in Changes(C)
  BY DEF Mutations
<1>2. full = Over(set, given)
  BY DEF Defaults, Mutations
<1>3. spec = Restrict(full, DOMAIN full \cap C)
  BY DEF CreateSpec
<1>4. Checked(creates, filled) <=> creates.required \subseteq DOMAIN full
  BY DEF Checked
<1> HIDE DEF set, given, full, spec
<1>5. /\ full \in Changes(C) /\ DOMAIN full = DOMAIN set \cup DOMAIN given
      /\ \A c \in DOMAIN set : full[c] = set[c]
      /\ \A c \in DOMAIN given \ DOMAIN set : full[c] = given[c]
  <2>1. LET g == Over(set, given) IN
        /\ g \in Changes(C) /\ DOMAIN g = DOMAIN set \cup DOMAIN given
        /\ \A x \in DOMAIN set : g[x] = set[x]
        /\ \A x \in DOMAIN given \ DOMAIN set : g[x] = given[x]
    <3>1. Over(set, given) \in Changes(C)
      BY <1>1, PutBehind
    <3>2. DOMAIN Over(set, given) = DOMAIN set \cup DOMAIN given
      BY DEF Over
    <3>3. /\ \A x \in DOMAIN set : Over(set, given)[x] = set[x]
          /\ \A x \in DOMAIN given \ DOMAIN set : Over(set, given)[x] = given[x]
      BY DEF Over
    <3> QED
      BY <3>1, <3>2, <3>3
  <2> QED
    BY <1>2, <2>1
<1>6. DOMAIN full \subseteq C /\ \A c \in DOMAIN full : full[c] \in Int
  BY <1>5, ChangesAre
<1>7. spec = full
  BY <1>3, <1>5, AllKept
<1>8. ASSUME NEW c \in C
      PROVE  /\ new[c] = want[c] /\ new[c] \in Int \cup {Null}
             /\ new[c] = Null <=> c \notin DOMAIN full
             /\ c \in DOMAIN set => new[c] = set[c]
  <2>1. new[c] = IF c \in DOMAIN full THEN full[c] ELSE Null
    BY <1>5, <1>7 DEF InsertedRow, given
  <2>2. DefaultRow(C, table.default)[c] = IF c \in DOMAIN given THEN given[c] ELSE Null
    BY DEF DefaultRow, given
  <2> HIDE DEF new, want
  <2>3. want[c] = IF c \in DOMAIN set THEN set[c] ELSE DefaultRow(C, table.default)[c]
    BY GrantedColumn DEF want, set
  <2> QED
    BY <1>5, <1>6, <2>1, <2>2, <2>3, NullAssumption
<1>9. new = [c \in C |-> new[c]]
  BY DEF InsertedRow
<1>10. want = [c \in C |-> want[c]]
  BY GrantedIsRow
<1> HIDE DEF new, want, filled
<1>11. new = want
  BY <1>8, <1>9, <1>10
<1>12. new \in [C -> Int \cup {Null}]
  BY <1>8, <1>9
<1>13. Checked(creates, filled) <=> \A c \in creates.required : new[c] # Null
  BY <1>4, <1>6, <1>8
<1>14. \A c \in C \ DOMAIN table.default : new[c] # Null => c \in DOMAIN mu.set /\ new[c] = mu.set[c]
  BY <1>5, <1>8 DEF set, given
<1> QED
  BY <1>11, <1>12, <1>13, <1>14 DEF new, want, spec, filled

-----------------------------------------------------------------------------
(* Which rows a statement is about                                         *)

\* And is true when no predicate is false, or unknown.
LEMMA AndTrue == ASSUME NEW T PROVE And(T) = TRUE <=> FALSE \notin T /\ Null \notin T
BY NullAssumption DEF And

\* The id is no NULL.
LEMMA IdHolds ==
  ASSUME NEW i \in Nat, NEW id, NEW row
  PROVE  Holds(IdIs(id), i, row) \in BOOLEAN /\ (Holds(IdIs(id), i, row) <=> i = id)
<1>1. i # Null
  BY NullAssumption
<1>2. Holds(IdIs(id), i, row) = Compare("EQ", i, id)
  BY DEF Holds, IdIs, Predicate
<1>3. Compare("EQ", i, id) = (i = id)
  BY <1>1 DEF Compare
<1> QED
  BY <1>2, <1>3

\* The predicate on the id picks one of the rows the others are about.
LEMMA MatchingOne ==
  ASSUME NEW table, DOMAIN table \subseteq Nat, NEW where, NEW id
  PROVE  Matching(table, where \cup {IdIs(id)}) = Matching(table, where) \cap {id}
<1>1. ASSUME NEW i \in DOMAIN table
      PROVE  And({Holds(p, i, table[i]) : p \in where \cup {IdIs(id)}}) = TRUE
               <=> And({Holds(p, i, table[i]) : p \in where}) = TRUE /\ i = id
  <2> DEFINE T == {Holds(p, i, table[i]) : p \in where}
             U == {Holds(p, i, table[i]) : p \in where \cup {IdIs(id)}}
             h == Holds(IdIs(id), i, table[i])
  <2>1. h \in BOOLEAN /\ (h <=> i = id)
    BY IdHolds
  <2>2. U = T \cup {h}
    OBVIOUS
  <2> HIDE DEF T, U, h
  <2>3. FALSE \in U <=> FALSE \in T \/ ~h
    BY <2>1, <2>2
  <2>4. Null \in U <=> Null \in T
    BY <2>1, <2>2, NullAssumption
  <2> QED
    BY <2>1, <2>3, <2>4, AndTrue DEF T, U
<1> QED
  BY <1>1 DEF Matching

\* Matching rows are of the table.
LEMMA MatchingThere ==
  ASSUME NEW table, NEW where
  PROVE  Matching(table, where) \subseteq DOMAIN table /\ Matching(table, where \cup {}) = Matching(table, where)
BY DEF Matching

-----------------------------------------------------------------------------
(* RowWishes has the same schema                                           *)

\* Its tables, columns and files are the ones of EntSchema.
LEMMA SameSchema == Wishes!Schema = Schema
<1>1. Wishes!Schema.Admin = Schema.Admin
  BY DEF Schema, Wishes!Schema, AdminTable, AdminColumns, AdminCreate, AdminUpdate, AdminUpdateOne,
     AdminFields, Entity, Table, Creates, Updates, Fields, Nothing, With,
     Wishes!AdminTable, Wishes!AdminColumns, Wishes!AdminCreate, Wishes!AdminUpdate,
     Wishes!AdminUpdateOne, Wishes!AdminFields, Wishes!Entity, Wishes!Table,
     Wishes!Creates, Wishes!Updates, Wishes!Fields, Wishes!Nothing, Wishes!With
<1>2. Wishes!Schema.AuditEvent = Schema.AuditEvent
  BY DEF Schema, Wishes!Schema, AuditEventTable, AuditEventColumns, AuditEventCreate,
     AuditEventUpdate, AuditEventUpdateOne, AuditEventFields, Entity, Table,
     Creates, Updates, Fields, Nothing, With, Wishes!AuditEventTable,
     Wishes!AuditEventColumns, Wishes!AuditEventCreate, Wishes!AuditEventUpdate,
     Wishes!AuditEventUpdateOne, Wishes!AuditEventFields, Wishes!Entity,
     Wishes!Table, Wishes!Creates, Wishes!Updates, Wishes!Fields, Wishes!Nothing,
     Wishes!With
<1>3. Wishes!Schema.IpBan = Schema.IpBan
  BY DEF Schema, Wishes!Schema, IpBanTable, IpBanColumns, IpBanCreate, IpBanUpdate, IpBanUpdateOne,
     IpBanFields, Entity, Table, Creates, Updates, Fields, Nothing, With,
     Wishes!IpBanTable, Wishes!IpBanColumns, Wishes!IpBanCreate, Wishes!IpBanUpdate,
     Wishes!IpBanUpdateOne, Wishes!IpBanFields, Wishes!Entity, Wishes!Table,
     Wishes!Creates, Wishes!Updates, Wishes!Fields, Wishes!Nothing, Wishes!With
<1>4. Wishes!Schema.LoginFailureEvent = Schema.LoginFailureEvent
  BY DEF Schema, Wishes!Schema, LoginFailureEventTable, LoginFailureEventColumns,
     LoginFailureEventCreate, LoginFailureEventUpdate, LoginFailureEventUpdateOne,
     LoginFailureEventFields, Entity, Table, Creates, Updates, Fields, Nothing, With, Wishes!LoginFailureEventTable, Wishes!LoginFailureEventColumns,
     Wishes!LoginFailureEventCreate, Wishes!LoginFailureEventUpdate,
     Wishes!LoginFailureEventUpdateOne, Wishes!LoginFailureEventFields,
     Wishes!Entity, Wishes!Table, Wishes!Creates, Wishes!Updates,
     Wishes!Fields, Wishes!Nothing, Wishes!With
<1>5. Wishes!Schema.Session = Schema.Session
  BY DEF Schema, Wishes!Schema, SessionTable, SessionColumns, SessionCreate, SessionUpdate,
     SessionUpdateOne, SessionFields, Entity, Table, Creates, Updates, Fields, Nothing, With, Wishes!SessionTable, Wishes!SessionColumns, Wishes!SessionCreate,
     Wishes!SessionUpdate, Wishes!SessionUpdateOne, Wishes!SessionFields, Wishes!Entity, Wishes!Table, Wishes!Creates, Wishes!Updates, Wishes!Fields, Wishes!Nothing, Wishes!With
<1>6. Wishes!Schema.Share = Schema.Share
  BY DEF Schema, Wishes!Schema, ShareTable, ShareColumns, ShareCreate, ShareUpdate, ShareUpdateOne,
     ShareFields, ShareSetters, ShareRequired, ShareWritten, ShareNullable, Entity,
     Table, Creates, Updates, Fields, Nothing, With, Wishes!ShareTable, Wishes!ShareColumns,
     Wishes!ShareCreate, Wishes!ShareUpdate, Wishes!ShareUpdateOne, Wishes!ShareFields,
     Wishes!ShareSetters, Wishes!ShareRequired, Wishes!ShareWritten,
     Wishes!ShareNullable, Wishes!Entity, Wishes!Table, Wishes!Creates, Wishes!Updates,
     Wishes!Fields, Wishes!Nothing, Wishes!With
<1>7. Schema = [Admin |-> Schema.Admin, AuditEvent |-> Schema.AuditEvent, IpBan |-> Schema.IpBan,
                LoginFailureEvent |-> Schema.LoginFailureEvent, Session |-> Schema.Session,
                Share |-> Schema.Share]
  BY DEF Schema
<1>8. Wishes!Schema =
        [Admin |-> Wishes!Schema.Admin, AuditEvent |-> Wishes!Schema.AuditEvent,
         IpBan |-> Wishes!Schema.IpBan, LoginFailureEvent |-> Wishes!Schema.LoginFailureEvent,
         Session |-> Wishes!Schema.Session, Share |-> Wishes!Schema.Share]
  BY DEF Wishes!Schema
<1> QED
  BY <1>1, <1>2, <1>3, <1>4, <1>5, <1>6, <1>7, <1>8

\* So are its tables of an earlier run, and the rows a statement is about.
LEMMA SameTables ==
  /\ \A e, columns, most : Wishes!LeftTables(e, columns, most) = LeftTables(e, columns, most)
  /\ \A table, where : Wishes!Matching(table, where) = Matching(table, where)
  /\ \A f, g : Wishes!Over(f, g) = Over(f, g)
  /\ \A f, S : Wishes!Restrict(f, S) = Restrict(f, S)
  /\ \A op, c, v : Wishes!Predicate(op, c, v) = Predicate(op, c, v)
<1>1. \A f, g : Wishes!Over(f, g) = Over(f, g)
  BY DEF Wishes!Over, Over
<1>2. \A e, columns, most : Wishes!LeftTables(e, columns, most) = LeftTables(e, columns, most)
  BY DEF Wishes!LeftTables, LeftTables, Wishes!Over, Over
<1>3. \A table, where : Wishes!Matching(table, where) = Matching(table, where)
  BY DEF Wishes!Matching, Matching, Wishes!And, And, Wishes!Holds, Holds, Wishes!Compare, Compare
<1>4. \A f, S : Wishes!Restrict(f, S) = Restrict(f, S)
  BY DEF Wishes!Restrict, Restrict
<1>5. \A op, c, v : Wishes!Predicate(op, c, v) = Predicate(op, c, v)
  BY DEF Wishes!Predicate, Predicate
<1> QED
  BY <1>1, <1>2, <1>3, <1>4, <1>5

-----------------------------------------------------------------------------
(* The invariant                                                           *)

RowOK(row) == row \in [E.columns -> Int \cup {Null}] /\ \A c \in E.table.notNull : row[c] \in Int

\* No two rows have a value of a unique column.
Single(table) ==
  \A i, j \in DOMAIN table : \A c \in E.table.unique : table[i][c] = table[j][c] => i = j

TableOK(table) ==
  /\ DOMAIN table \subseteq Nat /\ IsFiniteSet(DOMAIN table)
  /\ \A id \in DOMAIN table : RowOK(table[id])
  /\ Single(table)

Mutation == Mutations(E.columns, E.fields.numeric, E.fields.nullable, Restrictions)

RowsInv ==
  /\ entity \in Focus /\ TableOK(rows)
  /\ nextId \in Nat /\ (E.table.key = "int" => \A id \in DOMAIN rows : id < nextId)

BuildersInv ==
  /\ m \in [Workers -> Mutation]
  /\ DOMAIN out = Workers
  /\ \A w \in Workers : m[w].op = "create" /\ E.table.key = "text" => m[w].id \in Nat
  /\ calls \in 0..MaxCalls /\ made \in 0..MaxBuilders

IInv == RowsInv /\ BuildersInv

\* The files of the entity agree, and its columns are some of the table's.
LEMMA EntityAgrees ==
  ASSUME entity \in Focus PROVE Agrees(E) /\ entity.columns \subseteq E.columns /\ entity.left \in Nat
BY FilesAgree, EntBounds DEF E

\* The definitions of RowWishes, with the mutations for wishes.
LEMMA WishesAre ==
  ASSUME entity \in Focus
  PROVE  /\ Wishes!Kind = E.table /\ Wishes!Columns = E.columns
         /\ \A row, wishes : Wishes!Granting(row, wishes) = GrantedRow(E.columns, row, wishes)
         /\ Wishes!NewRow = DefaultRow(E.columns, E.table.default)
         /\ \A table : Wishes!Duplicates(table) <=> ~Single(table)
<1>1. Wishes!Kind = E.table
  BY SameSchema DEF Wishes!Kind, E
<1>2. Wishes!Columns = E.columns
  BY <1>1, EntityAgrees DEF Wishes!Columns, Agrees
<1>3. ASSUME NEW row, NEW wishes PROVE Wishes!Granting(row, wishes) = GrantedRow(E.columns, row, wishes)
  BY <1>2 DEF Wishes!Granting, GrantedRow
<1>4. Wishes!NewRow = DefaultRow(E.columns, E.table.default)
  BY <1>1, <1>2 DEF Wishes!NewRow, DefaultRow
<1>5. ASSUME NEW table PROVE Wishes!Duplicates(table) <=> ~Single(table)
  BY <1>1 DEF Wishes!Duplicates, Single
<1> QED
  BY <1>1, <1>2, <1>3, <1>4, <1>5

\* The invariant is of the entity, the table and the builders.
LEMMA EntityStays ==
  ASSUME UNCHANGED entity
  PROVE  /\ E' = E /\ Mutation' = Mutation /\ Restrictions' = Restrictions
         /\ \A row : RowOK(row)' <=> RowOK(row)
         /\ \A table : TableOK(table)' <=> TableOK(table)
BY DEF E, Mutation, Restrictions, RowOK, TableOK, Single

\* A new mutation asks for nothing.
LEMMA NewAsksNothing ==
  ASSUME NEW op, NEW id
  PROVE  LET new == NewMutation(op, id) IN
         /\ new.op = op /\ new.id = id /\ new.where = {}
         /\ new.set = Nothing /\ new.add = Nothing /\ new.cleared = {}
         /\ \A c : WishOf(new, c) = KeepWish
         /\ \A R : op \in Ops /\ id \in Nat \cup {Null} /\ R \in Restrictions =>
              Where(new, R) \in Mutation /\ Where(new, R) = [new EXCEPT !.where = R]
<1> DEFINE new == NewMutation(op, id)
<1>1. /\ new.op = op /\ new.id = id /\ new.where = {}
      /\ new.set = Nothing /\ new.add = Nothing /\ new.cleared = {}
  BY DEF NewMutation
<1>2. ASSUME NEW c PROVE WishOf(new, c) = KeepWish
  BY <1>1, NothingChanges, WishIs
<1>3. ASSUME NEW R, op \in Ops, id \in Nat \cup {Null}, R \in Restrictions
      PROVE  Where(new, R) \in Mutation /\ Where(new, R) = [new EXCEPT !.where = R]
  <2>1. Where(new, R) = [op |-> op, id |-> id, where |-> R, set |-> Nothing, add |-> Nothing, cleared |-> {}]
    BY DEF Where, NewMutation
  <2>2. Where(new, R) \in Mutation
    BY <1>3, <2>1, NothingChanges DEF Mutation, Mutations
  <2>3. Where(new, R) = [new EXCEPT !.where = R]
    BY DEF Where, NewMutation
  <2> QED
    BY <2>2, <2>3
<1> QED
  BY <1>1, <1>2, <1>3

\* No builder is a mutation that asks for nothing.
LEMMA NoBuilderIs ==
  /\ NoBuilder \in Mutation /\ NoBuilder.op = "none" /\ NoBuilder.id = Null /\ NoBuilder.where = {}
  /\ \A C : AllWishes(C, NoBuilder) = [c \in C |-> KeepWish]
<1>1. {} \in Restrictions
  BY DEF Restrictions
<1>2. Where(NoBuilder, {}) = NoBuilder
  BY DEF Where, NoBuilder, NewMutation
<1>3. NoBuilder \in Mutation
  BY <1>1, <1>2, NewAsksNothing DEF NoBuilder, Ops
<1> QED
  BY <1>3, NewAsksNothing DEF NoBuilder, AllWishes

\* A row an earlier run left.
LEMMA LeftRowOK ==
  ASSUME entity \in Focus,
         NEW f \in [entity.columns -> {0, 1, Null}],
         \A c \in entity.columns : c \in E.table.notNull => f[c] \in {0, 1}
  PROVE  RowOK(Over(f, [c \in E.columns |-> 1]))
<1> DEFINE C   == E.columns
           row == Over(f, [c \in C |-> 1])
<1>1. row = [c \in C |-> IF c \in entity.columns THEN f[c] ELSE 1]
  BY EntityAgrees DEF Over
<1> HIDE DEF row
<1>2. \A c \in C : row[c] \in Int \cup {Null}
  BY <1>1
<1>3. \A c \in E.table.notNull : c \in C /\ row[c] \in Int
  BY <1>1, EntityAgrees DEF Agrees
<1> QED
  BY <1>1, <1>2, <1>3 DEF RowOK, row

\* So is the table.
LEMMA LeftTableOK ==
  ASSUME entity \in Focus, NEW table \in LeftTables(E, entity.columns, entity.left)
  PROVE  TableOK(table) /\ \A id \in DOMAIN table : id <= entity.left
<1> DEFINE Held(c)  == IF c \in E.table.notNull THEN {0, 1} ELSE {0, 1, Null}
           LeftRows == {Over(focus, [c \in E.columns |-> 1]) :
                          focus \in {f \in [entity.columns -> {0, 1, Null}] :
                                       \A c \in entity.columns : f[c] \in Held(c)}}
<1>1. ASSUME NEW row \in LeftRows PROVE RowOK(row)
  <2>1. PICK f \in [entity.columns -> {0, 1, Null}] :
               /\ \A c \in entity.columns : f[c] \in Held(c)
               /\ row = Over(f, [c \in E.columns |-> 1])
    OBVIOUS
  <2>2. \A c \in entity.columns : c \in E.table.notNull => f[c] \in {0, 1}
    BY <2>1
  <2> QED
    BY <2>1, <2>2, LeftRowOK
<1>2. PICK n \in 0..entity.left : table \in [1..n -> LeftRows]
  BY DEF LeftTables
<1> HIDE DEF LeftRows
<1>3. DOMAIN table = 1..n /\ n \in Nat /\ n <= entity.left
  BY <1>2, EntityAgrees
<1>4. DOMAIN table \subseteq Nat /\ \A id \in DOMAIN table : id <= entity.left
  BY <1>3, EntityAgrees
<1>5. IsFiniteSet(DOMAIN table)
  BY <1>3, FS_Interval
<1>6. \A id \in DOMAIN table : RowOK(table[id])
  BY <1>1, <1>2
<1>7. Single(table)
  BY DEF LeftTables, Single
<1> QED
  BY <1>4, <1>5, <1>6, <1>7 DEF TableOK

\* The invariant holds at the start.
LEMMA InvStarts == Init => IInv
<1> SUFFICES ASSUME Init PROVE IInv
  OBVIOUS
<1>1. entity \in Focus /\ rows \in LeftTables(E, entity.columns, entity.left) /\ nextId = entity.left + 1
  BY DEF Init, E
<1>2. TableOK(rows) /\ \A id \in DOMAIN rows : id <= entity.left
  BY <1>1, LeftTableOK
<1>3. entity.left \in Nat
  BY <1>1, EntityAgrees
<1>4. RowsInv
  BY <1>1, <1>2, <1>3 DEF RowsInv, TableOK
<1>5. BuildersInv
  BY NoBuilderIs, EntBounds DEF Init, BuildersInv
<1> QED
  BY <1>4, <1>5 DEF IInv

\* RowWishes starts there too.
LEMMA WishesStart == Init => Wishes!Init
<1> SUFFICES ASSUME Init PROVE Wishes!Init
  OBVIOUS
<1>1. entity \in Focus /\ rows \in LeftTables(E, entity.columns, entity.left) /\ nextId = entity.left + 1
      /\ m = [w \in Workers |-> NoBuilder] /\ last = [w \in Workers |-> NoCall] /\ out = [w \in Workers |-> "none"]
  BY DEF Init, E
<1>2. rows \in Wishes!LeftTables(Wishes!Schema[entity.name], entity.columns, entity.left)
  BY <1>1, SameSchema, SameTables DEF E
<1>3. [w \in Workers |-> [op |-> m[w].op, id |-> m[w].id, where |-> m[w].where]]
        = [w \in Workers |-> Wishes!Idle]
  BY <1>1, NoBuilderIs DEF Wishes!Idle
<1>4. [w \in Workers |-> [c \in E.columns |-> WishOf(m[w], c)]]
        = [w \in Workers |-> [c \in Wishes!Columns |-> Wishes!Keep]]
  BY <1>1, NoBuilderIs, WishesAre DEF AllWishes, KeepWish, Wishes!Keep
<1> QED
  BY <1>1, <1>2, <1>3, <1>4 DEF Wishes!Init, Wishes!NoCall, NoCall

-----------------------------------------------------------------------------
(* Builders begin, and are called                                          *)

\* The task and the wishes of a mutation.
TaskOf(mu) == [op |-> mu.op, id |-> mu.id, where |-> mu.where]
Task == [w \in Workers |-> TaskOf(m[w])]
Wish == [w \in Workers |-> AllWishes(E.columns, m[w])]

\* What a caller restricts a statement to, RowWishes allows.
LEMMA TaskAllowed ==
  ASSUME NEW mu \in Mutation, mu.op # "none" PROVE TaskOf(mu) \in Wishes!Tasks
<1>1. mu.op \in {"create", "update", "updateOne", "delete", "deleteOne"} /\ mu.id \in Nat \cup {Null}
  BY DEF Mutation, Mutations, Ops
<1>2. mu.where \in Restrictions
  BY DEF Mutation, Mutations
<1>3. mu.where \in {{}} \cup {{Wishes!Predicate(op, c, 0)} : op \in {"EQ", "IsNil", "GT"}, c \in entity.columns}
  BY <1>2, SameTables DEF Restrictions
<1> QED
  BY <1>1, <1>3 DEF TaskOf, Wishes!Tasks

\* A builder begins.
LEMMA BeginKeeps ==
  ASSUME IInv, NEW w \in Workers, NEW mu \in Mutation, Begin(w, mu), mu.op # "none",
         mu.op = "create" /\ E.table.key = "text" => mu.id \in Nat
  PROVE  IInv'
<1>1. /\ m[w] = NoBuilder /\ m' = [m EXCEPT ![w] = mu]
      /\ out' = [out EXCEPT ![w] = "none"] /\ UNCHANGED <<entity, rows, nextId, last, calls>>
  BY DEF Begin
<1>2. made' \in 0..MaxBuilders
  BY EntBounds DEF IInv, BuildersInv, Begin
<1>3. E' = E /\ Mutation' = Mutation
  BY <1>1, EntityStays
<1>4. RowsInv'
  BY <1>1, <1>3, EntityStays DEF IInv, RowsInv
<1>5. m' \in [Workers -> Mutation]
  BY <1>1 DEF IInv, BuildersInv
<1>6. ASSUME NEW u \in Workers
      PROVE  m'[u].op = "create" /\ E.table.key = "text" => m'[u].id \in Nat
  BY <1>1 DEF IInv, BuildersInv
<1> QED
  BY <1>1, <1>2, <1>3, <1>4, <1>5, <1>6 DEF IInv, BuildersInv

\* RowWishes starts one.
LEMMA BeginStarts ==
  ASSUME IInv, NEW w \in Workers, NEW mu \in Mutation, Begin(w, mu), mu.op # "none",
         \A c \in E.columns : WishOf(mu, c) =
           IF mu.op = "create" /\ c \notin entity.columns THEN PutWish(1) ELSE KeepWish
  PROVE  Wishes!Start(w)
<1>1. /\ m[w] = NoBuilder /\ m' = [m EXCEPT ![w] = mu]
      /\ out' = [out EXCEPT ![w] = "none"] /\ UNCHANGED <<entity, rows, nextId, last>>
  BY DEF Begin
<1>2. E' = E /\ entity \in Focus /\ DOMAIN m = Workers
  BY <1>1, EntityStays DEF IInv, RowsInv, BuildersInv
<1>3. Task[w] = Wishes!Idle
  BY <1>1, NoBuilderIs DEF Task, TaskOf, Wishes!Idle
<1>4. Task' = [Task EXCEPT ![w] = TaskOf(mu)] /\ Task'[w] = TaskOf(mu)
  BY <1>1, <1>2 DEF Task
<1>5. TaskOf(mu) \in Wishes!Tasks /\ TaskOf(mu).op = mu.op
  BY TaskAllowed DEF TaskOf
<1>6. Wish' = [Wish EXCEPT ![w] = AllWishes(E.columns, mu)]
  BY <1>1, <1>2 DEF Wish
<1>7. AllWishes(E.columns, mu) =
        [c \in Wishes!Columns |->
           IF Task'[w].op = "create" /\ c \notin entity.columns THEN Wishes!Put(1) ELSE Wishes!Keep]
  BY <1>2, <1>4, <1>5, WishesAre DEF AllWishes, PutWish, KeepWish, Wishes!Put, Wishes!Keep
<1>8. Wishes!Start(w) <=>
        /\ Task[w] = Wishes!Idle /\ Task'[w] \in Wishes!Tasks
        /\ Task' = [Task EXCEPT ![w] = Task'[w]]
        /\ Wish' = [Wish EXCEPT ![w] =
                      [c \in Wishes!Columns |->
                         IF Task'[w].op = "create" /\ c \notin entity.columns
                         THEN Wishes!Put(1) ELSE Wishes!Keep]]
        /\ out' = [out EXCEPT ![w] = "none"]
        /\ UNCHANGED <<entity, rows, nextId, last>>
  BY DEF Wishes!Start, Task, Wish, TaskOf, AllWishes
<1> QED
  BY <1>1, <1>3, <1>4, <1>5, <1>6, <1>7, <1>8

\* A call keeps the builder.
LEMMA CallKeeps ==
  ASSUME IInv, NEW w \in Workers, NEW call, NEW mu \in Mutation, Called(w, call, mu),
         mu.op = m[w].op, mu.id = m[w].id
  PROVE  IInv'
<1>1. /\ m[w].op \in {"create", "update", "updateOne"} /\ m' = [m EXCEPT ![w] = mu]
      /\ UNCHANGED <<entity, rows, nextId, out, made>>
  BY DEF Called
<1>2. calls' \in 0..MaxCalls
  BY EntBounds DEF IInv, BuildersInv, Called
<1>3. E' = E /\ Mutation' = Mutation
  BY <1>1, EntityStays
<1>4. RowsInv'
  BY <1>1, <1>3, EntityStays DEF IInv, RowsInv
<1>5. m' \in [Workers -> Mutation]
  BY <1>1 DEF IInv, BuildersInv
<1>6. mu # NoBuilder
  BY <1>1, NoBuilderIs
<1>7. ASSUME NEW u \in Workers
      PROVE  m'[u].op = "create" /\ E.table.key = "text" => m'[u].id \in Nat
  BY <1>1, <1>6 DEF IInv, BuildersInv
<1> QED
  BY <1>1, <1>2, <1>3, <1>4, <1>5, <1>7 DEF IInv, BuildersInv

\* RowWishes takes the call.
LEMMA CallGrants ==
  ASSUME IInv, NEW w \in Workers, NEW mu \in Mutation, NEW c \in entity.columns, NEW v \in 0..1,
         NEW kind \in {"set", "add", "clear", "reset"}, Called(w, AsCall(kind, c, v), mu),
         OnlyAbout(m[w], mu, c),
         WishOf(mu, c) = Wishes!Granted(m[w].op, WishOf(m[w], c), AsCall(kind, c, v))
  PROVE  Wishes!Call(w)
<1> DEFINE call == AsCall(kind, c, v)
<1>1. /\ m[w].op \in {"create", "update", "updateOne"} /\ m' = [m EXCEPT ![w] = mu]
      /\ last' = [last EXCEPT ![w] = call] /\ UNCHANGED <<entity, rows, nextId, out>>
  BY DEF Called
<1>2. E' = E /\ entity \in Focus /\ DOMAIN m = Workers /\ c \in E.columns
  BY <1>1, EntityStays, EntityAgrees DEF IInv, RowsInv, BuildersInv
<1>3. call = [kind |-> kind, col |-> c, val |-> v]
  BY DEF AsCall
<1> HIDE DEF call
<1>4. Task[w].op = m[w].op /\ Task[w] # Wishes!Idle
  BY <1>1 DEF Task, TaskOf, Wishes!Idle
<1>5. TaskOf(mu) = TaskOf(m[w])
  BY DEF TaskOf, OnlyAbout
<1>6. Task' = Task
  BY <1>1, <1>2, <1>5 DEF Task
<1>7. Wish'[w] = [Wish[w] EXCEPT ![c] = Wishes!Granted(Task[w].op, Wish[w][c], call)]
  <2>1. Wish'[w] = [x \in E.columns |-> WishOf(mu, x)]
    BY <1>1, <1>2 DEF Wish, AllWishes
  <2>2. Wish[w] = [x \in E.columns |-> WishOf(m[w], x)]
    BY DEF Wish, AllWishes
  <2> QED
    BY <1>2, <1>4, <2>1, <2>2 DEF OnlyAbout, call
<1>8. Wish' = [Wish EXCEPT ![w] = Wish'[w]]
  BY <1>1, <1>2 DEF Wish
<1>9. Wish' = [Wish EXCEPT ![w][c] = Wishes!Granted(Task[w].op, @, call)]
  BY <1>7, <1>8
<1>10. Wishes!Call(w) <=>
         /\ Task[w] # Wishes!Idle
         /\ UNCHANGED <<entity, rows, nextId, Task, out>>
         /\ \E x \in entity.columns, k \in {"set", "add", "clear", "reset"}, val \in 0..1 :
              LET said == [kind |-> k, col |-> x, val |-> val] IN
              /\ last' = [last EXCEPT ![w] = said]
              /\ Wish' = [Wish EXCEPT ![w][x] = Wishes!Granted(Task[w].op, @, said)]
  BY DEF Wishes!Call, Task, Wish, TaskOf, AllWishes
<1> QED
  BY <1>1, <1>3, <1>4, <1>6, <1>9, <1>10

\* Every builder begins as RowWishes says.
LEMMA BuildersBegin ==
  ASSUME IInv, NEW w \in Workers,
         Create(w) \/ Update(w) \/ UpdateOneID(w) \/ Delete(w) \/ DeleteOneID(w)
  PROVE  IInv' /\ Wishes!Start(w)
<1>0. entity \in Focus /\ Agrees(E) /\ entity.columns \subseteq E.columns /\ DOMAIN rows \subseteq Nat
  BY EntityAgrees DEF IInv, RowsInv, TableOK
<1>1. ASSUME NEW op \in {"update", "updateOne", "delete", "deleteOne"}, NEW id \in Nat \cup {Null},
             NEW R \in Restrictions, Begin(w, Where(NewMutation(op, id), R))
      PROVE  IInv' /\ Wishes!Start(w)
  <2> DEFINE new == NewMutation(op, id)
             mu  == Where(new, R)
  <2>1. mu \in Mutation /\ mu = [new EXCEPT !.where = R]
    BY NewAsksNothing DEF Ops
  <2>2. new.op = op /\ \A c : WishOf(new, c) = KeepWish
    BY NewAsksNothing
  <2>3. mu.op = op /\ mu.op # "none" /\ mu.op # "create"
    BY <2>2 DEF Where, NewMutation
  <2>4. \A c : WishOf(mu, c) = WishOf(new, c)
    BY SameWish DEF Where, NewMutation
  <2> HIDE DEF new, mu
  <2>5. \A c \in E.columns : WishOf(mu, c) =
          IF mu.op = "create" /\ c \notin entity.columns THEN PutWish(1) ELSE KeepWish
    BY <2>2, <2>3, <2>4
  <2>6. Begin(w, mu)
    BY <1>1 DEF mu, new
  <2> QED
    BY <2>1, <2>3, <2>5, <2>6, BeginKeeps, BeginStarts
<1>2. CASE Create(w)
  <2>1. PICK id \in IF E.table.key = "text" THEN Ids ELSE {Null} :
               Begin(w, [NewMutation("create", id) EXCEPT !.set = [c \in E.columns \ entity.columns |-> 1]])
    BY <1>2 DEF Create
  <2> DEFINE rest == [c \in E.columns \ entity.columns |-> 1]
             mu   == [NewMutation("create", id) EXCEPT !.set = rest]
  <2>2. id \in Nat \cup {Null} /\ (E.table.key = "text" => id \in Nat)
    BY <2>1, EntBounds
  <2>3. rest \in [E.columns \ entity.columns -> Int] /\ DOMAIN rest = E.columns \ entity.columns
    OBVIOUS
  <2>4. rest \in Changes(E.columns)
    BY <2>3 DEF Changes
  <2>5. \A c \in DOMAIN rest : rest[c] = 1
    OBVIOUS
  <2> HIDE DEF rest
  <2>6. mu = [op |-> "create", id |-> id, where |-> {}, set |-> rest, add |-> Nothing, cleared |-> {}]
    BY DEF NewMutation
  <2>7. {} \in Restrictions
    BY DEF Restrictions
  <2>8. Begin(w, mu)
    BY <2>1 DEF rest
  <2> HIDE DEF mu
  <2>9. mu \in Mutation
    BY <2>2, <2>4, <2>6, <2>7, NothingChanges DEF Mutation, Mutations, Ops
  <2>10. mu.op = "create" /\ mu.id = id /\ mu.set = rest
    BY <2>6
  <2>11. ASSUME NEW c \in E.columns
         PROVE  WishOf(mu, c) = IF mu.op = "create" /\ c \notin entity.columns THEN PutWish(1) ELSE KeepWish
    BY <2>3, <2>5, <2>10, WishIs
  <2> QED
    BY <2>2, <2>8, <2>9, <2>10, <2>11, BeginKeeps, BeginStarts
<1>3. CASE Update(w)
  BY <1>1, <1>3 DEF Update
<1>4. CASE UpdateOneID(w)
  BY <1>0, <1>1, <1>4 DEF UpdateOneID
<1>5. CASE Delete(w)
  BY <1>1, <1>5 DEF Delete
<1>6. CASE DeleteOneID(w)
  <2>1. PICK id \in DOMAIN rows : Begin(w, NewMutation("deleteOne", id))
    BY <1>6 DEF DeleteOneID
  <2>2. NewMutation("deleteOne", id) = Where(NewMutation("deleteOne", id), {})
    BY DEF Where, NewMutation
  <2>3. {} \in Restrictions
    BY DEF Restrictions
  <2> QED
    BY <1>0, <1>1, <2>1, <2>2, <2>3
<1> QED
  BY <1>2, <1>3, <1>4, <1>5, <1>6

\* What RowWishes grants, by kind of call.
LEMMA CallsGranted ==
  ASSUME NEW op, NEW wish, NEW c, NEW v
  PROVE  /\ Wishes!Granted(op, wish, AsCall("set", c, v)) = PutWish(v)
         /\ Wishes!Granted(op, wish, AsCall("reset", c, v)) = KeepWish
         /\ Wishes!Granted(op, wish, AsCall("add", c, v)) =
              IF op = "create" THEN wish
              ELSE BumpWish(IF wish.kind = "bump" THEN wish.val + v ELSE v)
         /\ Wishes!Granted(op, wish, AsCall("clear", c, v)) = IF op = "create" THEN KeepWish ELSE ClearWish
<1>1. /\ Wishes!Granted(op, wish, AsCall("set", c, v)) = PutWish(v)
      /\ Wishes!Granted(op, wish, AsCall("reset", c, v)) = KeepWish
  BY DEF Wishes!Granted, AsCall, PutWish, KeepWish, Wishes!Put, Wishes!Keep
<1>2. Wishes!Granted(op, wish, AsCall("add", c, v)) =
        IF op = "create" THEN wish ELSE BumpWish(IF wish.kind = "bump" THEN wish.val + v ELSE v)
  BY DEF Wishes!Granted, AsCall, BumpWish, Wishes!Bump
<1>3. Wishes!Granted(op, wish, AsCall("clear", c, v)) = IF op = "create" THEN KeepWish ELSE ClearWish
  BY DEF Wishes!Granted, AsCall, KeepWish, ClearWish, Wishes!Keep, Wishes!Clear
<1> QED
  BY <1>1, <1>2, <1>3

\* Every call is taken as RowWishes says.
LEMMA BuildersCalled ==
  ASSUME IInv, NEW w \in Workers,
         \/ BuilderSet(w) \/ BuilderAdd(w) \/ BuilderClear(w)
         \/ MutationSet(w) \/ MutationAdd(w) \/ MutationClear(w) \/ MutationReset(w)
  PROVE  IInv' /\ Wishes!Call(w)
<1> DEFINE mu == m[w]
           C  == E.columns
           N  == E.fields.numeric
           K  == E.fields.nullable
           Step == IInv' /\ Wishes!Call(w)
<1>0. /\ Agrees(E) /\ entity.columns \subseteq C /\ mu \in Mutation /\ mu \in Mutations(C, N, K, Restrictions)
      /\ Mutation = Mutations(C, N, K, Restrictions)
  BY EntityAgrees DEF IInv, RowsInv, BuildersInv, Mutation
<1>1. ASSUME NEW c \in entity.columns, NEW v \in 0..1, NEW kind \in {"set", "add", "clear", "reset"},
             NEW m2 \in Mutation, Called(w, AsCall(kind, c, v), m2), OnlyAbout(mu, m2, c),
             WishOf(m2, c) = Wishes!Granted(mu.op, WishOf(mu, c), AsCall(kind, c, v))
      PROVE  Step
  <2>1. m2.op = mu.op /\ m2.id = mu.id
    BY <1>1 DEF OnlyAbout
  <2> QED
    BY <1>1, <2>1, CallKeeps, CallGrants
<1>2. /\ Updates1(w).add = N /\ Updates1(w).clear = K /\ E.fields.all = C
  BY <1>0 DEF Updates1, Agrees
<1> HIDE DEF mu, C, N, K
<1>3. ASSUME NEW c \in entity.columns, NEW v \in 0..1, NEW m2,
             m2 = SetValue(mu, c, v) \/ \E updates : m2 = UpdateSet(updates, mu, c, v),
             Called(w, AsCall("set", c, v), m2)
      PROVE  Step
  <2>1. v \in Int /\ c \in C
    BY <1>0
  <2>2. m2 \in Mutation /\ OnlyAbout(mu, m2, c) /\ WishOf(m2, c) = PutWish(v)
    BY <1>0, <1>3, <2>1, SetGrants, UpdateSetGrants
  <2>3. WishOf(m2, c) = Wishes!Granted(mu.op, WishOf(mu, c), AsCall("set", c, v))
    BY <2>2, CallsGranted
  <2> QED
    BY <1>1, <1>3, <2>2, <2>3
<1>4. ASSUME NEW c \in entity.columns \cap N, Called(w, AsCall("add", c, 1), AddValue(mu, c, 1))
      PROVE  Step
  <2> DEFINE m2 == AddValue(mu, c, 1)
             wish == WishOf(mu, c)
  <2>1. /\ m2 \in Mutation /\ OnlyAbout(mu, m2, c)
        /\ mu.op = "create" => WishOf(m2, c) = wish
        /\ mu.op # "create" => WishOf(m2, c) = BumpWish(IF wish.kind = "bump" THEN wish.val + 1 ELSE 1)
    BY <1>0, AddGrants
  <2>2. WishOf(m2, c) = Wishes!Granted(mu.op, wish, AsCall("add", c, 1))
    BY <2>1, CallsGranted
  <2> QED
    BY <1>1, <1>4, <2>1, <2>2
<1>5. ASSUME NEW c \in entity.columns \cap K, Called(w, AsCall("clear", c, 0), ClearValue(mu, c))
      PROVE  Step
  <2> DEFINE m2 == ClearValue(mu, c)
  <2>1. m2 \in Mutation /\ OnlyAbout(mu, m2, c) /\ WishOf(m2, c) = IF mu.op = "create" THEN KeepWish ELSE ClearWish
    BY <1>0, ClearGrants
  <2>2. WishOf(m2, c) = Wishes!Granted(mu.op, WishOf(mu, c), AsCall("clear", c, 0))
    BY <2>1, CallsGranted
  <2> QED
    BY <1>1, <1>5, <2>1, <2>2
<1>6. ASSUME NEW c \in entity.columns, Called(w, AsCall("reset", c, 0), ResetValue(mu, c))
      PROVE  Step
  <2> DEFINE m2 == ResetValue(mu, c)
  <2>1. m2 \in Mutation /\ OnlyAbout(mu, m2, c) /\ WishOf(m2, c) = KeepWish
    BY <1>0, ResetGrants
  <2>2. WishOf(m2, c) = Wishes!Granted(mu.op, WishOf(mu, c), AsCall("reset", c, 0))
    BY <2>1, CallsGranted
  <2> QED
    BY <1>1, <1>6, <2>1, <2>2
<1>7. CASE BuilderSet(w)
  BY <1>3, <1>7 DEF BuilderSet, CreateSet, mu
<1>8. CASE BuilderAdd(w)
  BY <1>2, <1>4, <1>8 DEF BuilderAdd, mu
<1>9. CASE BuilderClear(w)
  BY <1>2, <1>5, <1>9 DEF BuilderClear, mu
<1>10. CASE MutationSet(w)
  BY <1>2, <1>3, <1>10 DEF MutationSet, SetField, mu
<1>11. CASE MutationAdd(w)
  BY <1>4, <1>11 DEF MutationAdd, AddField, mu, N
<1>12. CASE MutationClear(w)
  BY <1>5, <1>12 DEF MutationClear, ClearField, mu, K
<1>13. CASE MutationReset(w)
  BY <1>2, <1>6, <1>13 DEF MutationReset, ResetField, mu
<1> QED
  BY <1>7, <1>8, <1>9, <1>10, <1>11, <1>12, <1>13

-----------------------------------------------------------------------------
(* Saves                                                                   *)

\* Answer of RowWishes.
Granted(w, how, table) ==
  /\ rows' = table /\ out' = [out EXCEPT ![w] = how] /\ Task' = [Task EXCEPT ![w] = Wishes!Idle]
  /\ last' = [last EXCEPT ![w] = Wishes!NoCall]
  /\ Wish' = [Wish EXCEPT ![w] = [c \in Wishes!Columns |-> Wishes!Keep]]
  /\ UNCHANGED entity

\* The answer ends the builder, of RowWishes too.
LEMMA AnswerKeeps ==
  ASSUME IInv, NEW w \in Workers, NEW how, NEW table, Answer(w, how, table), TableOK(table),
         nextId' \in Nat, E.table.key = "int" => \A id \in DOMAIN table : id < nextId'
  PROVE  IInv' /\ Granted(w, how, table) /\ out' = [out EXCEPT ![w] = how]
<1>1. /\ rows' = table /\ out' = [out EXCEPT ![w] = how] /\ m' = [m EXCEPT ![w] = NoBuilder]
      /\ last' = [last EXCEPT ![w] = NoCall]
      /\ UNCHANGED <<entity, made, calls>>
  BY DEF Answer
<1>2. E' = E /\ Mutation' = Mutation /\ entity \in Focus /\ DOMAIN m = Workers
  BY <1>1, EntityStays DEF IInv, RowsInv, BuildersInv
<1>3. RowsInv'
  <2>1. TableOK(table)'
    BY <1>1, EntityStays
  <2>2. TableOK(rows)'
    BY <1>1, <1>2, <2>1 DEF TableOK, RowOK, Single
  <2> QED
    BY <1>1, <1>2, <2>2 DEF RowsInv
<1>4. m' \in [Workers -> Mutation]
  BY <1>1, NoBuilderIs DEF IInv, BuildersInv
<1>5. ASSUME NEW u \in Workers
      PROVE  m'[u].op = "create" /\ E.table.key = "text" => m'[u].id \in Nat
  BY <1>1, NoBuilderIs DEF IInv, BuildersInv
<1>6. BuildersInv'
  BY <1>1, <1>2, <1>4, <1>5 DEF IInv, BuildersInv
<1>7. Task' = [Task EXCEPT ![w] = Wishes!Idle]
  BY <1>1, <1>2, NoBuilderIs DEF Task, TaskOf, Wishes!Idle
<1>8. Wish' = [Wish EXCEPT ![w] = [c \in Wishes!Columns |-> Wishes!Keep]]
  <2>1. AllWishes(E.columns, NoBuilder) = [c \in Wishes!Columns |-> Wishes!Keep]
    BY <1>2, NoBuilderIs, WishesAre DEF KeepWish, Wishes!Keep
  <2> QED
    BY <1>1, <1>2, <2>1 DEF Wish
<1>9. Wishes!NoCall = NoCall
  BY DEF Wishes!NoCall, NoCall
<1> QED
  BY <1>1, <1>3, <1>6, <1>7, <1>8, <1>9 DEF IInv, Granted

\* So does an answer without a change.
LEMMA UnchangedAnswer ==
  ASSUME IInv, NEW w \in Workers, NEW how, Answer(w, how, rows), UNCHANGED nextId
  PROVE  IInv' /\ Granted(w, how, rows) /\ out' = [out EXCEPT ![w] = how]
<1>1. TableOK(rows) /\ nextId' \in Nat /\ (E.table.key = "int" => \A id \in DOMAIN rows : id < nextId')
  BY DEF IInv, RowsInv
<1> QED
  BY <1>1, AnswerKeeps

\* The database refuses typed rows only as duplicates.
LEMMA RefusedAre ==
  ASSUME entity \in Focus, NEW table, \A id \in DOMAIN table : RowOK(table[id])
  PROVE  Refused(table) <=> ~Single(table)
<1>1. \A id \in DOMAIN table : \A c \in E.table.notNull : table[id][c] # Null
  BY NullAssumption DEF RowOK
<1> QED
  BY <1>1 DEF Refused, Single

\* What the property says of a refused save.
DuplicateOf(w) ==
  \/ m[w].op = "create" /\ m[w].id \in DOMAIN rows
  \/ \E c \in E.table.unique \intersect DOMAIN m[w].set :
       \/ \E id \in DOMAIN rows : rows[id][c] = m[w].set[c]
       \/ m[w].op = "update" /\ Cardinality(DOMAIN rows) > 1

\* What holds of a builder's mutation, and of the entity's columns.
LEMMA BuilderIs ==
  ASSUME IInv, NEW w \in Workers
  PROVE  /\ m[w] \in Mutations(E.columns, E.fields.numeric, E.fields.nullable, Restrictions)
         /\ Agrees(E) /\ entity \in Focus /\ TableOK(rows) /\ nextId \in Nat
         /\ m[w].op = "create" /\ E.table.key = "text" => m[w].id \in Nat
         /\ E.table.key = "int" => \A id \in DOMAIN rows : id < nextId
         /\ Task[w] = TaskOf(m[w]) /\ Wish[w] = AllWishes(E.columns, m[w])
BY EntityAgrees DEF IInv, RowsInv, BuildersInv, Mutation, Task, Wish

\* A row is put in.
LEMMA RowPut ==
  ASSUME TableOK(rows), NEW id \in Nat, id \notin DOMAIN rows, NEW row, RowOK(row)
  PROVE  LET table == Over([i \in {id} |-> row], rows) IN
         /\ DOMAIN table = {id} \cup DOMAIN rows /\ table[id] = row
         /\ \A i \in DOMAIN rows : table[i] = rows[i]
         /\ DOMAIN table \subseteq Nat /\ IsFiniteSet(DOMAIN table)
         /\ \A i \in DOMAIN table : RowOK(table[i])
<1> DEFINE table == Over([i \in {id} |-> row], rows)
<1>1. /\ DOMAIN table = {id} \cup DOMAIN rows /\ table[id] = row
      /\ \A i \in DOMAIN rows : table[i] = rows[i]
  BY DEF Over
<1>2. IsFiniteSet(DOMAIN rows \cup {id})
  BY FS_AddElement DEF TableOK
<1>3. DOMAIN table = DOMAIN rows \cup {id}
  BY <1>1
<1> HIDE DEF table
<1>4. IsFiniteSet(DOMAIN table)
  BY <1>2, <1>3
<1>5. DOMAIN table \subseteq Nat /\ \A i \in DOMAIN table : RowOK(table[i])
  BY <1>1 DEF TableOK
<1> QED
  BY <1>1, <1>4, <1>5 DEF table

\* A create: the row is the wished one, and only a duplicate is refused.
LEMMA CreateSaves ==
  ASSUME IInv, NEW w \in Workers, SaveCreate(w)
  PROVE  /\ IInv' /\ Wishes!SaveCreate(w)
         /\ \A u \in Workers : out'[u] = "Constraint" => (u = w /\ DuplicateOf(w)) \/ out[u] = "Constraint"
<1> DEFINE mu     == m[w]
           C      == E.columns
           filled == Defaults(E.create, mu)
           row    == InsertedRow(C, E.table, CreateSpec(E.create, filled))
           id     == IF E.table.key = "text" THEN mu.id ELSE nextId
           table  == Over([i \in {id} |-> row], rows)
           ok     == Checked(E.create, filled)
<1>1. /\ mu \in Mutations(C, E.fields.numeric, E.fields.nullable, Restrictions) /\ mu.op = "create"
      /\ Agrees(E) /\ entity \in Focus /\ TableOK(rows) /\ nextId \in Nat
      /\ E.table.key = "text" => mu.id \in Nat
      /\ E.table.key = "int" => \A i \in DOMAIN rows : i < nextId
      /\ Task[w] = TaskOf(mu) /\ Wish[w] = AllWishes(C, mu)
  BY BuilderIs DEF SaveCreate
<1>2. id \in Nat /\ E.table.key \in {"int", "text"}
  BY <1>1 DEF Agrees
<1>3. /\ E.create.writes = C /\ E.create.default = E.table.default /\ E.table.default \in Changes(C)
      /\ E.create.required = E.table.notNull /\ E.create.required \subseteq C
      /\ E.table.unique \subseteq E.table.notNull /\ E.table.unique \subseteq C \ DOMAIN E.table.default
  BY <1>1, ChangesAre DEF Agrees
<1>4. /\ row = GrantedRow(C, DefaultRow(C, E.table.default), AllWishes(C, mu))
      /\ row \in [C -> Int \cup {Null}]
      /\ ok <=> \A c \in E.create.required : row[c] # Null
      /\ \A c \in C \ DOMAIN E.table.default : row[c] # Null => c \in DOMAIN mu.set /\ row[c] = mu.set[c]
  BY <1>1, <1>3, InsertGrants
<1> DEFINE wrow   == Wishes!Granting(Wishes!NewRow, Wish[w])
           wid    == IF Wishes!Kind.key = "int" THEN nextId ELSE Task[w].id
           wtable == Wishes!Over([i \in {wid} |-> wrow], rows)
           bad    == \E c \in Wishes!Kind.notNull : wrow[c] = Null
<1>5. Wishes!SaveCreate(w) <=>
        /\ Task[w].op = "create"
        /\ IF bad THEN Granted(w, "Invalid", rows) /\ UNCHANGED nextId
           ELSE IF wid \in DOMAIN rows \/ Wishes!Duplicates(wtable)
           THEN Granted(w, "Constraint", rows) /\ UNCHANGED nextId
           ELSE /\ Granted(w, "Saved", wtable)
                /\ nextId' = IF Wishes!Kind.key = "int" THEN nextId + 1 ELSE nextId
  BY DEF Wishes!SaveCreate, Wishes!Answer, Granted, Task, Wish, TaskOf, AllWishes
<1>6. /\ wrow = row /\ wid = id /\ wtable = table /\ (bad <=> ~ok)
      /\ Task[w].op = "create" /\ Wishes!Kind = E.table
      /\ Wishes!Duplicates(wtable) <=> ~Single(wtable)
  <2>1. wrow = row
    BY <1>1, <1>4, WishesAre
  <2>2. Wishes!Kind = E.table /\ Task[w].op = "create" /\ Task[w].id = mu.id
    BY <1>1, WishesAre DEF TaskOf
  <2>3. wid = id
    BY <1>2, <2>2
  <2>4. wtable = table
    BY <2>1, <2>3, SameTables
  <2>5. bad <=> ~ok
    BY <1>3, <1>4, <2>1, <2>2
  <2>6. Wishes!Duplicates(wtable) <=> ~Single(wtable)
    BY <1>1, WishesAre
  <2> QED
    BY <2>1, <2>2, <2>3, <2>4, <2>5, <2>6
<1> HIDE DEF wrow, wid, wtable, bad
<1>7. IF ~ok THEN Answer(w, "Invalid", rows) /\ UNCHANGED nextId
      ELSE IF id \in DOMAIN rows \/ Refused(table)
      THEN Answer(w, "Constraint", rows) /\ UNCHANGED nextId
      ELSE /\ Answer(w, "Saved", table)
           /\ nextId' = IF E.table.key = "int" THEN nextId + 1 ELSE nextId
  BY DEF SaveCreate
<1> HIDE DEF row, id, table, ok, filled, mu, C
<1>8. ok => RowOK(row)
  BY <1>3, <1>4 DEF RowOK, C
<1>9. ok /\ id \notin DOMAIN rows =>
        /\ DOMAIN table = {id} \cup DOMAIN rows /\ table[id] = row
        /\ \A i \in DOMAIN rows : table[i] = rows[i]
        /\ DOMAIN table \subseteq Nat /\ IsFiniteSet(DOMAIN table)
        /\ \A i \in DOMAIN table : RowOK(table[i])
  BY <1>1, <1>2, <1>8, RowPut DEF table
<1>10. ok /\ id \notin DOMAIN rows => (Refused(table) <=> ~Single(table))
  BY <1>1, <1>9, RefusedAre
<1>11. Wishes!SaveCreate(w) <=>
         IF ~ok THEN Granted(w, "Invalid", rows) /\ UNCHANGED nextId
         ELSE IF id \in DOMAIN rows \/ ~Single(table)
         THEN Granted(w, "Constraint", rows) /\ UNCHANGED nextId
         ELSE /\ Granted(w, "Saved", table)
              /\ nextId' = IF E.table.key = "int" THEN nextId + 1 ELSE nextId
  BY <1>5, <1>6
<1>12. DOMAIN out = Workers
  BY DEF IInv, BuildersInv
<1>13. CASE ~ok
  <2>1. Answer(w, "Invalid", rows) /\ UNCHANGED nextId
    BY <1>7, <1>13
  <2>2. IInv' /\ Granted(w, "Invalid", rows) /\ out' = [out EXCEPT ![w] = "Invalid"]
    BY <1>1, <2>1, UnchangedAnswer
  <2> QED
    BY <1>11, <1>12, <1>13, <2>1, <2>2
<1>14. CASE ok /\ (id \in DOMAIN rows \/ Refused(table))
  <2>1. Answer(w, "Constraint", rows) /\ UNCHANGED nextId
    BY <1>7, <1>14
  <2>2. IInv' /\ Granted(w, "Constraint", rows) /\ out' = [out EXCEPT ![w] = "Constraint"]
    BY <1>1, <2>1, UnchangedAnswer
  <2>3. Wishes!SaveCreate(w)
    BY <1>10, <1>11, <1>14, <2>1, <2>2
  <2>4. CASE id \in DOMAIN rows
    <3>1. E.table.key = "text"
      BY <1>1, <1>2, <2>4 DEF id
    <3>2. DuplicateOf(w)
      BY <1>1, <2>4, <3>1 DEF DuplicateOf, id, mu
    <3> QED
      BY <1>12, <2>2, <2>3, <3>2
  <2>5. CASE id \notin DOMAIN rows
    <3>1. PICK i \in DOMAIN table, j \in DOMAIN table, c \in E.table.unique :
                 table[i][c] = table[j][c] /\ i # j
      BY <1>10, <1>14, <2>5 DEF Single
    <3>2. ~(i \in DOMAIN rows /\ j \in DOMAIN rows)
      BY <1>1, <1>9, <1>14, <2>5, <3>1 DEF TableOK, Single
    <3>3. PICK k \in DOMAIN rows : rows[k][c] = row[c]
      BY <1>9, <1>14, <2>5, <3>1, <3>2
    <3>4. c \in DOMAIN mu.set /\ row[c] = mu.set[c]
      BY <1>3, <1>4, <1>14
    <3>5. DuplicateOf(w)
      BY <3>3, <3>4 DEF DuplicateOf, mu
    <3> QED
      BY <1>12, <2>2, <2>3, <3>5
  <2> QED
    BY <2>4, <2>5
<1>15. CASE ok /\ ~(id \in DOMAIN rows \/ Refused(table))
  <2>1. Answer(w, "Saved", table) /\ nextId' = IF E.table.key = "int" THEN nextId + 1 ELSE nextId
    BY <1>7, <1>15
  <2>2. TableOK(table) /\ Single(table)
    BY <1>9, <1>10, <1>15 DEF TableOK
  <2>3. nextId' \in Nat /\ (E.table.key = "int" => \A i \in DOMAIN table : i < nextId')
    BY <1>1, <1>2, <1>9, <1>15, <2>1 DEF id, TableOK
  <2>4. IInv' /\ Granted(w, "Saved", table) /\ out' = [out EXCEPT ![w] = "Saved"]
    BY <2>1, <2>2, <2>3, AnswerKeeps
  <2> QED
    BY <1>11, <1>12, <1>15, <2>1, <2>2, <2>4
<1> QED
  BY <1>13, <1>14, <1>15

\* The rows a statement of one row, or of many, is about.
Ids1(mu) ==
  Matching(rows, mu.where \cup (IF mu.op \in {"updateOne", "deleteOne"} THEN {IdIs(mu.id)} ELSE {}))

\* RowWishes is about the same.
LEMMA AboutIs ==
  ASSUME DOMAIN rows \subseteq Nat, NEW mu
  PROVE  /\ Wishes!Matching(rows, TaskOf(mu).where)
              \cap (IF TaskOf(mu).op \in {"updateOne", "deleteOne"} THEN {TaskOf(mu).id} ELSE DOMAIN rows)
              = Ids1(mu)
         /\ Ids1(mu) \subseteq DOMAIN rows
         /\ mu.op \in {"updateOne", "deleteOne"} => Ids1(mu) \subseteq {mu.id}
<1> DEFINE where == mu.where
           id    == mu.id
           one   == mu.op \in {"updateOne", "deleteOne"}
<1>1. /\ TaskOf(mu).op = mu.op /\ TaskOf(mu).id = id /\ TaskOf(mu).where = where
      /\ Wishes!Matching(rows, where) = Matching(rows, where)
  BY SameTables DEF TaskOf
<1>2. Ids1(mu) = Matching(rows, where \cup (IF one THEN {IdIs(id)} ELSE {}))
  BY DEF Ids1
<1> HIDE DEF where, id, one
<1>3. CASE one
  <2>1. Ids1(mu) = Matching(rows, where) \cap {id}
    BY <1>2, <1>3, MatchingOne
  <2> QED
    BY <1>1, <1>3, <2>1, MatchingThere DEF one, id
<1>4. CASE ~one
  <2>1. Ids1(mu) = Matching(rows, where) /\ Matching(rows, where) \subseteq DOMAIN rows
    BY <1>2, <1>4, MatchingThere
  <2> QED
    BY <1>1, <1>4, <2>1 DEF one
<1> QED
  BY <1>3, <1>4

\* Two rows are more than one.
LEMMA TwoRows ==
  ASSUME NEW S, IsFiniteSet(S), NEW i \in S, NEW j \in S, i # j
  PROVE  Cardinality(S) > 1
<1>1. Cardinality(S) \in Nat
  BY FS_CardinalityType
<1>2. Cardinality(S) # 0
  BY FS_EmptySet
<1>3. Cardinality(S) # 1
  BY FS_Singleton
<1> QED
  BY <1>1, <1>2, <1>3

\* An update: the rows are the wished ones, and only duplicates are refused.
LEMMA UpdateSaves ==
  ASSUME IInv, NEW w \in Workers, SaveUpdate(w)
  PROVE  /\ IInv' /\ Wishes!SaveUpdate(w)
         /\ \A u \in Workers : out'[u] = "Constraint" => (u = w /\ DuplicateOf(w)) \/ out[u] = "Constraint"
<1> DEFINE mu      == m[w]
           C       == E.columns
           N       == E.fields.numeric
           K       == E.fields.nullable
           updates == Updates1(w)
           one     == mu.op = "updateOne"
           ids     == Matching(rows, mu.where \union (IF one THEN {IdIs(mu.id)} ELSE {}))
           new(i)  == UpdatedRow(rows[i], UpdateSpec(updates, mu))
           table   == [i \in DOMAIN rows |-> IF i \in ids THEN new(i) ELSE rows[i]]
<1>1. /\ mu \in Mutations(C, N, K, Restrictions) /\ mu.op \in {"update", "updateOne"}
      /\ Agrees(E) /\ entity \in Focus /\ TableOK(rows) /\ nextId \in Nat
      /\ E.table.key = "int" => \A i \in DOMAIN rows : i < nextId
      /\ Task[w] = TaskOf(mu) /\ Wish[w] = AllWishes(C, mu)
  BY BuilderIs DEF SaveUpdate
<1>2. /\ updates.set = C /\ updates.add = N /\ updates.clear = K /\ N \subseteq C
      /\ E.table.notNull \subseteq C \ K /\ E.table.unique \subseteq C \ (N \cup K)
  BY <1>1 DEF Agrees, Updates1
<1>3. ids = Ids1(mu)
  BY <1>1 DEF Ids1
<1>4. ids \subseteq DOMAIN rows /\ (one => ids \subseteq {mu.id})
  <2>1. DOMAIN rows \subseteq Nat
    BY <1>1 DEF TableOK
  <2>2. Ids1(mu) \subseteq DOMAIN rows
    BY <2>1, AboutIs
  <2>3. mu.op \in {"updateOne", "deleteOne"} => Ids1(mu) \subseteq {mu.id}
    BY <2>1, AboutIs
  <2> HIDE DEF ids, mu
  <2> QED
    BY <1>3, <2>2, <2>3
<1>5. /\ IF one /\ ids = {} THEN Answer(w, "NotFound", rows)
         ELSE IF Refused(table) THEN Answer(w, "Constraint", rows)
         ELSE Answer(w, "Saved", table)
      /\ UNCHANGED nextId
  BY DEF SaveUpdate
<1>6. ASSUME NEW i \in DOMAIN rows
      PROVE  /\ new(i) = GrantedRow(C, rows[i], AllWishes(C, mu)) /\ RowOK(new(i))
             /\ \A c \in E.table.unique : new(i)[c] = IF c \in DOMAIN mu.set THEN mu.set[c] ELSE rows[i][c]
  <2> DEFINE row == rows[i]
  <2>1. row \in [C -> Int \cup {Null}] /\ (\A c \in E.table.notNull : row[c] \in Int) /\ mu.op # "create"
    BY <1>1 DEF TableOK, RowOK
  <2> HIDE DEF row, mu, C, N, K, updates
  <2>2. LET after == UpdatedRow(row, UpdateSpec(updates, mu)) IN
        /\ after = GrantedRow(C, row, AllWishes(C, mu))
        /\ after \in [C -> Int \cup {Null}]
        /\ \A c \in C \ K : row[c] \in Int => after[c] \in Int
        /\ \A c \in C \ (N \cup K) : after[c] = IF c \in DOMAIN mu.set THEN mu.set[c] ELSE row[c]
    BY <1>1, <1>2, <2>1, UpdateGrants
  <2> QED
    BY <1>2, <2>1, <2>2 DEF row, RowOK, C
<1> DEFINE about  == Wishes!Matching(rows, Task[w].where)
                       \intersect (IF Task[w].op \in {"updateOne", "deleteOne"} THEN {Task[w].id}
                                   ELSE DOMAIN rows)
           wtable == [i \in DOMAIN rows |->
                        IF i \in about THEN Wishes!Granting(rows[i], Wish[w]) ELSE rows[i]]
<1>7. Wishes!SaveUpdate(w) <=>
        /\ Task[w].op \in {"update", "updateOne"}
        /\ IF Task[w].op = "updateOne" /\ about = {} THEN Granted(w, "NotFound", rows)
           ELSE IF Wishes!Duplicates(wtable) THEN Granted(w, "Constraint", rows)
           ELSE Granted(w, "Saved", wtable)
        /\ UNCHANGED nextId
  BY DEF Wishes!SaveUpdate, Wishes!About, Wishes!Answer, Granted, Task, Wish, TaskOf, AllWishes
<1>8. about = ids /\ Task[w].op = mu.op
  <2>1. Task[w].op = mu.op
    BY <1>1 DEF TaskOf
  <2>2. about = Ids1(mu)
    BY <1>1, AboutIs DEF TableOK
  <2> QED
    BY <1>3, <2>1, <2>2
<1>9. wtable = table
  <2>1. \A i \in DOMAIN rows : Wishes!Granting(rows[i], Wish[w]) = new(i)
    BY <1>1, <1>6, WishesAre
  <2> HIDE DEF new, ids, about
  <2> QED
    BY <1>8, <2>1
<1>10. Wishes!Duplicates(wtable) <=> ~Single(wtable)
  BY <1>1, WishesAre
<1>11. /\ DOMAIN table = DOMAIN rows
       /\ \A i \in DOMAIN rows : table[i] = IF i \in ids THEN new(i) ELSE rows[i]
  OBVIOUS
<1> HIDE DEF mu, C, N, K, updates, ids, new, table, about, wtable
<1>12. \A i \in DOMAIN table : RowOK(table[i])
  BY <1>1, <1>6, <1>11 DEF TableOK
<1>13. Refused(table) <=> ~Single(table)
  BY <1>1, <1>12, RefusedAre
<1>14. Wishes!SaveUpdate(w) <=>
         /\ IF one /\ ids = {} THEN Granted(w, "NotFound", rows)
            ELSE IF ~Single(table) THEN Granted(w, "Constraint", rows)
            ELSE Granted(w, "Saved", table)
         /\ UNCHANGED nextId
  BY <1>1, <1>7, <1>8, <1>9, <1>10
<1>15. DOMAIN out = Workers
  BY DEF IInv, BuildersInv
<1> HIDE DEF one
<1>16. CASE one /\ ids = {}
  <2>1. Answer(w, "NotFound", rows) /\ UNCHANGED nextId
    BY <1>5, <1>16
  <2>2. IInv' /\ Granted(w, "NotFound", rows) /\ out' = [out EXCEPT ![w] = "NotFound"]
    BY <2>1, UnchangedAnswer
  <2> QED
    BY <1>14, <1>15, <1>16, <2>1, <2>2
<1>17. CASE ~(one /\ ids = {}) /\ Refused(table)
  <2>1. Answer(w, "Constraint", rows) /\ UNCHANGED nextId
    BY <1>5, <1>17
  <2>2. IInv' /\ Granted(w, "Constraint", rows) /\ out' = [out EXCEPT ![w] = "Constraint"]
    BY <2>1, UnchangedAnswer
  <2>3. PICK i \in DOMAIN rows, j \in DOMAIN rows, c \in E.table.unique :
               table[i][c] = table[j][c] /\ i # j
    BY <1>11, <1>13, <1>17 DEF Single
  <2>4. /\ table[i][c] = IF i \in ids /\ c \in DOMAIN mu.set THEN mu.set[c] ELSE rows[i][c]
        /\ table[j][c] = IF j \in ids /\ c \in DOMAIN mu.set THEN mu.set[c] ELSE rows[j][c]
    BY <1>6, <1>11
  <2>5. rows[i][c] # rows[j][c]
    BY <1>1, <2>3 DEF TableOK, Single
  <2>6. c \in DOMAIN mu.set /\ (i \in ids \/ j \in ids)
    BY <2>3, <2>4, <2>5
  <2>7. CASE i \in ids /\ j \in ids
    <3>1. mu.op = "update"
      BY <1>1, <1>4, <2>3, <2>7 DEF one
    <3>2. Cardinality(DOMAIN rows) > 1
      BY <1>1, <2>3, TwoRows DEF TableOK
    <3>3. DuplicateOf(w)
      BY <2>6, <3>1, <3>2 DEF DuplicateOf, mu
    <3> QED
      BY <1>13, <1>14, <1>15, <1>17, <2>1, <2>2, <3>3
  <2>8. CASE ~(i \in ids /\ j \in ids)
    <3>1. \E k \in DOMAIN rows : rows[k][c] = mu.set[c]
      BY <2>3, <2>4, <2>6, <2>8
    <3>2. DuplicateOf(w)
      BY <2>6, <3>1 DEF DuplicateOf, mu
    <3> QED
      BY <1>13, <1>14, <1>15, <1>17, <2>1, <2>2, <3>2
  <2> QED
    BY <2>7, <2>8
<1>18. CASE ~(one /\ ids = {}) /\ ~Refused(table)
  <2>1. Answer(w, "Saved", table) /\ UNCHANGED nextId
    BY <1>5, <1>18
  <2>2. TableOK(table)
    BY <1>1, <1>11, <1>12, <1>13, <1>18 DEF TableOK
  <2>3. nextId' \in Nat /\ (E.table.key = "int" => \A i \in DOMAIN table : i < nextId')
    BY <1>1, <1>11, <2>1
  <2>4. IInv' /\ Granted(w, "Saved", table) /\ out' = [out EXCEPT ![w] = "Saved"]
    BY <2>1, <2>2, <2>3, AnswerKeeps
  <2> QED
    BY <1>13, <1>14, <1>15, <1>18, <2>1, <2>4
<1> QED
  BY <1>16, <1>17, <1>18

\* A delete: the rows the task is about go.
LEMMA DeleteSaves ==
  ASSUME IInv, NEW w \in Workers, SaveDelete(w)
  PROVE  /\ IInv' /\ Wishes!SaveDelete(w)
         /\ \A u \in Workers : out'[u] = "Constraint" => out[u] = "Constraint"
<1> DEFINE mu    == m[w]
           one   == mu.op = "deleteOne"
           ids   == Matching(rows, mu.where \union (IF one THEN {IdIs(mu.id)} ELSE {}))
           table == Restrict(rows, DOMAIN rows \ ids)
<1>1. /\ mu.op \in {"delete", "deleteOne"} /\ entity \in Focus /\ TableOK(rows) /\ nextId \in Nat
      /\ E.table.key = "int" => \A i \in DOMAIN rows : i < nextId
      /\ Task[w] = TaskOf(mu)
  BY BuilderIs DEF SaveDelete
<1>2. ids = Ids1(mu)
  BY <1>1 DEF Ids1
<1>3. /\ IF one /\ ids = {} THEN Answer(w, "NotFound", rows) ELSE Answer(w, "Saved", table)
      /\ UNCHANGED nextId
  BY DEF SaveDelete
<1> DEFINE about  == Wishes!Matching(rows, Task[w].where)
                       \intersect (IF Task[w].op \in {"updateOne", "deleteOne"} THEN {Task[w].id}
                                   ELSE DOMAIN rows)
<1>4. Wishes!SaveDelete(w) <=>
        /\ Task[w].op \in {"delete", "deleteOne"}
        /\ IF Task[w].op = "deleteOne" /\ about = {} THEN Granted(w, "NotFound", rows)
           ELSE Granted(w, "Saved", Wishes!Restrict(rows, DOMAIN rows \ about))
        /\ UNCHANGED nextId
  BY DEF Wishes!SaveDelete, Wishes!About, Wishes!Answer, Granted, Task, Wish, TaskOf, AllWishes
<1>5. about = ids /\ Task[w].op = mu.op
  <2>1. Task[w].op = mu.op
    BY <1>1 DEF TaskOf
  <2>2. about = Ids1(mu)
    BY <1>1, AboutIs DEF TableOK
  <2> QED
    BY <1>2, <2>1, <2>2
<1>6. Wishes!Restrict(rows, DOMAIN rows \ ids) = table
  BY SameTables
<1>7. DOMAIN table = DOMAIN rows \ ids /\ \A i \in DOMAIN table : table[i] = rows[i]
  BY DEF Restrict
<1> HIDE DEF ids, table, about, mu
<1>8. Wishes!SaveDelete(w) <=>
        /\ IF one /\ ids = {} THEN Granted(w, "NotFound", rows) ELSE Granted(w, "Saved", table)
        /\ UNCHANGED nextId
  BY <1>1, <1>4, <1>5, <1>6
<1>9. TableOK(table)
  <2>1. IsFiniteSet(DOMAIN table)
    BY <1>1, <1>7, FS_Subset DEF TableOK
  <2> QED
    BY <1>1, <1>7, <2>1 DEF TableOK, Single
<1>10. DOMAIN out = Workers
  BY DEF IInv, BuildersInv
<1> HIDE DEF one
<1>11. CASE one /\ ids = {}
  <2>1. Answer(w, "NotFound", rows) /\ UNCHANGED nextId
    BY <1>3, <1>11
  <2>2. IInv' /\ Granted(w, "NotFound", rows) /\ out' = [out EXCEPT ![w] = "NotFound"]
    BY <2>1, UnchangedAnswer
  <2> QED
    BY <1>8, <1>10, <1>11, <2>1, <2>2
<1>12. CASE ~(one /\ ids = {})
  <2>1. Answer(w, "Saved", table) /\ UNCHANGED nextId
    BY <1>3, <1>12
  <2>2. nextId' \in Nat /\ (E.table.key = "int" => \A i \in DOMAIN table : i < nextId')
    BY <1>1, <1>7, <2>1
  <2>3. IInv' /\ Granted(w, "Saved", table) /\ out' = [out EXCEPT ![w] = "Saved"]
    BY <1>9, <2>1, <2>2, AnswerKeeps
  <2> QED
    BY <1>8, <1>10, <1>12, <2>1, <2>3
<1> QED
  BY <1>11, <1>12

-----------------------------------------------------------------------------
(* The steps, and the theorems                                             *)

\* The variables of RowWishes, as the builders give them.
WishVars == <<entity, rows, nextId, Task, Wish, last, out>>

\* They are its variables.
LEMMA WishVarsAre == UNCHANGED WishVars => UNCHANGED Wishes!vars
BY DEF Wishes!vars, WishVars, Task, Wish, TaskOf, AllWishes

\* A save keeps the invariant, is a save of RowWishes, and is refused by the
\* database for a duplicate only.
LEMMA Saves ==
  ASSUME IInv, NEW w \in Workers, SaveCreate(w) \/ SaveUpdate(w) \/ SaveDelete(w)
  PROVE  /\ IInv' /\ (Wishes!SaveCreate(w) \/ Wishes!SaveUpdate(w) \/ Wishes!SaveDelete(w))
         /\ \A u \in Workers : out'[u] = "Constraint" => (u = w /\ DuplicateOf(w)) \/ out[u] = "Constraint"
<1>1. CASE SaveCreate(w)
  BY <1>1, CreateSaves
<1>2. CASE SaveUpdate(w)
  BY <1>2, UpdateSaves
<1>3. CASE SaveDelete(w)
  BY <1>3, DeleteSaves
<1> QED
  BY <1>1, <1>2, <1>3

\* The groups of steps.
Begins(w) == Create(w) \/ Update(w) \/ UpdateOneID(w) \/ Delete(w) \/ DeleteOneID(w)
Calls(w) ==
  \/ BuilderSet(w) \/ BuilderAdd(w) \/ BuilderClear(w)
  \/ MutationSet(w) \/ MutationAdd(w) \/ MutationClear(w) \/ MutationReset(w)
SavesOne(w) == SaveCreate(w) \/ SaveUpdate(w) \/ SaveDelete(w)

\* A step is of one of the groups.
LEMMA NextIs ==
  Next <=> \E w \in Workers : Begins(w) \/ Calls(w) \/ SavesOne(w)
BY DEF Next, Begins, Calls, SavesOne

\* A goroutine that begins a builder forgets what the last one was answered.
LEMMA BeginsOnly ==
  ASSUME NEW w \in Workers, Begins(w)
  PROVE  out' = [out EXCEPT ![w] = "none"]
<1>1. \E mu : Begin(w, mu)
  BY DEF Begins, Create, Update, UpdateOneID, Delete, DeleteOneID
<1> QED
  BY <1>1 DEF Begin

\* A call on a builder answers nothing.
LEMMA CallsOnly ==
  ASSUME NEW w \in Workers, Calls(w) PROVE UNCHANGED out
<1>1. \E call, mu : Called(w, call, mu)
  BY DEF Calls, BuilderSet, BuilderAdd, BuilderClear, MutationSet, MutationAdd, MutationClear,
     MutationReset
<1> QED
  BY <1>1 DEF Called

\* Every step keeps the invariant, and is a step of RowWishes or none.
LEMMA StepKeeps ==
  ASSUME IInv, [Next]_vars PROVE IInv' /\ (Wishes!Next \/ UNCHANGED WishVars)
<1>1. ASSUME NEW w \in Workers, Begins(w) PROVE IInv' /\ Wishes!Next
  BY <1>1, BuildersBegin DEF Begins, Wishes!Next
<1>2. ASSUME NEW w \in Workers, Calls(w) PROVE IInv' /\ Wishes!Next
  BY <1>2, BuildersCalled DEF Calls, Wishes!Next
<1>3. ASSUME NEW w \in Workers, SavesOne(w) PROVE IInv' /\ Wishes!Next
  BY <1>3, Saves DEF SavesOne, Wishes!Next
<1>4. CASE UNCHANGED vars
  <2>1. UNCHANGED <<entity, rows, nextId, last, out, m, calls, made>>
    BY <1>4 DEF vars
  <2>2. UNCHANGED <<Task, Wish>>
    BY <2>1 DEF Task, Wish, E
  <2>3. RowsInv'
    BY <2>1, EntityStays DEF IInv, RowsInv
  <2>4. BuildersInv'
    BY <2>1, EntityStays DEF IInv, BuildersInv
  <2> QED
    BY <2>1, <2>2, <2>3, <2>4 DEF IInv, WishVars
<1> QED
  BY <1>1, <1>2, <1>3, <1>4, NextIs

\* The invariant.
LEMMA Invariance == Spec => []IInv
<1>1. IInv /\ [Next]_vars => IInv'
  BY StepKeeps
<1> QED
  BY <1>1, InvStarts, PTL DEF Spec

\* Every stored row has exactly the table's columns and a value in each that
\* the migration requires, whichever builder wrote it and whatever calls came
\* before (check of the create builders, no Clear method for a required
\* column, the struct fields of mutation.go).
THEOREM RowsTyped == Spec => []TypeOK
<1>1. IInv => TypeOK
  <2> SUFFICES ASSUME IInv PROVE TypeOK
    OBVIOUS
  <2>1. Agrees(E) /\ TableOK(rows) /\ nextId \in Nat /\ calls \in 0..MaxCalls /\ made \in 0..MaxBuilders
    BY EntityAgrees DEF IInv, RowsInv, BuildersInv
  <2>2. ASSUME NEW id \in DOMAIN rows
        PROVE  /\ DOMAIN rows[id] = E.columns
               /\ \A c \in E.table.notNull : rows[id][c] \in Int
               /\ \A c \in E.table.nullable : rows[id][c] \in Int \cup {Null}
    <3>1. rows[id] \in [E.columns -> Int \cup {Null}] /\ \A c \in E.table.notNull : rows[id][c] \in Int
      BY <2>1 DEF TableOK, RowOK
    <3>2. E.table.nullable \subseteq E.columns
      BY <2>1 DEF Agrees
    <3> QED
      BY <3>1, <3>2
  <2> QED
    BY <2>1, <2>2 DEF TypeOK
<1> QED
  BY <1>1, Invariance, PTL

\* A ConstraintError means a duplicate: no NULL and no missing column of the
\* builders' own making reaches the database (sqlSave of the create and the
\* update builders against migrate/schema.go).
THEOREM DuplicatesOnly == Spec => OnlyDuplicatesRefused
<1> DEFINE Fair == \A w \in Workers : out'[w] = "Constraint" /\ out[w] # "Constraint" => DuplicateOf(w)
<1>1. IInv /\ [Next]_vars => [Fair]_vars
  <2> SUFFICES ASSUME IInv, Next, NEW w \in Workers, out'[w] = "Constraint", out[w] # "Constraint"
               PROVE  DuplicateOf(w)
    OBVIOUS
  <2>1. DOMAIN out = Workers
    BY DEF IInv, BuildersInv
  <2>2. PICK u \in Workers : Begins(u) \/ Calls(u) \/ SavesOne(u)
    BY NextIs
  <2>3. CASE Begins(u)
    BY <2>1, <2>3, BeginsOnly
  <2>4. CASE Calls(u)
    BY <2>4, CallsOnly
  <2>5. CASE SavesOne(u)
    BY <2>5, Saves DEF SavesOne
  <2> QED
    BY <2>2, <2>3, <2>4, <2>5
<1> QED
  BY <1>1, Invariance, PTL DEF Spec, OnlyDuplicatesRefused, DuplicateOf

\* The builders implement RowWishes: the three lists a builder keeps, merged
\* by the INSERT or the UPDATE, come to the last wish about every column, in
\* all the rows the statement is about or in none.
THEOREM WishesGranted == Spec => SavesGrantWishes
<1>1. Init => Wishes!Init
  BY WishesStart
<1>2. IInv /\ [Next]_vars => [Wishes!Next]_(Wishes!vars)
  BY StepKeeps, WishVarsAre
<1> QED
  BY <1>1, <1>2, Invariance, PTL DEF Spec, SavesGrantWishes, Wishes!Spec
=============================================================================
