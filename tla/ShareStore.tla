----------------------------- MODULE ShareStore -----------------------------
(***************************************************************************)
(* internal/share: the conversion between a Share and its row, the rule   *)
(* for active shares as Go computes it and as SQL does, and the listings. *)
(*                                                                        *)
(* Go compares instants; SQL compares their RFC3339Nano text, in which a  *)
(* fraction of a second loses its trailing zeros.  An instant is a number *)
(* of ticks, four to the second, that stand for the fractions 0, .1, .11  *)
(* and .2: a whole second, a short and a longer fraction, and a later one.*)
(***************************************************************************)
EXTENDS Integers, Sequences, FiniteSets

CONSTANTS
  Null,       \* SQL NULL, a nil *string, an invalid sql.NullString
  ListLimit,  \* rows a listing returns at most: 100
  MaxKey      \* maxPrivateKeyBytes

ASSUME StoreAssumption ==
  /\ ListLimit \in Nat \ {0} /\ MaxKey \in Nat
  /\ Null \notin Int

TicksPerSecond == 4
Fractions == <<<<>>, <<1>>, <<1, 1>>, <<2>>>>

\* The characters of a timestamp after its seconds, in the order of ASCII.
Dot  == 0
Zulu == 10

Second(t) == t \div TicksPerSecond

\* t.Format(time.RFC3339Nano)
Encoded(t) ==
  LET f == Fractions[(t % TicksPerSecond) + 1]
  IN  <<Second(t)>> \o (IF f = <<>> THEN <<>> ELSE <<Dot>>) \o f \o <<Zulu>>

\* The order of two timestamps as TEXT.
TextBefore(s, t) ==
  LET a == Encoded(s)
      b == Encoded(t)
  IN  \E n \in DOMAIN a \cap DOMAIN b : a[n] < b[n] /\ \A m \in 1..(n - 1) : a[m] = b[m]

-----------------------------------------------------------------------------
(* A Share and its row *)

\* nonEmptyString
NilIfEmpty(v) == IF v = "" THEN Null ELSE v

\* stringValue
EmptyIfNil(v) == IF v = Null THEN "" ELSE v

\* Insert: created_at is the instant of the insertion.
RowOf(s, t) ==
  [s EXCEPT !.key = NilIfEmpty(s.key), !.verifier = NilIfEmpty(s.verifier), !.created = t]

\* fromEnt
FromEnt(r) == [r EXCEPT !.key = EmptyIfNil(r.key), !.verifier = EmptyIfNil(r.verifier)]

-----------------------------------------------------------------------------
(* Active shares *)

\* ActiveRule.IsExpired and IsActive
IsExpired(s, t) == s.exp # Null /\ s.exp <= t
IsActive(s, t)  == ~s.purged /\ ~IsExpired(s, t)

\* Mutated form of Active: the expiry is forgotten.
NotPurged(r, t) == ~r.purged

\* ActiveRule.Predicate
Active(r, t) == ~r.purged /\ (r.exp = Null \/ TextBefore(t, r.exp))

Protected(r) == r.encrypted /\ r.verifier # Null

\* ORDER BY created_at DESC LIMIT: the listings SQL may return, in any order of
\* rows created at once.
Newest(rs) ==
  {l \in SUBSET rs :
     /\ Cardinality(l) <= ListLimit
     /\ l = rs \/ Cardinality(l) = ListLimit
     /\ \A r \in l, q \in rs \ l : ~TextBefore(r.created, q.created)}

ListPublic(rs, t) ==
  Newest({r \in rs : Active(r, t) /\ r.visibility = "public" /\ Protected(r)})

\* ListByKey.  The HMAC of a key is written as the key.
ListByKey(rs, t, k) ==
  Newest({r \in rs : Active(r, t) /\ r.visibility = "private" /\ r.key = k /\ Protected(r)})

\* PurgeUnprotected and Purge: the shares a pass at t removes.
Purgeable(r, t) == ~Protected(r) \/ (~r.purged /\ IsExpired(FromEnt(r), t))

\* requestBodyValue, on a well-formed body: the keys /api/v0/list accepts.
LookupAccepts(bytes) == bytes > 0 /\ bytes <= MaxKey
=============================================================================
