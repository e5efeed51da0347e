------------------------------ MODULE ShareData ------------------------------
(***************************************************************************)
(* The durable and the shared state of the share server, and the queries  *)
(* on it: the blob directory (internal/storage/blobstore.go), the shares  *)
(* table (internal/share), and the two mutexes and the reservation total  *)
(* every goroutine works under.                                           *)
(*                                                                        *)
(* A share is one row and one blob file, both named by its id.  Payloads  *)
(* are abstracted to their size in units; instants are naturals.          *)
(***************************************************************************)
EXTENDS Integers, FiniteSets

CONSTANTS
  Ids,         \* UUIDs: a share, its blob and its staged file are named by one
  Uploaders,   \* goroutines serving POST /api/v0/upload
  Clients,     \* goroutines serving every other request that touches storage
  Cleaner,     \* main, then the goroutine StartCleanup leaves behind
  NoOne,       \* the holder of a mutex nobody holds
  NoId,        \* no share
  Cap,         \* STORAGE_CAP_BYTES, in units
  MaxUpload,   \* MAX_UPLOAD_BYTES, in units
  MinBlob,     \* the 16 bytes every encrypted payload has at least, in units
  Lifetimes,   \* expiry_hours a client may ask for
  Legacy,      \* ids the data directory may already hold at the first start
  IOFaults     \* which calls of the OS or of the database may fail

ASSUME CapacityAssumption ==
  /\ Cap \in Nat /\ MaxUpload \in Nat \ {0} /\ MinBlob \in Nat
ASSUME SetsAssumption ==
  /\ IsFiniteSet(Ids) /\ IsFiniteSet(Uploaders)
  /\ Legacy \subseteq Ids /\ Lifetimes \subseteq Nat \ {0}
ASSUME NamesAssumption ==
  /\ NoId \notin Ids
  /\ NoOne \notin Uploaders \cup Clients \cup {Cleaner}
  /\ Uploaders \cap Clients = {}
  /\ Cleaner \notin Uploaders \cup Clients

VARIABLES
  file,          \* what lies at the blob path of an id
  size,          \* size of the last blob written there
  staging,       \* ids with a temporary file under .staging
  rows,          \* the shares table
  now,           \* the wall clock
  mu,            \* holder of Integrity.mu
  capMu,         \* holder of upload.capMu
  reservations   \* upload.reservations[BlobDir]

disk == <<file, size, staging>>

Procs == Uploaders \cup Clients \cup {Cleaner}
Units == 1..MaxUpload

\* expires_at of a row that has none (SQL NULL).
NoExpiry == 0

\* A row keeps what retention looks at: its key, its expiry, and whether it is
\* encrypted and has a password verifier.
Row == [id : Ids, exp : Nat, protected : BOOLEAN]

-----------------------------------------------------------------------------
(* The shares table *)

Registered == {r.id : r \in rows}

\* Store.Delete: no error when the row is already gone.
RowsWithout(i) == {r \in rows : r.id # i}

\* ActiveRule.IsExpired, also IsPurgeable.
Expired(exp, t) == exp # NoExpiry /\ exp <= t

\* Store.WithExpiry narrowed by Purge to what is expired at t.
ExpiredIds(t) == {r.id : r \in {q \in rows : Expired(q.exp, t)}}

\* Store.WithoutDownloadProtection.
UnprotectedIds == {r.id : r \in {q \in rows : ~q.protected}}

-----------------------------------------------------------------------------
(* The blob directory *)

\* Regular files: what Lstat accepts as a blob and what UsedBytes counts.
Blobs == {i \in Ids : file[i] = "regular"}

\* The sum of f over S, for f bounded by MaxUpload.  It is written as the size
\* of a set with f[x] elements for every x in S.
Total(S, f) == Cardinality({b \in S \X Units : b[2] <= f[b[1]]})

\* storage.UsedBytes, had it counted the blobs in S.
UsedBy(S) == Total(S, size)
UsedBytes == UsedBy(Blobs)
=============================================================================
