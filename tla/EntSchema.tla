------------------------------ MODULE EntSchema ------------------------------
(* The six entities of the database, as each generated file under            *)
(* src/internal/ent states them for itself: the table of the migration, the  *)
(* create builder with its checks and defaults, the update builders, the     *)
(* mutation's table of fields. The files are generated one by one, so that   *)
(* they agree is a property of the model (EntStore), not an assumption.      *)
(* Column values are numbers: a text is its rank in the collation, 0 is "",  *)
(* FALSE or 0, and "en" is 1.                                                *)
EXTENDS Integers, FiniteSets, Functions

CONSTANT Null   \* SQL NULL and Go's nil

ASSUME NullAssumption == Null \notin Int /\ Null \notin BOOLEAN

Nothing == [c \in {} |-> Null]
With(c, v) == [x \in {c} |-> v]

\* f, and g where f says nothing.
Over(f, g) == [x \in DOMAIN f \union DOMAIN g |-> IF x \in DOMAIN f THEN f[x] ELSE g[x]]

\* What one generated file says of its columns.
Table(key, notNull, nullable, unique, default) ==
  [key |-> key, notNull |-> notNull, nullable |-> nullable, unique |-> unique,
   default |-> default]
Creates(set, nillable, required, default, writes) ==
  [set |-> set, nillable |-> nillable, required |-> required,
   default |-> default, writes |-> writes]
Updates(set, add, clear) == [set |-> set, add |-> add, clear |-> clear]
Fields(all, numeric, nullable) ==
  [all |-> all, numeric |-> numeric, nullable |-> nullable]

----------------------------------------------------------------------------
\* admins
AdminTable == Table("int", {"username", "password_hash", "created_at"}, {},
                    {"username"}, Nothing)
AdminColumns == {"username", "password_hash", "created_at"}
AdminCreate ==
  Creates(AdminColumns, {}, {"username", "password_hash", "created_at"},
          Nothing, {"username", "password_hash", "created_at"})
AdminUpdate == Updates({"username", "password_hash", "created_at"}, {}, {})
AdminUpdateOne == Updates({"username", "password_hash", "created_at"}, {}, {})
AdminFields == Fields({"username", "password_hash", "created_at"}, {}, {})

----------------------------------------------------------------------------
\* audit_events
AuditEventTable ==
  Table("int", {"actor", "ip", "action", "target", "meta", "created_at"}, {},
        {}, Nothing)
AuditEventColumns == {"actor", "ip", "action", "target", "meta", "created_at"}
AuditEventCreate ==
  Creates(AuditEventColumns, {},
          {"actor", "ip", "action", "target", "meta", "created_at"}, Nothing,
          {"actor", "ip", "action", "target", "meta", "created_at"})
AuditEventUpdate ==
  Updates({"actor", "ip", "action", "target", "meta", "created_at"}, {}, {})
AuditEventUpdateOne ==
  Updates({"actor", "ip", "action", "target", "meta", "created_at"}, {}, {})
AuditEventFields ==
  Fields({"actor", "ip", "action", "target", "meta", "created_at"}, {}, {})

----------------------------------------------------------------------------
\* ip_bans: the id is stored in the column ip
IpBanTable == Table("text", {"banned_until"}, {}, {}, Nothing)
IpBanColumns == {"banned_until"}
IpBanCreateUnchecked == Creates(IpBanColumns, {}, {}, Nothing, {"banned_until"})
IpBanCreate == Creates(IpBanColumns, {}, {"banned_until"}, Nothing,
                       {"banned_until"})
IpBanUpdate == Updates({"banned_until"}, {}, {})
IpBanUpdateOne == Updates({"banned_until"}, {}, {})
IpBanFields == Fields({"banned_until"}, {}, {})

----------------------------------------------------------------------------
\* login_failure_events
LoginFailureEventTable == Table("int", {"ip", "happened_at"}, {}, {}, Nothing)
LoginFailureEventColumns == {"ip", "happened_at"}
LoginFailureEventCreate ==
  Creates(LoginFailureEventColumns, {}, {"ip", "happened_at"}, Nothing,
          {"ip", "happened_at"})
LoginFailureEventUpdate == Updates({"ip", "happened_at"}, {}, {})
LoginFailureEventUpdateOne == Updates({"ip", "happened_at"}, {}, {})
LoginFailureEventFields == Fields({"ip", "happened_at"}, {}, {})

----------------------------------------------------------------------------
\* sessions
SessionTable ==
  Table("text", {"csrf", "language", "created_at", "expires_at"}, {"admin_id"},
        {}, With("language", 1))
SessionColumns == {"admin_id", "csrf", "language", "created_at", "expires_at"}
SessionCreate ==
  Creates(SessionColumns, {"admin_id", "language"},
          {"csrf", "language", "created_at", "expires_at"}, With("language", 1),
          {"admin_id", "csrf", "language", "created_at", "expires_at"})
SessionUpdate ==
  Updates({"admin_id", "csrf", "language", "created_at", "expires_at"},
          {"admin_id"}, {"admin_id"})
SessionUpdateOne ==
  Updates({"admin_id", "csrf", "language", "created_at", "expires_at"},
          {"admin_id"}, {"admin_id"})
SessionFields ==
  Fields({"admin_id", "csrf", "language", "created_at", "expires_at"},
         {"admin_id"}, {"admin_id"})

----------------------------------------------------------------------------
\* shares
ShareTable ==
  Table("text",
        {"title", "visibility", "encrypted", "security_warning",
         "admin_message", "size", "blob_path", "blob_sha256", "uploader_ip",
         "created_at"},
        {"private_key_hash", "download_password_hash", "cipher_meta",
         "zip_manifest", "expires_at", "purged_at"},
        {}, [c \in {"security_warning", "admin_message"} |-> 0])
ShareColumns ==
  {"title", "visibility", "private_key_hash", "download_password_hash",
   "encrypted", "cipher_meta", "zip_manifest", "security_warning",
   "admin_message", "size", "blob_path", "blob_sha256", "uploader_ip",
   "expires_at", "created_at", "purged_at"}
ShareSetters ==
  {"title", "visibility", "private_key_hash", "download_password_hash",
   "encrypted", "cipher_meta", "zip_manifest", "security_warning",
   "admin_message", "size", "blob_path", "blob_sha256", "uploader_ip",
   "expires_at", "created_at", "purged_at"}
ShareRequired ==
  {"title", "visibility", "encrypted", "security_warning", "admin_message",
   "size", "blob_path", "blob_sha256", "uploader_ip", "created_at"}
ShareWritten ==
  {"title", "visibility", "private_key_hash", "download_password_hash",
   "encrypted", "cipher_meta", "zip_manifest", "security_warning",
   "admin_message", "size", "blob_path", "blob_sha256", "uploader_ip",
   "expires_at", "created_at", "purged_at"}
ShareCreate ==
  Creates(ShareSetters,
          {"private_key_hash", "download_password_hash", "cipher_meta",
           "zip_manifest", "security_warning", "admin_message", "expires_at",
           "purged_at"},
          ShareRequired,
          [c \in {"security_warning", "admin_message"} |-> 0], ShareWritten)
ShareNullable ==
  {"private_key_hash", "download_password_hash", "cipher_meta",
   "zip_manifest", "expires_at", "purged_at"}
ShareUpdate == Updates(ShareColumns, {"size"}, ShareNullable)
ShareUpdateOne == Updates(ShareColumns, {"size"}, ShareNullable)
ShareFields == Fields(ShareColumns, {"size"}, ShareNullable)

----------------------------------------------------------------------------
Entity(table, columns, create, update, updateOne, fields) ==
  [table |-> table, columns |-> columns, create |-> create,
   update |-> update, updateOne |-> updateOne, fields |-> fields]

Schema ==
  [Admin |-> Entity(AdminTable, AdminColumns, AdminCreate, AdminUpdate,
                    AdminUpdateOne, AdminFields),
   AuditEvent |-> Entity(AuditEventTable, AuditEventColumns, AuditEventCreate,
                         AuditEventUpdate, AuditEventUpdateOne,
                         AuditEventFields),
   IpBan |-> Entity(IpBanTable, IpBanColumns, IpBanCreate, IpBanUpdate,
                    IpBanUpdateOne, IpBanFields),
   LoginFailureEvent |->
     Entity(LoginFailureEventTable, LoginFailureEventColumns,
            LoginFailureEventCreate, LoginFailureEventUpdate,
            LoginFailureEventUpdateOne, LoginFailureEventFields),
   Session |-> Entity(SessionTable, SessionColumns, SessionCreate,
                      SessionUpdate, SessionUpdateOne, SessionFields),
   Share |-> Entity(ShareTable, ShareColumns, ShareCreate, ShareUpdate,
                    ShareUpdateOne, ShareFields)]

=============================================================================
