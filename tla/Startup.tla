------------------------------ MODULE Startup ------------------------------
(***************************************************************************)
(* From the container's entry point to a server that listens.  The entry  *)
(* point starts two processes of the same binary, the server and the      *)
(* gateway launcher; both load the configuration, so both find or create  *)
(* the secret file at the same time (internal/config); the server then    *)
(* makes sure of its admin account (internal/auth).  When either process  *)
(* ends, the entry point ends the other, and the container is restarted.  *)
(*                                                                        *)
(* A file is named by the key drawn into it; nobody but its creator knows *)
(* of a temporary one, so that one left behind by a killed process is     *)
(* forgotten here.  A power loss keeps what was synced and may lose what  *)
(* was not: the bytes of a file, or the name in the directory.            *)
(***************************************************************************)
EXTENDS Naturals, FiniteSets

CONSTANTS
  Server, Gateway,   \* the two processes
  Configs,           \* [user, pw, dev, own]: the environments the operator deploys;
                     \* own: APP_SECRET is set
  Keys,              \* bound on the keys drawn: more than a behaviour needs
  DefaultPassword,   \* "admin-change-me"
  Installed,         \* accounts tables the first start may find
  NoAccount,
  MaxFaults,         \* calls that fail or processes that die, in a behaviour
  MaxLosses,         \* power losses
  MaxDeploys         \* changes of the configuration

ASSUME StartupAssumption ==
  /\ Server # Gateway
  /\ \A c \in Configs : c.dev \in BOOLEAN /\ c.own \in BOOLEAN
  /\ Keys \subseteq Nat \ {0}
  /\ MaxFaults \in Nat /\ MaxLosses \in Nat /\ MaxDeploys \in Nat

VARIABLES
  sup,         \* the entry point and the restart policy behind it
  conf, next,  \* the environment of this container and of the next
  pc,
  key,         \* the key a process has drawn, and its temporary file
  whole,       \* keys whose file holds all 64 digits
  synced,      \* ... and keeps them through a power loss
  name,        \* the key whose file DB_PATH.secret names
  nameSynced,  \* ... after a power loss
  accounts,    \* the admins table: name -> password and format of its hash
  faults, losses, deploys,
  used,        \* history: secrets of the file that a process started with
  torn,        \* history: power was lost between a link and its directory's sync
  miscounted   \* history: the count of the accounts failed

files  == <<whole, synced, name, nameSynced>>
budget == <<faults, losses, deploys>>
vars   == <<sup, conf, next, pc, key, files, accounts, budget, used, torn, miscounted>>

Procs   == {Server, Gateway}
NoKey   == 0
Users   == {c.user : c \in Configs}
Account == [pw : {c.pw : c \in Configs}, format : {"derived", "legacy"}]

ASSUME AccountAssumption ==
  NoAccount \notin Account /\ Installed \subseteq [Users -> Account \cup {NoAccount}]

Labels == {"off", "load", "lstat", "create", "write", "sync", "link", "syncdir", "read",
           "remove", "find", "update", "count", "insert", "listen", "up", "exit"}

Init ==
  /\ sup = "down" /\ conf \in Configs /\ next = conf
  /\ pc = [p \in Procs |-> "off"]
  /\ key = [p \in Procs |-> NoKey]
  /\ whole = {} /\ synced = {} /\ name = NoKey /\ nameSynced = NoKey
  /\ accounts \in Installed
  /\ faults = 0 /\ losses = 0 /\ deploys = 0
  /\ used = {} /\ torn = FALSE /\ miscounted = FALSE

Goto(p, label) == pc' = [pc EXCEPT ![p] = label]

\* A call fails, or a process dies.
Fault == faults < MaxFaults /\ faults' = faults + 1 /\ UNCHANGED <<losses, deploys>>

-----------------------------------------------------------------------------
(* Load and persistentAppSecret *)

AfterSecret(p) == IF p = Server THEN "find" ELSE "up"

\* Production refuses to start without a password of its own; APP_SECRET spares
\* it the file, and development uses a secret nobody keeps.
Load(p) ==
  /\ pc[p] = "load"
  /\ Goto(p, IF ~conf.dev /\ conf.pw = DefaultPassword THEN "exit"
             ELSE IF conf.own \/ conf.dev THEN AfterSecret(p)
             ELSE "lstat")
  /\ key' = [key EXCEPT ![p] = NoKey]
  /\ UNCHANGED <<files, accounts, budget, used, miscounted>>

Lstat(p) ==
  /\ pc[p] = "lstat"
  /\ Goto(p, IF name = NoKey THEN "create" ELSE "read")
  /\ UNCHANGED <<key, files, accounts, budget, used, miscounted>>

\* Keys are random: one that no file, process or history knows.
FreshKeys == Keys \ (used \cup whole \cup {name, nameSynced} \cup {key[p] : p \in Procs})

\* os.CreateTemp and rand.Read.
CreateTemp(p) ==
  /\ pc[p] = "create" /\ FreshKeys # {}
  /\ key' = [key EXCEPT ![p] = CHOOSE k \in FreshKeys : TRUE]
  /\ Goto(p, "write")
  /\ UNCHANGED <<files, accounts, budget, used, miscounted>>

\* A process removes its temporary name, or dies and leaves it to nobody: the
\* file is gone unless it has the other name.
Forget(p) ==
  /\ key' = [key EXCEPT ![p] = NoKey]
  /\ whole' = whole \ ({key[p]} \ {name, nameSynced})
  /\ synced' = synced \cap whole'
  /\ UNCHANGED <<name, nameSynced>>

WriteKey(p) ==
  /\ pc[p] = "write"
  /\ whole' = whole \cup {key[p]} /\ Goto(p, "sync")
  /\ UNCHANGED <<key, synced, name, nameSynced, accounts, budget, used, miscounted>>

\* Mutated form of SyncFile: the file is linked before its bytes are safe.
SyncNothing(p) ==
  /\ pc[p] = "sync" /\ Goto(p, "link")
  /\ UNCHANGED <<key, files, accounts, budget, used, miscounted>>

SyncFile(p) ==
  /\ pc[p] = "sync"
  /\ synced' = synced \cup {key[p]} /\ Goto(p, "link")
  /\ UNCHANGED <<key, whole, name, nameSynced, accounts, budget, used, miscounted>>

\* Mutated form of Link: the name is taken from whoever had it.
Rename(p) ==
  /\ pc[p] = "link"
  /\ name' = key[p] /\ Goto(p, "syncdir")
  /\ UNCHANGED <<key, whole, synced, nameSynced, accounts, budget, used, miscounted>>

\* root.Link: the loser of a race finds the name taken, and takes what is there.
Link(p) ==
  /\ pc[p] = "link"
  /\ name' = (IF name = NoKey THEN key[p] ELSE name) /\ Goto(p, "syncdir")
  /\ UNCHANGED <<key, whole, synced, nameSynced, accounts, budget, used, miscounted>>

SyncDir(p) ==
  /\ pc[p] = "syncdir"
  /\ nameSynced' = name /\ Goto(p, "read")
  /\ UNCHANGED <<key, whole, synced, name, accounts, budget, used, miscounted>>

\* The mode and size checks and ReadFile: a file that is not whole is refused,
\* never replaced.
ReadKey(p) ==
  /\ pc[p] = "read"
  /\ IF name \in whole
       THEN /\ used' = used \cup {name}
            /\ Goto(p, IF key[p] = NoKey THEN AfterSecret(p) ELSE "remove")
            /\ UNCHANGED <<key, files>>
       ELSE Goto(p, "exit") /\ Forget(p) /\ UNCHANGED used
  /\ UNCHANGED <<accounts, budget, miscounted>>

\* The deferred Remove; its error is the function's.
RemoveTemp(p) ==
  /\ pc[p] = "remove"
  /\ Forget(p) /\ Goto(p, AfterSecret(p))
  /\ UNCHANGED <<accounts, budget, used, miscounted>>

LoadStep(p) ==
  \/ Load(p) \/ Lstat(p) \/ CreateTemp(p) \/ WriteKey(p) \/ SyncFile(p)
  \/ Link(p) \/ SyncDir(p) \/ ReadKey(p) \/ RemoveTemp(p)

-----------------------------------------------------------------------------
(* EnsureAdmin and ListenAndServe *)

Mine    == accounts[conf.user]
Current == [pw |-> conf.pw, format |-> "derived"]
Legacy  == [pw |-> conf.pw, format |-> "legacy"]

\* Mutated form of FindAccount: production takes a changed password, too.
FindAndSync(p) ==
  /\ pc[p] = "find"
  /\ Goto(p, IF Mine = NoAccount THEN "count" ELSE IF Mine = Current THEN "listen" ELSE "update")
  /\ UNCHANGED <<key, files, accounts, budget, used, miscounted>>

FindAccount(p) ==
  /\ pc[p] = "find"
  /\ Goto(p, IF Mine = NoAccount THEN "count"
             ELSE IF Mine # Current /\ (conf.dev \/ Mine = Legacy) THEN "update"
             ELSE "listen")
  /\ UNCHANGED <<key, files, accounts, budget, used, miscounted>>

\* Mutated form of UpdatePassword: the derived value is stored as it is.
StorePlain(p) ==
  /\ pc[p] = "update"
  /\ accounts' = [accounts EXCEPT ![conf.user] = [pw |-> conf.pw, format |-> "plain"]]
  /\ Goto(p, "listen") /\ UNCHANGED <<key, files, budget, used, miscounted>>

UpdatePassword(p) ==
  /\ pc[p] = "update"
  /\ accounts' = [accounts EXCEPT ![conf.user] = Current] /\ Goto(p, "listen")
  /\ UNCHANGED <<key, files, budget, used, miscounted>>

\* Mutated form of CountAccounts: production leaves the table empty.
CountNever(p) ==
  /\ pc[p] = "count"
  /\ Goto(p, IF conf.dev THEN "insert" ELSE "listen")
  /\ UNCHANGED <<key, files, accounts, budget, used, miscounted>>

\* The error of the count is dropped: what cannot be counted is none.
CountAccounts(p) ==
  /\ pc[p] = "count"
  /\ \/ /\ Goto(p, IF conf.dev \/ \A u \in Users : accounts[u] = NoAccount THEN "insert" ELSE "listen")
        /\ UNCHANGED <<budget, miscounted>>
     \/ Fault /\ Goto(p, "insert") /\ miscounted' = TRUE
  /\ UNCHANGED <<key, files, accounts, used>>

InsertAccount(p) ==
  /\ pc[p] = "insert"
  /\ accounts' = [accounts EXCEPT ![conf.user] = Current] /\ Goto(p, "listen")
  /\ UNCHANGED <<key, files, budget, used, miscounted>>

\* StartCleanup (its steps are Integrity's) and ListenAndServe.
Listen(p) ==
  /\ pc[p] = "listen" /\ Goto(p, "up")
  /\ UNCHANGED <<key, files, accounts, budget, used, miscounted>>

AdminStep(p) ==
  FindAccount(p) \/ UpdatePassword(p) \/ CountAccounts(p) \/ InsertAccount(p) \/ Listen(p)

-----------------------------------------------------------------------------
(* entrypoint.sh and the container's restart policy *)

Running(p) == pc[p] \notin {"off", "exit"}

Boot ==
  /\ sup = "down"
  /\ sup' = "run" /\ conf' = next /\ pc' = [p \in Procs |-> "load"]
  /\ UNCHANGED <<next, key, files, accounts, budget, used, torn, miscounted>>

\* wait -n returns, and the EXIT trap sends TERM to both.
ChildEnded ==
  /\ sup = "run" /\ \E p \in Procs : ~Running(p)
  /\ sup' = "stopping"
  /\ UNCHANGED <<conf, next, pc, key, files, accounts, budget, used, torn, miscounted>>

\* The operator redeploys: docker sends TERM to the entry point.
Redeploy(c) ==
  /\ sup = "run" /\ deploys < MaxDeploys /\ c # conf
  /\ sup' = "stopping" /\ next' = c /\ deploys' = deploys + 1
  /\ UNCHANGED <<conf, pc, key, files, accounts, faults, losses, used, torn, miscounted>>

\* The signal reaches a process: none of its deferred calls run.
Terminated(p) ==
  /\ sup = "stopping" /\ Running(p)
  /\ Goto(p, "off") /\ Forget(p)
  /\ UNCHANGED <<sup, conf, next, accounts, budget, used, torn, miscounted>>

Stopped ==
  /\ sup = "stopping" /\ \A p \in Procs : ~Running(p)
  /\ sup' = "down" /\ pc' = [p \in Procs |-> "off"]
  /\ UNCHANGED <<conf, next, key, files, accounts, budget, used, torn, miscounted>>

Supervise == Boot \/ ChildEnded \/ Stopped \/ \E p \in Procs : Terminated(p)

\* A call of the operating system or of the database fails, and the error ends
\* the process (log.Fatal); or the process is killed.
Crash(p) ==
  /\ Running(p) /\ Fault /\ Goto(p, "exit") /\ Forget(p)
  /\ UNCHANGED <<sup, conf, next, accounts, used, torn, miscounted>>

PowerLoss ==
  /\ losses < MaxLosses /\ losses' = losses + 1
  /\ name' \in {name, nameSynced} /\ nameSynced' = name'
  /\ whole' \in {whole \cap {name'}, synced \cap {name'}}
  /\ synced' = whole' /\ key' = [p \in Procs |-> NoKey]
  /\ torn' = (torn \/ name # nameSynced)
  /\ pc' = [p \in Procs |-> "off"] /\ sup' = "down"
  /\ UNCHANGED <<conf, next, accounts, faults, deploys, used, miscounted>>

-----------------------------------------------------------------------------

ProcStep(p) ==
  /\ LoadStep(p) \/ AdminStep(p)
  /\ UNCHANGED <<sup, conf, next, torn>>

Next ==
  \/ \E p \in Procs : ProcStep(p) \/ Crash(p)
  \/ Supervise \/ PowerLoss
  \/ \E c \in Configs : Redeploy(c)

\* The kernel runs every process, the shell waits for its children, and docker
\* restarts what stopped: restart: unless-stopped.
Fairness == WF_vars(Supervise) /\ \A p \in Procs : WF_vars(ProcStep(p))

Spec == Init /\ [][Next]_vars /\ Fairness

-----------------------------------------------------------------------------
(* Properties *)

\* Every variable has its type: a process holds a key it drew, and an account
\* what bcrypt made of a derived or of a plain password.
TypeOK ==
  /\ sup \in {"down", "run", "stopping"} /\ {conf, next} \subseteq Configs
  /\ pc \in [Procs -> Labels] /\ key \in [Procs -> Keys \cup {NoKey}]
  /\ synced \subseteq whole /\ whole \subseteq Keys
  /\ {name, nameSynced} \subseteq Keys \cup {NoKey} /\ used \subseteq Keys
  /\ accounts \in [Users -> Account \cup {NoAccount}]
  /\ faults \in 0..MaxFaults /\ losses \in 0..MaxLosses /\ deploys \in 0..MaxDeploys
  /\ torn \in BOOLEAN /\ miscounted \in BOOLEAN

\* The server and the gateway, this start and every later one, use one secret,
\* whichever of the two processes created the file, and whatever died or lost
\* power meanwhile: cookies and private-key hashes stay valid.  (The one
\* exception is power lost in between a link and the sync of its directory: the
\* other process may have read the file already.)
OneSecret == ~torn => Cardinality(used) <= 1

\* In production no start takes an account away, changes the password one
\* accepts, or puts another beside those there are - unless the query that
\* counts them failed, which EnsureAdmin does not notice.
AccountsKept ==
  [][~conf.dev =>
       \A u \in Users :
         IF accounts[u] # NoAccount
           THEN accounts'[u] # NoAccount /\ accounts'[u].pw = accounts[u].pw
           ELSE accounts'[u] # NoAccount =>
                  miscounted \/ \A v \in Users : accounts[v] = NoAccount]_vars

\* An account logins can be made to: they compare derived passwords only.
Usable(u) == accounts[u] # NoAccount /\ accounts[u].format = "derived"

\* An account of an older release that is not configured as it was: EnsureAdmin
\* sees the other name or the other password and leaves it as it is
\* (auth.go:101-104, 114-116), though no login will ever succeed.
LeftBehind(u) ==
  accounts[u] # NoAccount /\ accounts[u].format = "legacy"
  /\ (u = conf.user => accounts[u].pw # conf.pw)

\* A server that listens has an account somebody can log in to - in development
\* the configured one with the configured password - unless, in production, all
\* it has are accounts of an older release under another name or password; the
\* configured one is never left in the old format.
AdminsReady ==
  pc[Server] = "up" =>
    /\ conf.dev => Mine = Current
    /\ \/ \E u \in Users : Usable(u)
       \/ /\ \E u \in Users : LeftBehind(u)
          /\ \A u \in Users : accounts[u] = NoAccount \/ LeftBehind(u)
    /\ Mine # Legacy

Valid(c) == c.dev \/ c.pw # DefaultPassword

\* Whatever failed, died or lost power, and whenever: as long as the
\* configuration is one that may run, both processes are up in the end and stay
\* up.  No crash leaves a secret file behind that every later start refuses.
ComesUp == <>[](Valid(conf) /\ Valid(next)) => <>[](\A p \in Procs : pc[p] = "up")

=============================================================================
