---------------------------- MODULE StartupProofs ----------------------------
(***************************************************************************)
(* The secret and the accounts, for any configurations, any number of     *)
(* keys, faults, power losses and deployments.                            *)
(***************************************************************************)
EXTENDS Startup, FiniteSetTheorems, TLAPS

\* A process that has drawn a key is the only one that has, and a key that may
\* be linked is on the disk for good.
KeysApart ==
  /\ \A p \in Procs : pc[p] \in {"write", "sync", "link"} => key[p] # NoKey
  /\ \A p, q \in Procs : p # q /\ key[p] = key[q] => key[p] = NoKey
  /\ \A p \in Procs : pc[p] \in {"sync"} => key[p] \in whole
  /\ \A p \in Procs : pc[p] = "link" => key[p] \in synced

\* What the name stands for survives whatever comes: a file that is whole, and
\* was before it had the name.
SecretSafe == \A k \in {name, nameSynced} : k # NoKey => k \in synced

\* Until power is lost at the wrong moment nobody used a key but the one that
\* has the name.
OnlyTheNamed == ~torn => used \subseteq {name}

\* Only the server looks at the accounts; what it found is still so when it
\* acts on it, because nobody else does.
AdminLabels == {"find", "update", "count", "insert", "listen"}
AccountsSeen ==
  /\ pc[Gateway] \notin AdminLabels
  /\ pc[Server] = "update" /\ ~conf.dev => Mine = Legacy
  /\ pc[Server] = "update" => Mine # NoAccount
  /\ pc[Server] \in {"count", "insert"} => Mine = NoAccount
  /\ pc[Server] = "insert" /\ ~conf.dev => miscounted \/ \A u \in Users : accounts[u] = NoAccount
  /\ pc[Server] \in {"listen", "up"} =>
       /\ \E u \in Users : accounts[u] # NoAccount
       /\ conf.dev => Mine = Current
       /\ Mine # Legacy

StartupInv == TypeOK /\ KeysApart /\ SecretSafe /\ OnlyTheNamed /\ AccountsSeen

-----------------------------------------------------------------------------
(* Types *)

\* The labels the actions use are among those declared.
LEMMA Vocabulary ==
  \A l \in {"off", "load", "lstat", "create", "write", "sync", "link", "syncdir", "read",
            "remove", "find", "update", "count", "insert", "listen", "up", "exit"} : l \in Labels
BY DEF Labels

\* An account in either format is one, and it has the configured password.
LEMMA Accounts ==
  ASSUME conf \in Configs
  PROVE  /\ conf.user \in Users /\ Current \in Account /\ Legacy \in Account /\ Current # Legacy
         /\ Current # NoAccount /\ Legacy # NoAccount /\ Current.pw = conf.pw /\ Legacy.pw = conf.pw
BY AccountAssumption DEF Users, Account, Current, Legacy

\* The invariant holds at the start.
LEMMA InitStartup == Init => StartupInv
<1> SUFFICES ASSUME Init PROVE StartupInv
  OBVIOUS
<1>1. TypeOK
  <2>1. accounts \in [Users -> Account \cup {NoAccount}]
    BY AccountAssumption DEF Init
  <2>2. pc \in [Procs -> Labels] /\ key \in [Procs -> Keys \cup {NoKey}]
    BY Vocabulary DEF Init
  <2>3. faults \in 0..MaxFaults /\ losses \in 0..MaxLosses /\ deploys \in 0..MaxDeploys
    BY StartupAssumption DEF Init
  <2> QED
    BY <2>1, <2>2, <2>3 DEF Init, TypeOK
<1>2. KeysApart /\ SecretSafe /\ OnlyTheNamed
  BY DEF Init, KeysApart, SecretSafe, OnlyTheNamed
<1>3. AccountsSeen
  BY DEF Init, AccountsSeen, AdminLabels, Procs
<1> QED
  BY <1>1, <1>2, <1>3 DEF StartupInv

\* Every step keeps the domains.
LEMMA TypesKept == ASSUME TypeOK, KeysApart, [Next]_vars PROVE TypeOK'
<1>0. /\ \A p \in Procs, l \in Labels : Goto(p, l) => pc' \in [Procs -> Labels]
      /\ \A p \in Procs : Forget(p) => /\ key' \in [Procs -> Keys \cup {NoKey}]
                                       /\ synced' \subseteq whole' /\ whole' \subseteq Keys
                                       /\ UNCHANGED <<name, nameSynced>>
      /\ Fault => faults' \in 0..MaxFaults /\ UNCHANGED <<losses, deploys>>
      /\ \A k \in Keys \cup {NoKey}, p \in Procs : [key EXCEPT ![p] = k] \in [Procs -> Keys \cup {NoKey}]
  <2>1. \A p \in Procs, l \in Labels : Goto(p, l) => pc' \in [Procs -> Labels]
    BY DEF TypeOK, Goto
  <2>2. \A k \in Keys \cup {NoKey}, p \in Procs : [key EXCEPT ![p] = k] \in [Procs -> Keys \cup {NoKey}]
    BY DEF TypeOK
  <2>3. \A p \in Procs : Forget(p) => /\ key' \in [Procs -> Keys \cup {NoKey}]
                                      /\ synced' \subseteq whole' /\ whole' \subseteq Keys
                                      /\ UNCHANGED <<name, nameSynced>>
    BY <2>2 DEF TypeOK, Forget
  <2>4. Fault => faults' \in 0..MaxFaults /\ UNCHANGED <<losses, deploys>>
    BY StartupAssumption DEF TypeOK, Fault
  <2> QED
    BY <2>1, <2>2, <2>3, <2>4
<1>a. Current \in Account /\ conf.user \in Users /\ (FreshKeys # {} => (CHOOSE k \in FreshKeys : TRUE) \in Keys)
  BY Accounts DEF TypeOK, FreshKeys
<1> USE <1>0, <1>a, Vocabulary, StartupAssumption DEF TypeOK, files, budget
<1>1. ASSUME NEW p \in Procs, Load(p), UNCHANGED <<sup, conf, next, torn>> PROVE TypeOK'
  BY <1>1 DEF Load, AfterSecret
<1>2. ASSUME NEW p \in Procs, Lstat(p), UNCHANGED <<sup, conf, next, torn>> PROVE TypeOK'
  BY <1>2 DEF Lstat
<1>3. ASSUME NEW p \in Procs, CreateTemp(p), UNCHANGED <<sup, conf, next, torn>> PROVE TypeOK'
  BY <1>3 DEF CreateTemp
<1>4. ASSUME NEW p \in Procs, WriteKey(p), UNCHANGED <<sup, conf, next, torn>> PROVE TypeOK'
  <2>1. key[p] \in Keys
    BY <1>4 DEF WriteKey, KeysApart
  <2> QED
    BY <1>4, <2>1 DEF WriteKey
<1>5. ASSUME NEW p \in Procs, SyncFile(p), UNCHANGED <<sup, conf, next, torn>> PROVE TypeOK'
  <2>1. key[p] \in whole
    BY <1>5 DEF SyncFile, KeysApart
  <2> QED
    BY <1>5, <2>1 DEF SyncFile
<1>6. ASSUME NEW p \in Procs, Link(p), UNCHANGED <<sup, conf, next, torn>> PROVE TypeOK'
  BY <1>6 DEF Link
<1>7. ASSUME NEW p \in Procs, SyncDir(p), UNCHANGED <<sup, conf, next, torn>> PROVE TypeOK'
  BY <1>7 DEF SyncDir
<1>8. ASSUME NEW p \in Procs, ReadKey(p), UNCHANGED <<sup, conf, next, torn>> PROVE TypeOK'
  <2>1. pc' \in [Procs -> Labels]
    BY <1>8 DEF ReadKey, AfterSecret
  <2>2. used' \subseteq Keys /\ synced' \subseteq whole' /\ whole' \subseteq Keys /\ UNCHANGED <<name, nameSynced>>
    <3>1. CASE name \in whole
      <4>1. used' = used \cup {name} /\ UNCHANGED files
        BY <1>8, <3>1 DEF ReadKey
      <4> QED
        BY <3>1, <4>1
    <3>2. CASE name \notin whole
      <4>1. used' = used /\ Forget(p)
        BY <1>8, <3>2 DEF ReadKey
      <4> QED
        BY <4>1
    <3> QED
      BY <3>1, <3>2
  <2>3. key' \in [Procs -> Keys \cup {NoKey}]
    BY <1>8 DEF ReadKey
  <2> QED
    BY <1>8, <2>1, <2>2, <2>3 DEF ReadKey
<1>9. ASSUME NEW p \in Procs, RemoveTemp(p), UNCHANGED <<sup, conf, next, torn>> PROVE TypeOK'
  <2>1. pc' \in [Procs -> Labels]
    BY <1>9 DEF RemoveTemp, AfterSecret
  <2> QED
    BY <1>9, <2>1 DEF RemoveTemp
<1>10. ASSUME NEW p \in Procs, FindAccount(p), UNCHANGED <<sup, conf, next, torn>> PROVE TypeOK'
  BY <1>10 DEF FindAccount
<1>11. ASSUME NEW p \in Procs, UpdatePassword(p), UNCHANGED <<sup, conf, next, torn>> PROVE TypeOK'
  BY <1>11 DEF UpdatePassword
<1>12. ASSUME NEW p \in Procs, CountAccounts(p), UNCHANGED <<sup, conf, next, torn>> PROVE TypeOK'
  BY <1>12 DEF CountAccounts
<1>13. ASSUME NEW p \in Procs, InsertAccount(p), UNCHANGED <<sup, conf, next, torn>> PROVE TypeOK'
  BY <1>13 DEF InsertAccount
<1>14. ASSUME NEW p \in Procs, Listen(p), UNCHANGED <<sup, conf, next, torn>> PROVE TypeOK'
  BY <1>14 DEF Listen
<1>15. ASSUME NEW p \in Procs, Crash(p) PROVE TypeOK'
  BY <1>15 DEF Crash
<1>16. ASSUME Boot PROVE TypeOK'
  BY <1>16 DEF Boot
<1>17. ASSUME ChildEnded PROVE TypeOK'
  BY <1>17 DEF ChildEnded
<1>18. ASSUME Stopped PROVE TypeOK'
  BY <1>18 DEF Stopped
<1>19. ASSUME NEW p \in Procs, Terminated(p) PROVE TypeOK'
  BY <1>19 DEF Terminated
<1>20. ASSUME PowerLoss PROVE TypeOK'
  BY <1>20 DEF PowerLoss
<1>21. ASSUME NEW c \in Configs, Redeploy(c) PROVE TypeOK'
  BY <1>21 DEF Redeploy
<1>22. CASE UNCHANGED vars
  BY <1>22 DEF vars
<1> QED
  BY <1>1, <1>2, <1>3, <1>4, <1>5, <1>6, <1>7, <1>8, <1>9, <1>10, <1>11, <1>12, <1>13, <1>14, <1>15,
     <1>16, <1>17, <1>18, <1>19, <1>20, <1>21, <1>22
  DEF Next, ProcStep, LoadStep, AdminStep, Supervise

-----------------------------------------------------------------------------
(* The secret *)

\* Nobody but a process itself moves it or its key, except that everything
\* stops at once.
LEMMA KeysStayApart == ASSUME TypeOK, KeysApart, [Next]_vars PROVE KeysApart'
<1>0. /\ pc \in [Procs -> Labels] /\ key \in [Procs -> Keys \cup {NoKey}] /\ NoKey \notin Keys
      /\ NoKey \notin whole /\ whole \subseteq Keys /\ synced \subseteq whole
  BY StartupAssumption DEF TypeOK, NoKey
<1>a. FreshKeys # {} => /\ (CHOOSE k \in FreshKeys : TRUE) \in Keys
                        /\ \A q \in Procs : key[q] # (CHOOSE k \in FreshKeys : TRUE)
  BY DEF FreshKeys
<1> USE <1>0, <1>a DEF KeysApart, Goto, Forget, Fault, files, budget, AfterSecret
<1>1. ASSUME NEW p \in Procs, Load(p), UNCHANGED <<sup, conf, next, torn>> PROVE KeysApart'
  BY <1>1 DEF Load
<1>2. ASSUME NEW p \in Procs, Lstat(p), UNCHANGED <<sup, conf, next, torn>> PROVE KeysApart'
  BY <1>2 DEF Lstat
<1>3. ASSUME NEW p \in Procs, CreateTemp(p), UNCHANGED <<sup, conf, next, torn>> PROVE KeysApart'
  BY <1>3 DEF CreateTemp
<1>4. ASSUME NEW p \in Procs, WriteKey(p), UNCHANGED <<sup, conf, next, torn>> PROVE KeysApart'
  BY <1>4 DEF WriteKey
<1>5. ASSUME NEW p \in Procs, SyncFile(p), UNCHANGED <<sup, conf, next, torn>> PROVE KeysApart'
  BY <1>5 DEF SyncFile
<1>6. ASSUME NEW p \in Procs, Link(p), UNCHANGED <<sup, conf, next, torn>> PROVE KeysApart'
  BY <1>6 DEF Link
<1>7. ASSUME NEW p \in Procs, SyncDir(p), UNCHANGED <<sup, conf, next, torn>> PROVE KeysApart'
  BY <1>7 DEF SyncDir
<1>8. ASSUME NEW p \in Procs, ReadKey(p), UNCHANGED <<sup, conf, next, torn>> PROVE KeysApart'
  BY <1>8 DEF ReadKey
<1>9. ASSUME NEW p \in Procs, RemoveTemp(p), UNCHANGED <<sup, conf, next, torn>> PROVE KeysApart'
  BY <1>9 DEF RemoveTemp
<1>10. ASSUME NEW p \in Procs, FindAccount(p), UNCHANGED <<sup, conf, next, torn>> PROVE KeysApart'
  BY <1>10 DEF FindAccount
<1>11. ASSUME NEW p \in Procs, UpdatePassword(p), UNCHANGED <<sup, conf, next, torn>> PROVE KeysApart'
  BY <1>11 DEF UpdatePassword
<1>12. ASSUME NEW p \in Procs, CountAccounts(p), UNCHANGED <<sup, conf, next, torn>> PROVE KeysApart'
  BY <1>12 DEF CountAccounts
<1>13. ASSUME NEW p \in Procs, InsertAccount(p), UNCHANGED <<sup, conf, next, torn>> PROVE KeysApart'
  BY <1>13 DEF InsertAccount
<1>14. ASSUME NEW p \in Procs, Listen(p), UNCHANGED <<sup, conf, next, torn>> PROVE KeysApart'
  BY <1>14 DEF Listen
<1>15. ASSUME NEW p \in Procs, Crash(p) PROVE KeysApart'
  BY <1>15 DEF Crash
<1>16. ASSUME Boot PROVE KeysApart'
  BY <1>16 DEF Boot
<1>17. ASSUME ChildEnded PROVE KeysApart'
  BY <1>17 DEF ChildEnded
<1>18. ASSUME Stopped PROVE KeysApart'
  BY <1>18 DEF Stopped
<1>19. ASSUME NEW p \in Procs, Terminated(p) PROVE KeysApart'
  BY <1>19 DEF Terminated
<1>20. ASSUME PowerLoss PROVE KeysApart'
  BY <1>20 DEF PowerLoss
<1>21. ASSUME NEW c \in Configs, Redeploy(c) PROVE KeysApart'
  BY <1>21 DEF Redeploy
<1>22. CASE UNCHANGED vars
  BY <1>22 DEF vars
<1> QED
  BY <1>1, <1>2, <1>3, <1>4, <1>5, <1>6, <1>7, <1>8, <1>9, <1>10, <1>11, <1>12, <1>13, <1>14, <1>15,
     <1>16, <1>17, <1>18, <1>19, <1>20, <1>21, <1>22
  DEF Next, ProcStep, LoadStep, AdminStep, Supervise

\* Every step keeps the secret in one piece and in use by all alike.
LEMMA SecretStaysSafe == ASSUME TypeOK, KeysApart, SecretSafe, [Next]_vars PROVE SecretSafe'
<1>0. synced \subseteq whole /\ pc \in [Procs -> Labels]
  BY DEF TypeOK
<1> USE <1>0 DEF KeysApart, SecretSafe, Goto, Forget, Fault, files, budget
<1>1. ASSUME NEW p \in Procs, Load(p), UNCHANGED <<sup, conf, next, torn>> PROVE SecretSafe'
  BY <1>1 DEF Load
<1>2. ASSUME NEW p \in Procs, Lstat(p), UNCHANGED <<sup, conf, next, torn>> PROVE SecretSafe'
  BY <1>2 DEF Lstat
<1>3. ASSUME NEW p \in Procs, CreateTemp(p), UNCHANGED <<sup, conf, next, torn>> PROVE SecretSafe'
  BY <1>3 DEF CreateTemp
<1>4. ASSUME NEW p \in Procs, WriteKey(p), UNCHANGED <<sup, conf, next, torn>> PROVE SecretSafe'
  BY <1>4 DEF WriteKey
<1>5. ASSUME NEW p \in Procs, SyncFile(p), UNCHANGED <<sup, conf, next, torn>> PROVE SecretSafe'
  BY <1>5 DEF SyncFile
<1>6. ASSUME NEW p \in Procs, Link(p), UNCHANGED <<sup, conf, next, torn>> PROVE SecretSafe'
  BY <1>6 DEF Link
<1>7. ASSUME NEW p \in Procs, SyncDir(p), UNCHANGED <<sup, conf, next, torn>> PROVE SecretSafe'
  BY <1>7 DEF SyncDir
<1>8. ASSUME NEW p \in Procs, ReadKey(p), UNCHANGED <<sup, conf, next, torn>> PROVE SecretSafe'
  BY <1>8 DEF ReadKey
<1>9. ASSUME NEW p \in Procs, RemoveTemp(p), UNCHANGED <<sup, conf, next, torn>> PROVE SecretSafe'
  BY <1>9 DEF RemoveTemp
<1>10. ASSUME NEW p \in Procs, FindAccount(p), UNCHANGED <<sup, conf, next, torn>> PROVE SecretSafe'
  BY <1>10 DEF FindAccount
<1>11. ASSUME NEW p \in Procs, UpdatePassword(p), UNCHANGED <<sup, conf, next, torn>> PROVE SecretSafe'
  BY <1>11 DEF UpdatePassword
<1>12. ASSUME NEW p \in Procs, CountAccounts(p), UNCHANGED <<sup, conf, next, torn>> PROVE SecretSafe'
  BY <1>12 DEF CountAccounts
<1>13. ASSUME NEW p \in Procs, InsertAccount(p), UNCHANGED <<sup, conf, next, torn>> PROVE SecretSafe'
  BY <1>13 DEF InsertAccount
<1>14. ASSUME NEW p \in Procs, Listen(p), UNCHANGED <<sup, conf, next, torn>> PROVE SecretSafe'
  BY <1>14 DEF Listen
<1>15. ASSUME NEW p \in Procs, Crash(p) PROVE SecretSafe'
  BY <1>15 DEF Crash
<1>16. ASSUME Boot PROVE SecretSafe'
  BY <1>16 DEF Boot
<1>17. ASSUME ChildEnded PROVE SecretSafe'
  BY <1>17 DEF ChildEnded
<1>18. ASSUME Stopped PROVE SecretSafe'
  BY <1>18 DEF Stopped
<1>19. ASSUME NEW p \in Procs, Terminated(p) PROVE SecretSafe'
  BY <1>19 DEF Terminated
<1>20. ASSUME PowerLoss PROVE SecretSafe'
  BY <1>20 DEF PowerLoss
<1>21. ASSUME NEW c \in Configs, Redeploy(c) PROVE SecretSafe'
  BY <1>21 DEF Redeploy
<1>22. CASE UNCHANGED vars
  BY <1>22 DEF vars
<1> QED
  BY <1>1, <1>2, <1>3, <1>4, <1>5, <1>6, <1>7, <1>8, <1>9, <1>10, <1>11, <1>12, <1>13, <1>14, <1>15,
     <1>16, <1>17, <1>18, <1>19, <1>20, <1>21, <1>22
  DEF Next, ProcStep, LoadStep, AdminStep, Supervise

\* Every step keeps it so that only the key the file is named by is in use.
LEMMA OnlyOneNamed == ASSUME TypeOK, OnlyTheNamed, [Next]_vars PROVE OnlyTheNamed'
<1>0. used \subseteq Keys /\ NoKey \notin Keys
  BY StartupAssumption DEF TypeOK, NoKey
<1> USE <1>0 DEF OnlyTheNamed, Forget, files
<1>1. ASSUME NEW p \in Procs, Load(p), UNCHANGED <<sup, conf, next, torn>> PROVE OnlyTheNamed'
  BY <1>1 DEF Load
<1>2. ASSUME NEW p \in Procs, Lstat(p), UNCHANGED <<sup, conf, next, torn>> PROVE OnlyTheNamed'
  BY <1>2 DEF Lstat
<1>3. ASSUME NEW p \in Procs, CreateTemp(p), UNCHANGED <<sup, conf, next, torn>> PROVE OnlyTheNamed'
  BY <1>3 DEF CreateTemp
<1>4. ASSUME NEW p \in Procs, WriteKey(p), UNCHANGED <<sup, conf, next, torn>> PROVE OnlyTheNamed'
  BY <1>4 DEF WriteKey
<1>5. ASSUME NEW p \in Procs, SyncFile(p), UNCHANGED <<sup, conf, next, torn>> PROVE OnlyTheNamed'
  BY <1>5 DEF SyncFile
<1>6. ASSUME NEW p \in Procs, Link(p), UNCHANGED <<sup, conf, next, torn>> PROVE OnlyTheNamed'
  BY <1>6 DEF Link
<1>7. ASSUME NEW p \in Procs, SyncDir(p), UNCHANGED <<sup, conf, next, torn>> PROVE OnlyTheNamed'
  BY <1>7 DEF SyncDir
<1>8. ASSUME NEW p \in Procs, ReadKey(p), UNCHANGED <<sup, conf, next, torn>> PROVE OnlyTheNamed'
  BY <1>8 DEF ReadKey
<1>9. ASSUME NEW p \in Procs, RemoveTemp(p), UNCHANGED <<sup, conf, next, torn>> PROVE OnlyTheNamed'
  BY <1>9 DEF RemoveTemp
<1>10. ASSUME NEW p \in Procs, FindAccount(p), UNCHANGED <<sup, conf, next, torn>> PROVE OnlyTheNamed'
  BY <1>10 DEF FindAccount
<1>11. ASSUME NEW p \in Procs, UpdatePassword(p), UNCHANGED <<sup, conf, next, torn>> PROVE OnlyTheNamed'
  BY <1>11 DEF UpdatePassword
<1>12. ASSUME NEW p \in Procs, CountAccounts(p), UNCHANGED <<sup, conf, next, torn>> PROVE OnlyTheNamed'
  BY <1>12 DEF CountAccounts
<1>13. ASSUME NEW p \in Procs, InsertAccount(p), UNCHANGED <<sup, conf, next, torn>> PROVE OnlyTheNamed'
  BY <1>13 DEF InsertAccount
<1>14. ASSUME NEW p \in Procs, Listen(p), UNCHANGED <<sup, conf, next, torn>> PROVE OnlyTheNamed'
  BY <1>14 DEF Listen
<1>15. ASSUME NEW p \in Procs, Crash(p) PROVE OnlyTheNamed'
  BY <1>15 DEF Crash
<1>16. ASSUME Boot PROVE OnlyTheNamed'
  BY <1>16 DEF Boot
<1>17. ASSUME ChildEnded PROVE OnlyTheNamed'
  BY <1>17 DEF ChildEnded
<1>18. ASSUME Stopped PROVE OnlyTheNamed'
  BY <1>18 DEF Stopped
<1>19. ASSUME NEW p \in Procs, Terminated(p) PROVE OnlyTheNamed'
  BY <1>19 DEF Terminated
<1>20. ASSUME PowerLoss PROVE OnlyTheNamed'
  BY <1>20 DEF PowerLoss
<1>21. ASSUME NEW c \in Configs, Redeploy(c) PROVE OnlyTheNamed'
  BY <1>21 DEF Redeploy
<1>22. CASE UNCHANGED vars
  BY <1>22 DEF vars
<1> QED
  BY <1>1, <1>2, <1>3, <1>4, <1>5, <1>6, <1>7, <1>8, <1>9, <1>10, <1>11, <1>12, <1>13, <1>14, <1>15,
     <1>16, <1>17, <1>18, <1>19, <1>20, <1>21, <1>22
  DEF Next, ProcStep, LoadStep, AdminStep, Supervise

-----------------------------------------------------------------------------
(* The accounts *)

\* What the server found of the accounts stays true while it acts on it.
LEMMA AccountsStaySeen == ASSUME TypeOK, AccountsSeen, [Next]_vars PROVE AccountsSeen'
<1>0. /\ pc \in [Procs -> Labels] /\ accounts \in [Users -> Account \cup {NoAccount}]
      /\ Server \in Procs /\ Gateway \in Procs /\ Server # Gateway
      /\ \A p \in Procs : p = Server \/ p = Gateway
      /\ conf.user \in Users /\ Current \in Account /\ Current # Legacy /\ Current # NoAccount /\ Legacy # NoAccount
  BY StartupAssumption, Accounts DEF TypeOK, Procs
<1> USE <1>0 DEF AccountsSeen, AdminLabels, Goto, Fault, budget, AfterSecret, Mine, Current, Legacy
<1>1. ASSUME NEW p \in Procs, Load(p), UNCHANGED <<sup, conf, next, torn>> PROVE AccountsSeen'
  BY <1>1 DEF Load
<1>2. ASSUME NEW p \in Procs, Lstat(p), UNCHANGED <<sup, conf, next, torn>> PROVE AccountsSeen'
  BY <1>2 DEF Lstat
<1>3. ASSUME NEW p \in Procs, CreateTemp(p), UNCHANGED <<sup, conf, next, torn>> PROVE AccountsSeen'
  BY <1>3 DEF CreateTemp
<1>4. ASSUME NEW p \in Procs, WriteKey(p), UNCHANGED <<sup, conf, next, torn>> PROVE AccountsSeen'
  BY <1>4 DEF WriteKey
<1>5. ASSUME NEW p \in Procs, SyncFile(p), UNCHANGED <<sup, conf, next, torn>> PROVE AccountsSeen'
  BY <1>5 DEF SyncFile
<1>6. ASSUME NEW p \in Procs, Link(p), UNCHANGED <<sup, conf, next, torn>> PROVE AccountsSeen'
  BY <1>6 DEF Link
<1>7. ASSUME NEW p \in Procs, SyncDir(p), UNCHANGED <<sup, conf, next, torn>> PROVE AccountsSeen'
  BY <1>7 DEF SyncDir
<1>8. ASSUME NEW p \in Procs, ReadKey(p), UNCHANGED <<sup, conf, next, torn>> PROVE AccountsSeen'
  BY <1>8 DEF ReadKey
<1>9. ASSUME NEW p \in Procs, RemoveTemp(p), UNCHANGED <<sup, conf, next, torn>> PROVE AccountsSeen'
  BY <1>9 DEF RemoveTemp
<1>10. ASSUME NEW p \in Procs, FindAccount(p), UNCHANGED <<sup, conf, next, torn>> PROVE AccountsSeen'
  BY <1>10 DEF FindAccount
<1>11. ASSUME NEW p \in Procs, UpdatePassword(p), UNCHANGED <<sup, conf, next, torn>> PROVE AccountsSeen'
  BY <1>11 DEF UpdatePassword
<1>12. ASSUME NEW p \in Procs, CountAccounts(p), UNCHANGED <<sup, conf, next, torn>> PROVE AccountsSeen'
  BY <1>12 DEF CountAccounts
<1>13. ASSUME NEW p \in Procs, InsertAccount(p), UNCHANGED <<sup, conf, next, torn>> PROVE AccountsSeen'
  BY <1>13 DEF InsertAccount
<1>14. ASSUME NEW p \in Procs, Listen(p), UNCHANGED <<sup, conf, next, torn>> PROVE AccountsSeen'
  BY <1>14 DEF Listen
<1>15. ASSUME NEW p \in Procs, Crash(p) PROVE AccountsSeen'
  BY <1>15 DEF Crash
<1>16. ASSUME Boot PROVE AccountsSeen'
  BY <1>16 DEF Boot
<1>17. ASSUME ChildEnded PROVE AccountsSeen'
  BY <1>17 DEF ChildEnded
<1>18. ASSUME Stopped PROVE AccountsSeen'
  BY <1>18 DEF Stopped
<1>19. ASSUME NEW p \in Procs, Terminated(p) PROVE AccountsSeen'
  BY <1>19 DEF Terminated
<1>20. ASSUME PowerLoss PROVE AccountsSeen'
  BY <1>20 DEF PowerLoss
<1>21. ASSUME NEW c \in Configs, Redeploy(c) PROVE AccountsSeen'
  BY <1>21 DEF Redeploy
<1>22. CASE UNCHANGED vars
  BY <1>22 DEF vars
<1> QED
  BY <1>1, <1>2, <1>3, <1>4, <1>5, <1>6, <1>7, <1>8, <1>9, <1>10, <1>11, <1>12, <1>13, <1>14, <1>15,
     <1>16, <1>17, <1>18, <1>19, <1>20, <1>21, <1>22
  DEF Next, ProcStep, LoadStep, AdminStep, Supervise

\* Every step keeps the whole invariant.
LEMMA StartupKept == ASSUME StartupInv, [Next]_vars PROVE StartupInv'
BY TypesKept, KeysStayApart, SecretStaysSafe, OnlyOneNamed, AccountsStaySeen DEF StartupInv

\* The invariant holds in every reachable state.
LEMMA StartupInvariant == Spec => []StartupInv
<1>1. StartupInv /\ [Next]_vars => StartupInv'
  BY StartupKept
<1> QED
  BY InitStartup, <1>1, PTL DEF Spec

-----------------------------------------------------------------------------
(* The theorems *)

\* Every variable keeps its type.
THEOREM StartupTypes == Spec => []TypeOK
<1>1. StartupInv => TypeOK
  BY DEF StartupInv
<1> QED
  BY StartupInvariant, <1>1, PTL

\* The server and the gateway use one secret, in this start and in every later
\* one, whatever died or failed - and unless power was lost between a link and
\* the sync of its directory, whatever power losses there were
\* (config.go, persistentAppSecret).
THEOREM OneSecretUsed == Spec => []OneSecret
<1>1. StartupInv => OneSecret
  <2> SUFFICES ASSUME StartupInv, ~torn PROVE Cardinality(used) <= 1
    BY DEF OneSecret
  <2>1. used \subseteq {name}
    BY DEF StartupInv, OnlyTheNamed
  <2>2. used = {} \/ used = {name}
    BY <2>1
  <2>3. Cardinality({}) = 0 /\ Cardinality({name}) = 1
    BY FS_EmptySet, FS_Singleton
  <2> QED
    BY <2>2, <2>3
<1> QED
  BY StartupInvariant, <1>1, PTL

\* The secret file is whole whenever it has its name, through any crash and any
\* loss of power: no start refuses what an earlier one left behind.  This is
\* what keeps ComesUp from failing for good.
THEOREM SecretNeverTorn == Spec => [](name # NoKey => name \in whole)
<1>1. StartupInv => (name # NoKey => name \in whole)
  BY DEF StartupInv, SecretSafe, TypeOK
<1> QED
  BY StartupInvariant, <1>1, PTL

\* A server that listens has an account whose password logins can accept, in
\* development the configured one, unless all it has are accounts of an older
\* release that EnsureAdmin left as they were, under another name or password
\* than the configured (auth.go:93-129).
THEOREM ListensWithAdmin == Spec => []AdminsReady
<1>1. StartupInv => AdminsReady
  <2> SUFFICES ASSUME StartupInv, pc[Server] = "up", \A u \in Users : ~Usable(u)
               PROVE  \A u \in Users : accounts[u] = NoAccount \/ LeftBehind(u)
    BY DEF StartupInv, AccountsSeen, AdminsReady
  <2> SUFFICES ASSUME NEW u \in Users, accounts[u] # NoAccount PROVE LeftBehind(u)
    OBVIOUS
  <2>1. accounts[u] \in Account /\ accounts[u].format = "legacy"
    BY DEF StartupInv, TypeOK, Account, Usable
  <2>2. ASSUME u = conf.user, accounts[u].pw = conf.pw PROVE FALSE
    <3>1. accounts[u] = Legacy
      BY <2>1, <2>2 DEF Account, Legacy
    <3> QED
      BY <2>2, <3>1 DEF StartupInv, AccountsSeen, Mine
  <2> QED
    BY <2>1, <2>2 DEF LeftBehind
<1> QED
  BY StartupInvariant, <1>1, PTL

\* What AccountsKept says of a step.
AccountsStep ==
  ~conf.dev =>
    \A u \in Users :
      IF accounts[u] # NoAccount
        THEN accounts'[u] # NoAccount /\ accounts'[u].pw = accounts[u].pw
        ELSE accounts'[u] # NoAccount => miscounted \/ \A v \in Users : accounts[v] = NoAccount

\* No step from a state of the invariant disturbs the accounts.
LEMMA AccountsStepKept == ASSUME StartupInv, [Next]_vars PROVE AccountsStep
<1>0. /\ accounts \in [Users -> Account \cup {NoAccount}] /\ conf.user \in Users
      /\ Current # NoAccount /\ Current.pw = conf.pw /\ Legacy.pw = conf.pw
      /\ Server \in Procs /\ \A p \in Procs : p = Server \/ p = Gateway
  BY Accounts DEF StartupInv, TypeOK, Procs
<1>1. ASSUME UNCHANGED accounts PROVE AccountsStep
  BY <1>1 DEF AccountsStep
<1>2. ASSUME NEW p \in Procs, UpdatePassword(p) PROVE AccountsStep
  <2>1. p = Server /\ accounts' = [accounts EXCEPT ![conf.user] = Current]
    BY <1>0, <1>2 DEF UpdatePassword, StartupInv, AccountsSeen, AdminLabels
  <2>2. ~conf.dev => accounts[conf.user] = Legacy
    BY <1>2, <2>1 DEF UpdatePassword, StartupInv, AccountsSeen, Mine
  <2>3. accounts[conf.user] # NoAccount
    BY <1>2, <2>1 DEF UpdatePassword, StartupInv, AccountsSeen, Mine
  <2> QED
    BY <1>0, <2>1, <2>2, <2>3 DEF AccountsStep
<1>3. ASSUME NEW p \in Procs, InsertAccount(p) PROVE AccountsStep
  <2>1. p = Server /\ accounts' = [accounts EXCEPT ![conf.user] = Current]
    BY <1>0, <1>3 DEF InsertAccount, StartupInv, AccountsSeen, AdminLabels
  <2>2. accounts[conf.user] = NoAccount
    BY <1>3, <2>1 DEF InsertAccount, StartupInv, AccountsSeen, Mine
  <2>3. ~conf.dev => miscounted \/ \A u \in Users : accounts[u] = NoAccount
    BY <1>3, <2>1 DEF InsertAccount, StartupInv, AccountsSeen
  <2> QED
    BY <1>0, <2>1, <2>2, <2>3 DEF AccountsStep
<1> QED
  BY <1>1, <1>2, <1>3 DEF Next, vars, ProcStep, LoadStep, AdminStep, Supervise, Load, Lstat, CreateTemp,
    WriteKey, SyncFile, Link, SyncDir, ReadKey, RemoveTemp, FindAccount, CountAccounts, Listen, Crash, Boot,
    ChildEnded, Stopped, Terminated, PowerLoss, Redeploy

\* In production no start takes an account away, changes the password one
\* accepts, or puts another beside those there are, unless the query that counts
\* them failed (auth.go, EnsureAdmin).
THEOREM AccountsSurvive == Spec => AccountsKept
<1>1. StartupInv /\ [Next]_vars => [AccountsStep]_vars
  BY AccountsStepKept
<1> QED
  BY StartupInvariant, <1>1, PTL DEF Spec, AccountsKept, AccountsStep
=============================================================================
