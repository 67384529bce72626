---------------------------- MODULE Store_proofs ----------------------------
(***************************************************************************)
(* Theorems about the rows of accounts (Accounts), for every number of     *)
(* accounts, browsers and requests under way, and about the file they are  *)
(* in (StoreSchema, ServerProcess), for every file an earlier version may  *)
(* have left and every number of starts, connections and deletions.        *)
(***************************************************************************)
EXTENDS Accounts, ServerProcess, FiniteSetTheorems, TLAPS

-----------------------------------------------------------------------------
(* The rows of accounts                                                    *)

RequestTypes == [stage : {"idle", "admitted", "forgetting"}, kind : Kinds,
                 client : Clients, user : Users \cup {Nobody},
                 target : Users \cup {Nobody}, role : Roles]

(* Who is forgotten after a deletion: as long as one request will, a deleted *)
(* account may have live sessions.                                           *)
Forgetting(u) ==
  \E r \in Requests : request[r].stage = "forgetting" /\ request[r].target = u

-----------------------------------------------------------------------------
(* Steps in groups the proofs treat alike.                                 *)

(* What a browser begins or the command line.                              *)
Begins(r) ==
  \/ \E b \in Browsers : OpenSession(r, b) \/ ListAccounts(r, b)
  \/ \E c \in Clients, role \in Roles : CreateAccount(r, c, role)
  \/ \E c \in Clients, u \in Users, role \in Roles : UpdateAccount(r, c, u, role)
  \/ \E c \in Clients, u \in Users : DeleteAccount(r, c, u)

(* What answers a request that was admitted.                               *)
Answers(r) ==
  \/ \E u \in Users : Create(r, u)
  \/ Refuse(r) \/ Update(r) \/ ReadAccounts(r) \/ Open(r)

LEMMA NextCases ==
  ASSUME AccountsNext
  PROVE  \/ \E b \in Browsers, u \in Users : BootstrapRegister(b, u)
         \/ \E b \in Browsers, u \in Users : SignIn(b, u)
         \/ \E b \in Browsers : SignOut(b)
         \/ \E r \in Requests : Begins(r) \/ Answers(r) \/ Delete(r) \/ ForgetLiveSessions(r)
  BY DEF AccountsNext, Begins, Answers

LEMMA NoRequestType == NoRequest \in RequestTypes /\ NoRequest.stage = "idle"
  BY DEF NoRequest, RequestTypes, Kinds, Clients, Roles

(* A request that begins takes the place of none, and no row changes.      *)
LEMMA BeginsFacts ==
  ASSUME AccountsTypeOK, NEW r \in Requests, Begins(r)
  PROVE  /\ request[r].stage = "idle"
         /\ \E q \in RequestTypes :
              /\ q.stage = "admitted"
              /\ request' = [request EXCEPT ![r] = q]
         /\ UNCHANGED <<account, cookie, live, page, late>>
  <1>1. PICK kind \in Kinds, c \in Clients, target \in Users \cup {Nobody}, role \in Roles :
          Begin(r, kind, c, target, role)
    BY DEF Begins, OpenSession, ListAccounts, CreateAccount, UpdateAccount,
           DeleteAccount, Kinds, Clients, Roles
  <1>2. Caller(c) \in Users \cup {Nobody}
    BY DEF Caller, AccountsTypeOK, Clients
  <1>. DEFINE q == [stage |-> "admitted", kind |-> kind, client |-> c,
                    user |-> Caller(c), target |-> target, role |-> role]
  <1>3. q \in RequestTypes /\ q.stage = "admitted"
    BY <1>2 DEF RequestTypes
  <1>4. /\ request[r] = NoRequest
        /\ request' = [request EXCEPT ![r] = q]
        /\ UNCHANGED <<account, cookie, live, page, late>>
    BY <1>1 DEF Begin
  <1>5. \E d \in RequestTypes :
           /\ d.stage = "admitted"
           /\ request' = [request EXCEPT ![r] = d]
    BY <1>3, <1>4
  <1>. QED
    BY <1>4, <1>5, NoRequestType

(* A request that is answered was admitted and leaves its place idle.      *)
LEMMA AnswersFacts ==
  ASSUME NEW r \in Requests, Answers(r)
  PROVE  /\ request[r].stage = "admitted"
         /\ request' = [request EXCEPT ![r] = NoRequest]
         /\ UNCHANGED cookie
  BY DEF Answers, Create, Refuse, Update, ReadAccounts, Open, Admit, Answered

-----------------------------------------------------------------------------
(* The type invariant                                                      *)

LEMMA TypeInit ==
  ASSUME AccountsInit
  PROVE  AccountsTypeOK
  BY NoRequestType DEF AccountsInit, AccountsTypeOK, BlankPage, RequestTypes

LEMMA TypeAnswers ==
  ASSUME AccountsTypeOK, NEW r \in Requests, Answers(r)
  PROVE  AccountsTypeOK'
  <1>1. /\ request' \in [Requests -> RequestTypes]
        /\ cookie' = cookie
        /\ request[r] \in RequestTypes
    BY AnswersFacts, NoRequestType DEF AccountsTypeOK, RequestTypes
  <1>2. account' \in [Users -> Roles \cup {"free", "deleted"}]
    BY <1>1 DEF AccountsTypeOK, Answers, Create, Refuse, Update, ReadAccounts, Open,
                RequestTypes
  <1>3. live' \subseteq Users /\ late' \subseteq Users
    BY <1>1 DEF AccountsTypeOK, Answers, Create, Refuse, Update, ReadAccounts, Open,
                RequestTypes
  <1>4. page' \in [Browsers -> [current : Users \cup {Nobody},
                                accounts : [Users -> Roles \cup {"none"}]]]
    <2>1. Listed \in [Users -> Roles \cup {"none"}]
      BY DEF Listed, Active
    <2>. QED
      BY <1>1, <2>1 DEF AccountsTypeOK, Answers, Create, Refuse, Update, ReadAccounts,
                        Open, RequestTypes
  <1>. QED
    BY <1>1, <1>2, <1>3, <1>4 DEF AccountsTypeOK, RequestTypes

LEMMA TypeNext ==
  ASSUME AccountsTypeOK, [AccountsNext]_accountsVars
  PROVE  AccountsTypeOK'
  <1>1. CASE UNCHANGED accountsVars
    BY <1>1 DEF AccountsTypeOK, accountsVars
  <1>2. ASSUME NEW b \in Browsers, NEW u \in Users, BootstrapRegister(b, u)
        PROVE  AccountsTypeOK'
    BY <1>2 DEF AccountsTypeOK, BootstrapRegister, Roles
  <1>3. ASSUME NEW b \in Browsers, NEW u \in Users, SignIn(b, u)
        PROVE  AccountsTypeOK'
    BY <1>3 DEF AccountsTypeOK, SignIn
  <1>4. ASSUME NEW b \in Browsers, SignOut(b)
        PROVE  AccountsTypeOK'
    BY <1>4 DEF AccountsTypeOK, SignOut, BlankPage
  <1>5. ASSUME NEW r \in Requests, Begins(r)
        PROVE  AccountsTypeOK'
    BY <1>5, BeginsFacts DEF AccountsTypeOK, RequestTypes
  <1>6. ASSUME NEW r \in Requests, Delete(r)
        PROVE  AccountsTypeOK'
    <2>1. account' \in [Users -> Roles \cup {"free", "deleted"}]
      BY <1>6 DEF AccountsTypeOK, Delete
    <2>2. cookie' \in [Browsers -> Users \cup {Nobody}]
      BY <1>6 DEF AccountsTypeOK, Delete
    <2>3. request' \in [Requests -> RequestTypes]
      <3>1. request \in [Requests -> RequestTypes]
        BY DEF AccountsTypeOK, RequestTypes
      <3>2. [request[r] EXCEPT !.stage = "forgetting"] \in RequestTypes
        BY <3>1 DEF RequestTypes
      <3>3. request' = [request EXCEPT ![r] = [request[r] EXCEPT !.stage = "forgetting"]]
        BY <1>6 DEF Delete
      <3>. QED
        BY <3>1, <3>2, <3>3
    <2>4. UNCHANGED <<live, page, late>>
      BY <1>6 DEF Delete
    <2>. QED
      BY <2>1, <2>2, <2>3, <2>4 DEF AccountsTypeOK, RequestTypes
  <1>7. ASSUME NEW r \in Requests, ForgetLiveSessions(r)
        PROVE  AccountsTypeOK'
    BY <1>7, NoRequestType DEF AccountsTypeOK, ForgetLiveSessions, Answered, RequestTypes
  <1>. QED
    BY <1>1, <1>2, <1>3, <1>4, <1>5, <1>6, <1>7, NextCases, TypeAnswers

(* Every row, cookie, handler and page keeps its type, whatever handlers   *)
(* of account_api run at once.                                             *)
THEOREM AccountsAreTyped == AccountsSpec => []AccountsTypeOK
  BY TypeInit, TypeNext, PTL DEF AccountsSpec

-----------------------------------------------------------------------------
(* An admin remains                                                        *)

(* Where more than one admin is counted there is another than u.           *)
LEMMA AnotherAdmin ==
  ASSUME NEW u, ActiveAdminCount > 1
  PROVE  \E v \in ActiveAdmins : v # u
  <1>. SUFFICES ASSUME \A v \in ActiveAdmins : v = u
                PROVE  FALSE
    OBVIOUS
  <1>1. ActiveAdmins \subseteq {u}
    OBVIOUS
  <1>2. IsFiniteSet({u}) /\ Cardinality({u}) = 1
    BY FS_Singleton
  <1>3. Cardinality(ActiveAdmins) <= 1 /\ Cardinality(ActiveAdmins) \in Nat
    BY <1>1, <1>2, FS_Subset, FS_CardinalityType
  <1>. QED
    BY <1>3 DEF ActiveAdminCount

LEMMA AdminStep ==
  ASSUME AccountsTypeOK, AccountsNext, ActiveAdmins # {}
  PROVE  ActiveAdmins' # {}
  <1>0. PICK a \in Users : account[a] = "admin"
    BY DEF ActiveAdmins
  <1>1. ASSUME NEW b \in Browsers, NEW u \in Users, BootstrapRegister(b, u)
        PROVE  ActiveAdmins' # {}
    BY <1>1 DEF BootstrapRegister, ActiveAdmins, AccountsTypeOK
  <1>2. ASSUME UNCHANGED account
        PROVE  ActiveAdmins' # {}
    BY <1>2, <1>0 DEF ActiveAdmins
  <1>3. ASSUME NEW r \in Requests, NEW u \in Users, Create(r, u)
        PROVE  ActiveAdmins' # {}
    BY <1>3, <1>0 DEF Create, ActiveAdmins, AccountsTypeOK
  <1>4. ASSUME NEW r \in Requests, Update(r)
        PROVE  ActiveAdmins' # {}
    <2>. DEFINE u == request[r].target
    <2>1. /\ AdminChangeAllowed(u, request[r].user, request[r].role)
          /\ account' = [account EXCEPT ![u] = request[r].role]
          /\ request[r].role \in Roles
      BY <1>4 DEF Update, AccountsTypeOK
    <2>2. CASE request[r].role = "admin"
      BY <2>1, <2>2, <1>0 DEF ActiveAdmins, AccountsTypeOK
    <2>3. CASE account[u] # "admin"
      BY <2>1, <2>3, <1>0 DEF ActiveAdmins, AccountsTypeOK
    <2>4. CASE request[r].role = "member" /\ account[u] = "admin"
      <3>1. ActiveAdminCount > 1
        BY <2>1, <2>4 DEF AdminChangeAllowed
      <3>2. PICK v \in ActiveAdmins : v # u
        BY <3>1, AnotherAdmin
      <3>. QED
        BY <2>1, <3>2 DEF ActiveAdmins, AccountsTypeOK
    <2>. QED
      BY <2>1, <2>2, <2>3, <2>4 DEF Roles
  <1>5. ASSUME NEW r \in Requests, Delete(r)
        PROVE  ActiveAdmins' # {}
    <2>. DEFINE u == request[r].target
    <2>1. /\ DeletionAllowed(u, request[r].user)
          /\ account' = [account EXCEPT ![u] = "deleted"]
      BY <1>5 DEF Delete
    <2>2. CASE account[u] # "admin"
      BY <2>1, <2>2, <1>0 DEF ActiveAdmins, AccountsTypeOK
    <2>3. CASE account[u] = "admin"
      <3>1. PICK v \in ActiveAdmins : v # u
        BY <2>1, <2>3, AnotherAdmin DEF DeletionAllowed
      <3>. QED
        BY <2>1, <3>1 DEF ActiveAdmins, AccountsTypeOK
    <2>. QED
      BY <2>2, <2>3
  <1>6. ASSUME NEW r \in Requests, Answers(r)
        PROVE  ActiveAdmins' # {}
    BY <1>6, <1>2, <1>3, <1>4 DEF Answers, Refuse, ReadAccounts, Open
  <1>. QED
    BY <1>1, <1>2, <1>5, <1>6, NextCases, BeginsFacts
    DEF SignIn, SignOut, ForgetLiveSessions

(* Once there is an admin there always is one, however many administrators *)
(* change and delete accounts at once, each by what it was told before:    *)
(* the count of admins is taken in the transaction that would lower it.    *)
THEOREM AnAdminRemains == AccountsSpec => AdminRemains
  <1>1. AccountsTypeOK /\ [AccountsNext]_accountsVars
        => [ActiveAdmins # {} => ActiveAdmins' # {}]_accountsVars
    BY AdminStep
  <1>. QED
    BY <1>1, AccountsAreTyped, PTL DEF AccountsSpec, AdminRemains

-----------------------------------------------------------------------------
(* Sessions of deleted accounts                                            *)

SessionsInv == AccountsTypeOK /\ DeletedAccountsHaveNoSessions

LEMMA SessionsStep ==
  ASSUME SessionsInv, [AccountsNext]_accountsVars
  PROVE  DeletedAccountsHaveNoSessions'
  <1>. SUFFICES ASSUME NEW u \in live', account'[u] = "deleted", u \notin late'
                PROVE  Forgetting(u)'
    BY DEF DeletedAccountsHaveNoSessions, Forgetting
  <1>. USE DEF SessionsInv
  <1>0. ASSUME u \in live, account[u] = "deleted", u \notin late
        PROVE  Forgetting(u)
    BY <1>0 DEF DeletedAccountsHaveNoSessions, Forgetting
  <1>1. CASE UNCHANGED accountsVars
    BY <1>0, <1>1 DEF accountsVars, Forgetting
  <1>2. ASSUME NEW b \in Browsers, NEW v \in Users, BootstrapRegister(b, v)
        PROVE  Forgetting(u)'
    BY <1>0, <1>2 DEF BootstrapRegister, Forgetting, AccountsTypeOK
  <1>3. ASSUME NEW b \in Browsers, (\E v \in Users : SignIn(b, v)) \/ SignOut(b)
        PROVE  Forgetting(u)'
    BY <1>0, <1>3 DEF SignIn, SignOut, Forgetting
  <1>4. ASSUME NEW r \in Requests, Begins(r)
        PROVE  Forgetting(u)'
    BY <1>0, <1>4, BeginsFacts DEF Forgetting, AccountsTypeOK
  <1>5. ASSUME NEW r \in Requests, Answers(r)
        PROVE  Forgetting(u)'
    <2>1. /\ request[r].stage = "admitted"
          /\ request' = [request EXCEPT ![r] = NoRequest]
          /\ late \subseteq late'
      BY <1>5, AnswersFacts
      DEF Answers, Create, Refuse, Update, ReadAccounts, Open
    <2>2. u \in live
      <3>1. ASSUME Open(r)
            PROVE  u \in live
        BY <3>1 DEF Open, Active, Roles, AccountsTypeOK
      <3>. QED
        BY <1>5, <3>1 DEF Answers, Create, Refuse, Update, ReadAccounts
    <2>3. account[u] = "deleted"
      BY <1>5 DEF Answers, Create, Refuse, Update, ReadAccounts, Open, AccountsTypeOK, Roles
    <2>. QED
      BY <1>0, <2>1, <2>2, <2>3 DEF Forgetting, AccountsTypeOK
  <1>6. ASSUME NEW r \in Requests, Delete(r)
        PROVE  Forgetting(u)'
    <2>1. /\ request[r].stage = "admitted"
          /\ request' = [request EXCEPT ![r].stage = "forgetting"]
          /\ account' = [account EXCEPT ![request[r].target] = "deleted"]
          /\ UNCHANGED <<live, late>>
      BY <1>6 DEF Delete, Admit
    <2>2. CASE u = request[r].target
      BY <2>1, <2>2 DEF Forgetting, AccountsTypeOK
    <2>3. CASE u # request[r].target
      <3>1. Forgetting(u)
        BY <1>0, <2>1, <2>3 DEF AccountsTypeOK
      <3>. QED
        BY <3>1, <2>1 DEF Forgetting, AccountsTypeOK
    <2>. QED
      BY <2>2, <2>3
  <1>7. ASSUME NEW r \in Requests, ForgetLiveSessions(r)
        PROVE  Forgetting(u)'
    BY <1>0, <1>7 DEF ForgetLiveSessions, Answered, Forgetting, AccountsTypeOK
  <1>. QED
    BY <1>1, <1>2, <1>3, <1>4, <1>5, <1>6, <1>7, NextCases

(* An account whose deletion is answered has no live session but one that  *)
(* a request admitted before the deletion opened after it: the deletion    *)
(* itself forgets every session that was there (delete_account).           *)
THEOREM SessionsEndWithTheirAccount ==
  AccountsSpec => []DeletedAccountsHaveNoSessions
  <1>1. AccountsInit => SessionsInv
    BY TypeInit DEF SessionsInv, DeletedAccountsHaveNoSessions, AccountsInit
  <1>2. SessionsInv /\ [AccountsNext]_accountsVars => SessionsInv'
    BY SessionsStep, TypeNext DEF SessionsInv
  <1>3. SessionsInv => DeletedAccountsHaveNoSessions
    BY DEF SessionsInv
  <1>. QED
    BY <1>1, <1>2, <1>3, PTL DEF AccountsSpec

-----------------------------------------------------------------------------
(* What the migration makes of a file                                      *)

(* Once legacy sign-ins are staged, and the tables made.                   *)
StagedShapes ==
  [users : Maybe(SUBSET UserRows), authColumns : BOOLEAN,
   accounts : {NoAccounts} \cup [flags : BOOLEAN, rows : AccountLists],
   signIns : Maybe(SomeSignIns(SignIns)), staged : Maybe(SomeSignIns(LegacySignIns)),
   workspaces : Maybe(SUBSET WorkspaceRows), sessions : Maybe(SUBSET SessionRows),
   foreignKeys : BOOLEAN]

TableShapes ==
  [users : SUBSET UserRows, authColumns : BOOLEAN,
   accounts : {NoAccounts} \cup [flags : BOOLEAN, rows : AccountLists],
   signIns : SomeSignIns(SignIns), staged : Maybe(SomeSignIns(LegacySignIns)),
   workspaces : SUBSET WorkspaceRows, sessions : SUBSET SessionRows,
   foreignKeys : BOOLEAN]

(* The present tables, but for the constraints.                            *)
MigratedShapes ==
  [users : SUBSET UserRows, authColumns : {TRUE}, accounts : {NoAccounts},
   signIns : SomeSignIns(SignIns), staged : {NoTable},
   workspaces : SUBSET WorkspaceRows, sessions : SUBSET SessionRows,
   foreignKeys : BOOLEAN]

LEMMA AccountListRows ==
  ASSUME NEW rows \in AccountLists, NEW i \in DOMAIN rows
  PROVE  rows[i].name \in Names /\ rows[i].admin \in BOOLEAN
  <1>1. CASE rows = <<>>
    BY <1>1
  <1>2. CASE rows \in [1..1 -> [name : Names, admin : BOOLEAN]]
    BY <1>2
  <1>3. CASE rows \in [1..2 -> [name : Names, admin : BOOLEAN]]
    BY <1>3
  <1>. QED
    BY <1>1, <1>2, <1>3 DEF AccountLists

(* Sign-ins that name an account have no user column, unless there are     *)
(* none.                                                                   *)
LEMMA LegacySignInsHaveNoUsers ==
  ASSUME NEW table \in SUBSET LegacySignIns, HasUserColumn(table)
  PROVE  table = {}
  BY DEF HasUserColumn, LegacySignIns

(* What Collides says of a file, of any database.                          *)
NameIsTaken(db) ==
  db.signIns # NoTable /\ ~HasUserColumn(db.signIns) /\ db.staged # NoTable

LEMMA StagingShapes ==
  ASSUME NEW db \in Shapes
  PROVE  IF NameIsTaken(db)
         THEN StageLegacyBrowserSessions(db) = Refused
         ELSE StageLegacyBrowserSessions(db) \in StagedShapes
  <1>. USE DEF NameIsTaken
  <1>1. CASE db.signIns = NoTable
    BY <1>1 DEF StageLegacyBrowserSessions, Shapes, StagedShapes, Maybe
  <1>2. CASE db.signIns # NoTable /\ HasUserColumn(db.signIns)
    <2>1. db.signIns \in SomeSignIns(SignIns)
      <3>1. CASE db.signIns \in SomeSignIns(LegacySignIns)
        <4>1. db.signIns = {}
          BY <1>2, <3>1, LegacySignInsHaveNoUsers DEF SomeSignIns
        <4>. QED
          BY <4>1 DEF SomeSignIns
      <3>. QED
        BY <1>2, <3>1 DEF Shapes, Maybe
    <2>. QED
      BY <1>2, <2>1 DEF StageLegacyBrowserSessions, Shapes, StagedShapes, Maybe
  <1>3. CASE db.signIns # NoTable /\ ~HasUserColumn(db.signIns) /\ db.staged = NoTable
    <2>1. db.signIns \in SomeSignIns(LegacySignIns)
      <3>1. CASE db.signIns \in SomeSignIns(SignIns)
        BY <1>3, <3>1 DEF HasUserColumn, SomeSignIns, SignIns
      <3>. QED
        BY <1>3, <3>1 DEF Shapes, Maybe
    <2>. QED
      BY <1>3, <2>1 DEF StageLegacyBrowserSessions, Shapes, StagedShapes, Maybe
  <1>4. CASE db.signIns # NoTable /\ ~HasUserColumn(db.signIns) /\ db.staged # NoTable
    BY <1>4 DEF StageLegacyBrowserSessions
  <1>. QED
    BY <1>1, <1>2, <1>3, <1>4

LEMMA CreatingShapes ==
  ASSUME NEW db \in StagedShapes
  PROVE  CreateMissingTables(db) \in TableShapes
  <1>1. {} \in SomeSignIns(SignIns)
    BY DEF SomeSignIns
  <1>. QED
    <2>. DEFINE Table(t) == IF t = NoTable THEN {} ELSE t
    <2>1. /\ Table(db.users) \in SUBSET UserRows
          /\ Table(db.workspaces) \in SUBSET WorkspaceRows
          /\ Table(db.sessions) \in SUBSET SessionRows
      BY DEF StagedShapes, Maybe
    <2>2. Table(db.signIns) \in SomeSignIns(SignIns)
      BY <1>1 DEF StagedShapes, Maybe
    <2>3. CreateMissingTables(db) =
            [db EXCEPT !.users = Table(db.users), !.signIns = Table(db.signIns),
                       !.workspaces = Table(db.workspaces),
                       !.sessions = Table(db.sessions),
                       !.authColumns = db.authColumns \/ db.users = NoTable]
      BY DEF CreateMissingTables
    <2>. HIDE DEF Table
    <2>. QED
      BY <2>1, <2>2, <2>3 DEF StagedShapes, TableShapes

LEMMA EnsuringShapes ==
  ASSUME NEW db \in TableShapes
  PROVE  EnsureColumns(db) \in TableShapes /\ EnsureColumns(db).authColumns = TRUE
  <1>1. \A u \in UserRows :
          [u EXCEPT !.hash = "none", !.admin = FALSE, !.deleted = FALSE] \in UserRows
    BY DEF UserRows, Hashes
  <1>. QED
    BY <1>1 DEF EnsureColumns, TableShapes

LEMMA PromotingShapes ==
  ASSUME NEW db \in TableShapes
  PROVE  /\ PromoteLegacyBearerAdmins(db) \in TableShapes
         /\ PromoteLegacyBearerAdmins(db).authColumns = db.authColumns
  <1>1. {IF u.principal[1] = "bearer" /\ ~u.deleted THEN [u EXCEPT !.admin = TRUE] ELSE u :
           u \in db.users} \in SUBSET UserRows
    <2>1. \A u \in UserRows : [u EXCEPT !.admin = TRUE] \in UserRows
      BY DEF UserRows
    <2>2. db.users \subseteq UserRows
      BY DEF TableShapes
    <2>. QED
      BY <2>1, <2>2
  <1>. QED
    BY <1>1 DEF PromoteLegacyBearerAdmins, TableShapes

LEMMA MigratingAccountsShapes ==
  ASSUME NEW db \in TableShapes
  PROVE  /\ MigrateLegacyLocalAccounts(db) \in TableShapes
         /\ MigrateLegacyLocalAccounts(db).authColumns = db.authColumns
  <1>1. CASE db.accounts = NoAccounts
    BY <1>1 DEF MigrateLegacyLocalAccounts
  <1>2. CASE db.accounts # NoAccounts
    <2>. DEFINE rows == db.accounts.rows
                promoteOldest == ~db.accounts.flags \/ \A i \in DOMAIN rows : ~rows[i].admin
                migrated(i) ==
                  [principal |-> <<"local_account", rows[i].name>>, hash |-> "legacy",
                   admin |-> \/ db.accounts.flags /\ rows[i].admin
                             \/ promoteOldest /\ i = 1,
                   deleted |-> FALSE]
                unknown == {i \in DOMAIN rows : ActiveAccount(db, rows[i].name) = {}}
    <2>1. db.accounts \in [flags : BOOLEAN, rows : AccountLists]
      BY <1>2 DEF TableShapes, Maybe
    <2>2. ASSUME NEW i \in DOMAIN rows
          PROVE  migrated(i) \in UserRows
      <3>1. rows[i].name \in Names
        BY <2>1, AccountListRows
      <3>2. <<"local_account", rows[i].name>> \in Principals
        BY <3>1 DEF Principals
      <3>. QED
        BY <3>2 DEF UserRows, Hashes
    <2>3. db.users \cup {migrated(i) : i \in unknown} \in SUBSET UserRows
      BY <2>2 DEF TableShapes
    <2>4. MigrateLegacyLocalAccounts(db) =
            [db EXCEPT !.users = @ \cup {migrated(i) : i \in unknown}]
      BY <1>2 DEF MigrateLegacyLocalAccounts
    <2>. HIDE DEF migrated, unknown
    <2>. QED
      BY <2>3, <2>4 DEF TableShapes
  <1>. QED
    BY <1>1, <1>2

LEMMA MigratingSessionsShapes ==
  ASSUME NEW db \in TableShapes
  PROVE  /\ MigrateLegacyBrowserSessions(db) \in TableShapes
         /\ MigrateLegacyBrowserSessions(db).authColumns = db.authColumns
  <1>. DEFINE rows == IF db.staged = NoTable THEN {} ELSE db.staged
              kept == {s \in rows : ActiveAccount(db, s.name) # {}}
              untouched == {s \in db.signIns : \A k \in kept : k.token # s.token}
              present(s) == [token |-> s.token, user |-> <<"local_account", s.name>>,
                             deleted |-> FALSE]
              new == untouched \cup {present(s) : s \in kept}
  <1>1. rows \in SUBSET LegacySignIns /\ \A a, b \in rows : a.token = b.token => a = b
    BY DEF TableShapes, Maybe, SomeSignIns
  <1>2. db.signIns \in SUBSET SignIns /\ \A a, b \in db.signIns : a.token = b.token => a = b
    BY DEF TableShapes, SomeSignIns
  <1>3. \A s \in kept : present(s) \in SignIns /\ present(s).token = s.token
    <2>1. ASSUME NEW s \in kept
          PROVE  present(s) \in SignIns
      <3>1. s.token \in Tokens /\ <<"local_account", s.name>> \in Principals
        BY <1>1 DEF LegacySignIns, Principals
      <3>. QED
        BY <3>1 DEF SignIns
    <2>. QED
      BY <2>1
  <1>4. new \in SUBSET SignIns
    BY <1>2, <1>3
  <1>5. ASSUME NEW a \in new, NEW b \in new, a.token = b.token
        PROVE  a = b
    <2>1. CASE a \in untouched /\ b \in untouched
      BY <1>2, <1>5, <2>1
    <2>2. CASE a \in untouched /\ b \notin untouched
      BY <1>3, <1>5, <2>2
    <2>3. CASE a \notin untouched /\ b \in untouched
      BY <1>3, <1>5, <2>3
    <2>4. CASE a \notin untouched /\ b \notin untouched
      <3>1. PICK s, t \in kept : a = present(s) /\ b = present(t)
        BY <2>4
      <3>. QED
        BY <1>1, <1>3, <1>5, <3>1
    <2>. QED
      BY <2>1, <2>2, <2>3, <2>4
  <1>6. MigrateLegacyBrowserSessions(db) = [db EXCEPT !.signIns = new]
    BY DEF MigrateLegacyBrowserSessions, TableShapes
  <1>7. new \in SomeSignIns(SignIns)
    BY <1>4, <1>5 DEF SomeSignIns
  <1>. HIDE DEF new
  <1>. QED
    BY <1>6, <1>7 DEF TableShapes

LEMMA DroppingShapes ==
  ASSUME NEW db \in TableShapes, db.authColumns = TRUE
  PROVE  DropLegacyAuthTables(db) \in MigratedShapes
  BY DEF DropLegacyAuthTables, TableShapes, MigratedShapes

(* Pruning leaves rows, and none that refers to nothing.                   *)
LEMMA PruningShapes ==
  ASSUME NEW db \in MigratedShapes
  PROVE  LET pruned == EnsureForeignKeyTables(PruneOrphanedRows(db))
         IN /\ IsPresentSchema(pruned)
            /\ ReferencesHold(pruned)
            /\ pruned.users = db.users
            /\ pruned.signIns = {s \in db.signIns : s.user \in Subjects(db)}
  <1>. DEFINE workspaces == {w \in db.workspaces : w.owner \in Subjects(db)}
              sessions == {s \in db.sessions : s.workspace \in workspaces
                                               /\ s.owner \in Subjects(db)}
              signIns == {s \in db.signIns : s.user \in Subjects(db)}
              pruned == EnsureForeignKeyTables(PruneOrphanedRows(db))
  <1>1. pruned = [db EXCEPT !.workspaces = workspaces, !.sessions = sessions,
                            !.signIns = signIns, !.foreignKeys = TRUE]
    BY DEF EnsureForeignKeyTables, PruneOrphanedRows, MigratedShapes
  <1>2. /\ workspaces \in SUBSET WorkspaceRows /\ sessions \in SUBSET SessionRows
        /\ signIns \in SomeSignIns(SignIns)
    BY DEF MigratedShapes, SomeSignIns
  <1>3. /\ pruned.users = db.users /\ pruned.workspaces = workspaces
        /\ pruned.sessions = sessions /\ pruned.signIns = signIns
    BY <1>1 DEF MigratedShapes
  <1>4. IsPresentSchema(pruned)
    <2>. HIDE DEF workspaces, sessions, signIns, pruned
    <2>. QED
      BY <1>1, <1>2 DEF MigratedShapes, IsPresentSchema
  <1>5. ReferencesHold(pruned)
    BY <1>3 DEF ReferencesHold, Subjects
  <1>. QED
    BY <1>3, <1>4, <1>5

(* The steps after the staging: the first three, and all of them.          *)
Promoted(db) == PromoteLegacyBearerAdmins(EnsureColumns(CreateMissingTables(db)))

Migrated(db) ==
  EnsureForeignKeyTables(PruneOrphanedRows(DropLegacyAuthTables(
    MigrateLegacyBrowserSessions(MigrateLegacyLocalAccounts(Promoted(db))))))

LEMMA PromotedShapes ==
  ASSUME NEW db \in StagedShapes
  PROVE  Promoted(db) \in TableShapes /\ Promoted(db).authColumns = TRUE
  <1>. DEFINE created == CreateMissingTables(db)
              columns == EnsureColumns(created)
  <1>1. created \in TableShapes
    BY CreatingShapes
  <1>. HIDE DEF created
  <1>2. columns \in TableShapes /\ columns.authColumns = TRUE
    BY <1>1, EnsuringShapes
  <1>3. Promoted(db) = PromoteLegacyBearerAdmins(columns)
    BY DEF Promoted, created
  <1>. HIDE DEF columns
  <1>. QED
    BY <1>2, <1>3, PromotingShapes

LEMMA MigratingShapes ==
  ASSUME NEW db \in StagedShapes
  PROVE  LET accounts == MigrateLegacyLocalAccounts(Promoted(db))
             sessions == MigrateLegacyBrowserSessions(accounts)
         IN /\ IsPresentSchema(Migrated(db)) /\ ReferencesHold(Migrated(db))
            /\ accounts \in TableShapes
            /\ Migrated(db).users = accounts.users
            /\ Migrated(db).signIns =
                 {s \in sessions.signIns : s.user \in Subjects(accounts)}
  <1>. DEFINE accounts == MigrateLegacyLocalAccounts(Promoted(db))
              sessions == MigrateLegacyBrowserSessions(accounts)
              dropped == DropLegacyAuthTables(sessions)
  <1>1. Migrated(db) = EnsureForeignKeyTables(PruneOrphanedRows(dropped))
    BY DEF Migrated
  <1>2. accounts \in TableShapes /\ accounts.authColumns = TRUE
    BY PromotedShapes, MigratingAccountsShapes
  <1>. HIDE DEF accounts
  <1>3. /\ sessions \in TableShapes /\ sessions.authColumns = TRUE
        /\ sessions.users = accounts.users
    <2>1. sessions \in TableShapes /\ sessions.authColumns = TRUE
      BY <1>2, MigratingSessionsShapes
    <2>. QED
      BY <1>2, <2>1 DEF MigrateLegacyBrowserSessions, TableShapes
  <1>. HIDE DEF sessions
  <1>4. /\ dropped \in MigratedShapes
        /\ dropped.users = sessions.users /\ dropped.signIns = sessions.signIns
    <2>1. dropped \in MigratedShapes
      BY <1>3, DroppingShapes
    <2>. QED
      BY <1>3, <2>1 DEF DropLegacyAuthTables, TableShapes
  <1>. HIDE DEF dropped
  <1>5. Subjects(dropped) = Subjects(accounts)
    BY <1>3, <1>4 DEF Subjects
  <1>6. /\ IsPresentSchema(Migrated(db)) /\ ReferencesHold(Migrated(db))
        /\ Migrated(db).users = dropped.users
        /\ Migrated(db).signIns = {s \in dropped.signIns : s.user \in Subjects(dropped)}
    BY <1>1, <1>4, PruningShapes
  <1>. QED
    BY <1>2, <1>3, <1>4, <1>5, <1>6 DEF accounts, sessions

LEMMA MarkersAreNoDatabases ==
  /\ NoDatabase \in StagedShapes /\ NoDatabase.signIns = NoTable
  /\ \A db : IsPresentSchema(db) => db \notin {Missing, Blank, Refused}
  <1>1. NoDatabase \in StagedShapes /\ NoDatabase.signIns = NoTable
    BY DEF NoDatabase, Database, StagedShapes, Maybe
  <1>2. ASSUME NEW db, IsPresentSchema(db)
        PROVE  db \in Shapes
    BY <1>2 DEF IsPresentSchema, Shapes, Maybe
  <1>. QED
    BY <1>1, <1>2, MarkersAssumption

(* Whatever shape the file has, initialising it makes the present schema   *)
(* of it, or it is refused because the name for staged sign-ins is taken.  *)
LEMMA InitializingShapes ==
  ASSUME NEW db, db \in {Missing, Blank} \/ db \in Shapes
  PROVE  \/ /\ InitializeSchema(db) = Refused
            /\ db \in Shapes /\ NameIsTaken(db)
         \/ /\ IsPresentSchema(InitializeSchema(db))
            /\ db \in Shapes =>
                 /\ StageLegacyBrowserSessions(db) \in StagedShapes
                 /\ ~NameIsTaken(db)
                 /\ InitializeSchema(db) = Migrated(StageLegacyBrowserSessions(db))
  <1>. DEFINE from == IF db \in {Missing, Blank} THEN NoDatabase ELSE db
              staged == StageLegacyBrowserSessions(from)
  <1>1. /\ from \in Shapes /\ (db \in Shapes => from = db)
        /\ NameIsTaken(from) => db \in Shapes
    <2>1. NoDatabase \in Shapes /\ ~NameIsTaken(NoDatabase)
      BY DEF NoDatabase, Database, Shapes, Maybe, NameIsTaken
    <2>2. db \in Shapes => db \notin {Missing, Blank}
      BY MarkersAssumption
    <2>. QED
      BY <2>1, <2>2
  <1>2. InitializeSchema(db) = IF staged = Refused THEN Refused
                               ELSE EnsureForeignKeyIntegrity(Migrated(staged))
    BY DEF InitializeSchema, Migrated, Promoted
  <1>. HIDE DEF from
  <1>3. IF NameIsTaken(from) THEN staged = Refused ELSE staged \in StagedShapes
    BY <1>1, StagingShapes
  <1>4. CASE NameIsTaken(from)
    BY <1>1, <1>2, <1>3, <1>4
  <1>5. CASE ~NameIsTaken(from)
    <2>. HIDE DEF staged
    <2>1. staged \in StagedShapes
      BY <1>3, <1>5
    <2>2. staged # Refused
      <3>1. staged \in Shapes
        BY <2>1 DEF StagedShapes, Shapes, Maybe
      <3>. QED
        BY <3>1, MarkersAssumption
    <2>3. IsPresentSchema(Migrated(staged)) /\ ReferencesHold(Migrated(staged))
      BY <2>1, MigratingShapes
    <2>4. InitializeSchema(db) = Migrated(staged)
      BY <1>2, <2>2, <2>3 DEF EnsureForeignKeyIntegrity
    <2>. QED
      BY <1>1, <1>5, <2>1, <2>3, <2>4 DEF staged
  <1>. QED
    BY <1>4, <1>5

(* Whoever is asked for, two files know the same.                          *)
LookupsAgree(new, old) ==
  /\ \A n : ActiveAccount(new, n) = ActiveAccount(old, n)
  /\ \A t : SignedInAs(new, t) = SignedInAs(old, t)

(* Where there is nothing left to migrate the migration promotes some      *)
(* bearers and drops sign-ins of nobody, so that nobody notices.           *)
LEMMA PromotionOfPresent ==
  ASSUME NEW db, IsPresentSchema(db)
  PROVE  /\ Promoted(db) \in TableShapes
         /\ Promoted(db).accounts = NoAccounts /\ Promoted(db).staged = NoTable
         /\ Promoted(db).signIns = db.signIns
         /\ Promoted(db).users =
              {IF u.principal[1] = "bearer" /\ ~u.deleted THEN [u EXCEPT !.admin = TRUE] ELSE u :
                 u \in db.users}
  <1>1. db \in StagedShapes
    BY DEF IsPresentSchema, StagedShapes, Maybe
  <1>2. CreateMissingTables(db) =
          [db EXCEPT !.workspaces = CreateMissingTables(db).workspaces,
                     !.sessions = CreateMissingTables(db).sessions]
    <2>1. db.users # NoTable /\ db.signIns # NoTable
      BY MarkersAssumption DEF IsPresentSchema, SomeSignIns, NoTable
    <2>. QED
      BY <2>1 DEF IsPresentSchema, CreateMissingTables
  <1>. DEFINE created == CreateMissingTables(db)
  <1>3. /\ created.users = db.users /\ created.signIns = db.signIns
        /\ created.authColumns = TRUE
        /\ created.accounts = NoAccounts /\ created.staged = NoTable
    BY <1>2 DEF IsPresentSchema
  <1>4. created \in TableShapes
    BY <1>1, CreatingShapes
  <1>5. Promoted(db) \in TableShapes
    BY <1>1, PromotedShapes
  <1>6. Promoted(db) = PromoteLegacyBearerAdmins(created)
    BY <1>3 DEF Promoted, EnsureColumns
  <1>. HIDE DEF created
  <1>. QED
    BY <1>3, <1>4, <1>5, <1>6 DEF PromoteLegacyBearerAdmins, TableShapes

LEMMA NobodyNoticesTheMigration ==
  ASSUME NEW db, IsPresentSchema(db)
  PROVE  LookupsAgree(Migrated(db), db)
  <1>. DEFINE promote(u) == IF u.principal[1] = "bearer" /\ ~u.deleted
                            THEN [u EXCEPT !.admin = TRUE] ELSE u
              new == Migrated(db)
  <1>1. /\ new.users = {promote(u) : u \in db.users}
        /\ new.signIns = {s \in db.signIns : s.user \in Subjects(new)}
    <2>1. db \in StagedShapes
      BY DEF IsPresentSchema, StagedShapes, Maybe
    <2>. DEFINE promoted == Promoted(db)
    <2>2. /\ promoted \in TableShapes
          /\ promoted.accounts = NoAccounts /\ promoted.staged = NoTable
          /\ promoted.signIns = db.signIns
          /\ promoted.users = {promote(u) : u \in db.users}
      BY PromotionOfPresent
    <2>. HIDE DEF promoted, promote
    <2>3. MigrateLegacyLocalAccounts(promoted) = promoted
      BY <2>2 DEF MigrateLegacyLocalAccounts
    <2>4. MigrateLegacyBrowserSessions(promoted).signIns = promoted.signIns
      <3>1. MigrateLegacyBrowserSessions(promoted) \in TableShapes
        BY <2>2, MigratingSessionsShapes
      <3>. QED
        BY <2>2, <3>1 DEF MigrateLegacyBrowserSessions, TableShapes
    <2>5. /\ new.users = promoted.users
          /\ new.signIns = {s \in promoted.signIns : s.user \in Subjects(promoted)}
      BY <2>1, <2>3, <2>4, MigratingShapes DEF promoted
    <2>. QED
      BY <2>2, <2>5 DEF Subjects
  <1>2. db.users \subseteq UserRows
    BY DEF IsPresentSchema
  <1>3. \A u \in UserRows :
          /\ promote(u).principal = u.principal /\ promote(u).deleted = u.deleted
          /\ u.principal[1] # "bearer" => promote(u) = u
    BY DEF UserRows
  <1>. HIDE DEF promote, new
  <1>4. ASSUME NEW n
        PROVE  ActiveAccount(new, n) = ActiveAccount(db, n)
    <2>1. \A u \in UserRows :
            u.principal = <<"local_account", n>> => u.principal[1] # "bearer"
      OBVIOUS
    <2>. QED
      BY <1>1, <1>2, <1>3, <2>1 DEF ActiveAccount, UserOf
  <1>5. ASSUME NEW principal
        PROVE  /\ (\E u \in UserOf(new, principal) : ~u.deleted)
                    <=> (\E u \in UserOf(db, principal) : ~u.deleted)
               /\ (\E u \in UserOf(db, principal) : ~u.deleted) => principal \in Subjects(new)
    BY <1>1, <1>2, <1>3 DEF UserOf, Subjects
  <1>6. ASSUME NEW t
        PROVE  SignedInAs(new, t) = SignedInAs(db, t)
    BY <1>1, <1>5 DEF SignedInAs
  <1>. QED
    BY <1>4, <1>6 DEF LookupsAgree, new

LEMMA PresentFilesStayPresent ==
  ASSUME NEW db, IsPresentSchema(db)
  PROVE  /\ IsPresentSchema(InitializeSchema(db))
         /\ LookupsAgree(InitializeSchema(db), db)
  <1>1. db \in Shapes
    BY DEF IsPresentSchema, Shapes, Maybe
  <1>2. HasUserColumn(db.signIns)
    BY DEF IsPresentSchema, SomeSignIns, SignIns, HasUserColumn
  <1>3. ~NameIsTaken(db) /\ StageLegacyBrowserSessions(db) = db
    BY <1>2 DEF NameIsTaken, StageLegacyBrowserSessions
  <1>4. IsPresentSchema(InitializeSchema(db)) /\ InitializeSchema(db) = Migrated(db)
    BY <1>1, <1>3, InitializingShapes
  <1>. QED
    BY <1>4, NobodyNoticesTheMigration

(* The files earlier versions left have such a shape.                      *)
LEMMA EarlierFilesAreShaped ==
  EarlierDatabases \subseteq {Missing} \cup Shapes
  <1>1. \A kind \in {"bearer", "local_account"}, n \in Names, hash \in Hashes, admin \in BOOLEAN :
          Row(kind, n, hash, admin) \in UserRows
    BY DEF Row, UserRows, Principals
  <1>2. {} \in SomeSignIns(LegacySignIns)
    BY DEF SomeSignIns
  <1>3. UsersOnly \subseteq Shapes
    <2>1. BearerUsers(FALSE) \subseteq SUBSET UserRows
      BY <1>1 DEF BearerUsers, Hashes
    <2>2. ASSUME NEW users \in BearerUsers(FALSE)
          PROVE  Database(users, FALSE, NoAccounts, NoTable, NoTable, NoTable, NoTable, FALSE)
                   \in Shapes
      <3>1. users \in SUBSET UserRows
        BY <2>1
      <3>. QED
        BY <3>1 DEF Database, Shapes, Maybe
    <2>. QED
      BY <2>2 DEF UsersOnly
  <1>4. LegacyLocalAccounts \subseteq Shapes
    <2>1. \A users \in {NoTable}
             \cup {{Row("local_account", n, "present", FALSE)} : n \in Names}
             \cup {{Row("bearer", n, "none", FALSE)} : n \in Names} :
            users \in Maybe(SUBSET UserRows)
      BY <1>1 DEF Maybe, Hashes
    <2>2. ASSUME NEW users \in Maybe(SUBSET UserRows), NEW flags \in BOOLEAN,
                 NEW rows \in AccountLists, NEW signIns \in SomeSignIns(LegacySignIns),
                 NEW staged \in {NoTable, {}}
          PROVE  Database(users, users # NoTable, [flags |-> flags, rows |-> rows], signIns,
                          staged, NoTable, NoTable, FALSE) \in Shapes
      BY <1>2 DEF Database, Shapes, Maybe
    <2>. DEFINE Others == {NoTable}
                  \cup {{Row("local_account", n, "present", FALSE)} : n \in Names}
                  \cup {{Row("bearer", n, "none", FALSE)} : n \in Names}
                Made(users, flags, rows, signIns, staged) ==
                  Database(users, users # NoTable, [flags |-> flags, rows |-> rows], signIns,
                           staged, NoTable, NoTable, FALSE)
    <2>3. \A users \in Others, flags \in BOOLEAN, rows \in AccountLists,
             signIns \in SomeSignIns(LegacySignIns), staged \in {NoTable, {}} :
            Made(users, flags, rows, signIns, staged) \in Shapes
      BY <2>1, <2>2
    <2>4. LegacyLocalAccounts =
            {Made(users, flags, rows, signIns, staged) :
               users \in Others, flags \in BOOLEAN, rows \in AccountLists,
               signIns \in SomeSignIns(LegacySignIns), staged \in {NoTable, {}}}
      BY DEF LegacyLocalAccounts
    <2>. HIDE DEF Others, Made
    <2>. QED
      BY <2>3, <2>4
  <1>5. WithoutForeignKeys \subseteq Shapes
    <2>1. {"local_account"} \X Names \subseteq Principals
      BY DEF Principals
    <2>2. SomeSignIns([token : Tokens, user : {"local_account"} \X Names, deleted : {FALSE}])
            \subseteq SomeSignIns(SignIns)
      BY <2>1 DEF SomeSignIns, SignIns
    <2>3. \A workspaces \in SUBSET [owner : {"local_account"} \X Names] :
            workspaces \in SUBSET WorkspaceRows
      BY <2>1 DEF WorkspaceRows
    <2>. DEFINE Between(workspaces, owners) ==
                  {[workspace |-> [owner |-> o], owner |-> p] :
                     o \in {w.owner : w \in workspaces}, p \in owners}
    <2>4. ASSUME NEW workspaces \in SUBSET [owner : {"local_account"} \X Names],
                 NEW owners \in SUBSET ({"local_account"} \X Names)
          PROVE  Between(workspaces, owners) \in SUBSET SessionRows
      BY <2>1 DEF SessionRows, WorkspaceRows
    <2>5. \A n \in Names : {Row("local_account", n, "present", TRUE)} \in SUBSET UserRows
      BY <1>1 DEF Hashes
    <2>. HIDE DEF Between
    <2>6. ASSUME NEW users \in SUBSET UserRows, NEW signIns \in SomeSignIns(SignIns),
                 NEW workspaces \in SUBSET WorkspaceRows, NEW sessions \in SUBSET SessionRows
          PROVE  Database(users, TRUE, NoAccounts, signIns, NoTable, workspaces, sessions, FALSE)
                   \in Shapes
      BY DEF Database, Shapes, Maybe
    <2>7. ASSUME NEW n \in Names,
                 NEW signIns \in SomeSignIns([token : Tokens,
                                              user : {"local_account"} \X Names,
                                              deleted : {FALSE}]),
                 NEW workspaces \in SUBSET [owner : {"local_account"} \X Names],
                 NEW owners \in SUBSET ({"local_account"} \X Names)
          PROVE  Database({Row("local_account", n, "present", TRUE)}, TRUE, NoAccounts, signIns,
                          NoTable, workspaces, Between(workspaces, owners), FALSE)
                   \in Shapes
      <3>1. {Row("local_account", n, "present", TRUE)} \in SUBSET UserRows
        BY <2>5
      <3>2. signIns \in SomeSignIns(SignIns)
        BY <2>2
      <3>3. workspaces \in SUBSET WorkspaceRows
        BY <2>3
      <3>4. Between(workspaces, owners) \in SUBSET SessionRows
        BY <2>4
      <3>. QED
        BY <2>6, <3>1, <3>2, <3>3, <3>4
    <2>. DEFINE Early == SomeSignIns([token : Tokens, user : {"local_account"} \X Names,
                                     deleted : {FALSE}])
                Owners == {"local_account"} \X Names
                Made(n, signIns, workspaces, owners) ==
                  Database({Row("local_account", n, "present", TRUE)}, TRUE, NoAccounts, signIns,
                           NoTable, workspaces, Between(workspaces, owners), FALSE)
    <2>8. \A n \in Names, signIns \in Early, workspaces \in SUBSET [owner : Owners],
             owners \in SUBSET Owners :
            Made(n, signIns, workspaces, owners) \in Shapes
      BY <2>7
    <2>9. WithoutForeignKeys =
            {Made(n, signIns, workspaces, owners) :
               n \in Names, signIns \in Early, workspaces \in SUBSET [owner : Owners],
               owners \in SUBSET Owners}
      BY DEF WithoutForeignKeys, Between
    <2>. HIDE DEF Early, Owners, Made
    <2>. QED
      BY <2>8, <2>9
  <1>. QED
    BY <1>3, <1>4, <1>5 DEF EarlierDatabases

(* What an earlier version owes its users, the migrated file gives them.   *)
Rows(table) == IF table = NoTable THEN {} ELSE table

Sound(db) ==
  /\ \A u \in Rows(db.users) :
       ~u.deleted /\ (u.principal[1] = "local_account" => db.authColumns)
  /\ Rows(db.staged) = {}
  /\ \A s \in Rows(db.signIns) :
       "user" \in DOMAIN s => s.user[1] = "local_account" /\ ~s.deleted

Gives(db, due) ==
  /\ \A a \in due.accounts :
       \E u \in ActiveAccount(db, a[1]) : u.hash = a[2] /\ u.admin = a[3]
  /\ \A s \in due.signIns : SignedInAs(db, s[1]) = {<<"local_account", s[2]>>}

LEMMA EarlierFilesAreSound ==
  ASSUME NEW db \in EarlierDatabases, db # Missing
  PROVE  Sound(db)
  <1>1. CASE db \in UsersOnly
    <2>1. PICK users \in BearerUsers(FALSE) :
            db = Database(users, FALSE, NoAccounts, NoTable, NoTable, NoTable, NoTable, FALSE)
      BY <1>1 DEF UsersOnly, Database
    <2>2. \A u \in users : ~u.deleted /\ u.principal[1] # "local_account"
      BY DEF BearerUsers, Row
    <2>3. db.users = users /\ db.signIns = NoTable /\ db.staged = NoTable
      BY <2>1 DEF Database
    <2>. QED
      BY <2>2, <2>3 DEF Sound, Rows
  <1>2. CASE db \in LegacyLocalAccounts
    <2>. DEFINE Others == {NoTable}
                  \cup {{Row("local_account", n, "present", FALSE)} : n \in Names}
                  \cup {{Row("bearer", n, "none", FALSE)} : n \in Names}
                Made(users, flags, rows, signIns, staged) ==
                  Database(users, users # NoTable, [flags |-> flags, rows |-> rows], signIns,
                           staged, NoTable, NoTable, FALSE)
    <2>1. ASSUME NEW users \in Others, NEW flags \in BOOLEAN, NEW rows \in AccountLists,
                 NEW signIns \in SomeSignIns(LegacySignIns), NEW staged \in {NoTable, {}}
          PROVE  Sound(Made(users, flags, rows, signIns, staged))
      <3>. DEFINE made == Made(users, flags, rows, signIns, staged)
      <3>1. /\ made.users = users /\ (made.authColumns <=> users # NoTable)
            /\ made.signIns = signIns /\ made.staged = staged
        BY DEF Database
      <3>2. \A u \in Rows(users) : ~u.deleted
        BY DEF Rows, Row
      <3>3. \A u \in Rows(users) : users # NoTable
        BY DEF Rows
      <3>4. \A s \in Rows(signIns) : "user" \notin DOMAIN s
        BY DEF Rows, SomeSignIns, LegacySignIns
      <3>5. Rows(staged) = {}
        BY DEF Rows
      <3>. HIDE DEF made
      <3>6. Sound(made)
        BY <3>1, <3>2, <3>3, <3>4, <3>5 DEF Sound
      <3>. QED
        BY <3>6 DEF made
    <2>2. LegacyLocalAccounts =
            {Made(users, flags, rows, signIns, staged) :
               users \in Others, flags \in BOOLEAN, rows \in AccountLists,
               signIns \in SomeSignIns(LegacySignIns), staged \in {NoTable, {}}}
      BY DEF LegacyLocalAccounts
    <2>. HIDE DEF Others, Made
    <2>. QED
      BY <1>2, <2>1, <2>2
  <1>3. CASE db \in WithoutForeignKeys
    <2>. DEFINE Owners == {"local_account"} \X Names
                Early == SomeSignIns([token : Tokens, user : Owners, deleted : {FALSE}])
                Between(workspaces, owners) ==
                  {[workspace |-> [owner |-> o], owner |-> p] :
                     o \in {w.owner : w \in workspaces}, p \in owners}
                Made(n, signIns, workspaces, owners) ==
                  Database({Row("local_account", n, "present", TRUE)}, TRUE, NoAccounts, signIns,
                           NoTable, workspaces, Between(workspaces, owners), FALSE)
    <2>1. ASSUME NEW n \in Names, NEW signIns \in Early,
                 NEW workspaces \in SUBSET [owner : Owners], NEW owners \in SUBSET Owners
          PROVE  Sound(Made(n, signIns, workspaces, owners))
      <3>. DEFINE users == {Row("local_account", n, "present", TRUE)}
      <3>1. /\ Made(n, signIns, workspaces, owners).users = users
            /\ Made(n, signIns, workspaces, owners).authColumns = TRUE
            /\ Made(n, signIns, workspaces, owners).signIns = signIns
            /\ Made(n, signIns, workspaces, owners).staged = NoTable
        BY DEF Database
      <3>2. \A u \in Rows(users) : ~u.deleted
        BY DEF Rows, Row
      <3>3. \A s \in Rows(signIns) : s.user[1] = "local_account" /\ ~s.deleted
        BY DEF Rows, SomeSignIns
      <3>4. Rows(NoTable) = {}
        BY DEF Rows
      <3>. HIDE DEF Made, users
      <3>. QED
        BY <3>1, <3>2, <3>3, <3>4 DEF Sound
    <2>2. WithoutForeignKeys =
            {Made(n, signIns, workspaces, owners) :
               n \in Names, signIns \in Early, workspaces \in SUBSET [owner : Owners],
               owners \in SUBSET Owners}
      BY DEF WithoutForeignKeys
    <2>. HIDE DEF Early, Owners, Made
    <2>. QED
      BY <1>3, <2>1, <2>2
  <1>. QED
    BY <1>1, <1>2, <1>3 DEF EarlierDatabases

LEMMA PromotionKeepsAccounts ==
  ASSUME NEW db \in StagedShapes,
         \A u \in Rows(db.users) : u.principal[1] = "local_account" => db.authColumns
  PROVE  /\ \A u \in UserRows : u.principal[1] = "local_account" =>
              (u \in Promoted(db).users <=> u \in Rows(db.users))
         /\ Promoted(db).accounts = db.accounts /\ Promoted(db).staged = db.staged
         /\ Promoted(db).signIns = Rows(db.signIns)
  <1>. DEFINE created == CreateMissingTables(db)
              columns == EnsureColumns(created)
              promote(u) == IF u.principal[1] = "bearer" /\ ~u.deleted
                            THEN [u EXCEPT !.admin = TRUE] ELSE u
              reset(u) == [u EXCEPT !.hash = "none", !.admin = FALSE, !.deleted = FALSE]
  <1>1. /\ created.users = Rows(db.users) /\ created.signIns = Rows(db.signIns)
        /\ created.accounts = db.accounts /\ created.staged = db.staged
        /\ created \in TableShapes
        /\ db.authColumns => created.authColumns
    <2>1. created \in TableShapes
      BY CreatingShapes
    <2>. QED
      BY <2>1 DEF CreateMissingTables, StagedShapes, Rows
  <1>2. created.users \subseteq UserRows
    BY <1>1 DEF TableShapes
  <1>. HIDE DEF created
  <1>3. /\ columns \in TableShapes
        /\ columns.accounts = created.accounts /\ columns.staged = created.staged
        /\ columns.signIns = created.signIns
        /\ columns.users = IF created.authColumns THEN created.users
                           ELSE {reset(u) : u \in created.users}
    <2>1. columns \in TableShapes
      BY <1>1, EnsuringShapes
    <2>. QED
      BY <1>1, <2>1 DEF EnsureColumns, TableShapes
  <1>4. Promoted(db) = PromoteLegacyBearerAdmins(columns)
    BY DEF Promoted, created
  <1>. HIDE DEF columns
  <1>5. /\ Promoted(db).accounts = columns.accounts /\ Promoted(db).staged = columns.staged
        /\ Promoted(db).signIns = columns.signIns
        /\ Promoted(db).users = {promote(u) : u \in columns.users}
    BY <1>3, <1>4 DEF PromoteLegacyBearerAdmins, TableShapes
  <1>6. \A u \in UserRows :
          /\ reset(u) \in UserRows
          /\ reset(u).principal = u.principal /\ promote(u).principal = u.principal
          /\ u.principal[1] = "local_account" => promote(u) = u
    BY DEF UserRows, Hashes
  <1>. HIDE DEF reset, promote
  <1>7. ASSUME NEW u \in UserRows, u.principal[1] = "local_account"
        PROVE  u \in columns.users <=> u \in created.users
    BY <1>1, <1>2, <1>3, <1>6, <1>7
  <1>8. columns.users \subseteq UserRows
    BY <1>3 DEF TableShapes
  <1>9. ASSUME NEW u \in UserRows, u.principal[1] = "local_account"
        PROVE  u \in Promoted(db).users <=> u \in columns.users
    BY <1>5, <1>6, <1>8, <1>9
  <1>. QED
    BY <1>1, <1>3, <1>5, <1>7, <1>9

(* The role an account of a table of accounts ought to have.               *)
Role(accounts, i) ==
  IF \A j \in DOMAIN accounts.rows : ~(accounts.flags /\ accounts.rows[j].admin)
  THEN i = 1
  ELSE accounts.rows[i].admin

LEMMA AccountsAreMigrated ==
  ASSUME NEW db \in TableShapes, db.accounts # NoAccounts,
         NEW i \in DOMAIN db.accounts.rows
  PROVE  LET new == MigrateLegacyLocalAccounts(db)
             name == db.accounts.rows[i].name
         IN /\ ActiveAccount(db, name) = {} =>
                 \E u \in ActiveAccount(new, name) :
                   u.hash = "legacy" /\ u.admin = Role(db.accounts, i)
            /\ ActiveAccount(new, name) # {}
  <1>. DEFINE rows == db.accounts.rows
              promoteOldest == ~db.accounts.flags \/ \A j \in DOMAIN rows : ~rows[j].admin
              role(j) == \/ db.accounts.flags /\ rows[j].admin
                         \/ promoteOldest /\ j = 1
              migrated(j) ==
                [principal |-> <<"local_account", rows[j].name>>, hash |-> "legacy",
                 admin |-> role(j), deleted |-> FALSE]
              unknown == {j \in DOMAIN rows : ActiveAccount(db, rows[j].name) = {}}
              new == MigrateLegacyLocalAccounts(db)
              name == rows[i].name
  <1>1. new.users = db.users \cup {migrated(j) : j \in unknown}
    <2>1. new = [db EXCEPT !.users = @ \cup {migrated(j) : j \in unknown}]
      BY DEF MigrateLegacyLocalAccounts
    <2>. HIDE DEF unknown, migrated, new
    <2>. QED
      BY <2>1 DEF TableShapes
  <1>2. role(i) = Role(db.accounts, i)
    <2>1. db.accounts \in [flags : BOOLEAN, rows : AccountLists]
      BY DEF TableShapes
    <2>2. \A j \in DOMAIN rows : rows[j].admin \in BOOLEAN
      BY <2>1, AccountListRows
    <2>. QED
      BY <2>1, <2>2 DEF Role
  <1>3. ASSUME ActiveAccount(db, name) = {}
        PROVE  migrated(i) \in ActiveAccount(new, name)
    BY <1>1, <1>3 DEF ActiveAccount, UserOf
  <1>4. migrated(i).hash = "legacy" /\ migrated(i).admin = role(i)
    OBVIOUS
  <1>5. ActiveAccount(db, name) \subseteq ActiveAccount(new, name)
    BY <1>1 DEF ActiveAccount, UserOf
  <1>. HIDE DEF migrated, role, new, name
  <1>6. \/ ActiveAccount(db, name) = {}
           /\ \E u \in ActiveAccount(new, name) :
                u.hash = "legacy" /\ u.admin = Role(db.accounts, i)
        \/ ActiveAccount(db, name) # {} /\ ActiveAccount(new, name) # {}
    BY <1>2, <1>3, <1>4, <1>5
  <1>. QED
    BY <1>6 DEF new, name

LEMMA SignInsAreMigrated ==
  ASSUME NEW db \in Shapes, Sound(db), ~NameIsTaken(db),
         NEW s \in Rows(db.signIns),
         NEW name, name = IF "user" \in DOMAIN s THEN s.user[2] ELSE s.name,
         NEW accounts \in TableShapes,
         LET staged == StageLegacyBrowserSessions(db)
         IN accounts.signIns = Rows(staged.signIns) /\ accounts.staged = staged.staged,
         NEW new,
         new.users = accounts.users,
         new.signIns = {r \in MigrateLegacyBrowserSessions(accounts).signIns :
                          r.user \in Subjects(accounts)},
         ActiveAccount(accounts, name) # {}
  PROVE  SignedInAs(new, s.token) = {<<"local_account", name>>}
  <1>. DEFINE rows == IF accounts.staged = NoTable THEN {} ELSE accounts.staged
              kept == {k \in rows : ActiveAccount(accounts, k.name) # {}}
              untouched == {r \in accounts.signIns : \A k \in kept : k.token # r.token}
              present(k) == [token |-> k.token, user |-> <<"local_account", k.name>>,
                             deleted |-> FALSE]
              principal == <<"local_account", name>>
  <1>1. MigrateLegacyBrowserSessions(accounts).signIns
          = untouched \cup {present(k) : k \in kept}
    BY DEF MigrateLegacyBrowserSessions, TableShapes
  <1>2. /\ principal \in Subjects(accounts)
        /\ \E u \in UserOf(new, principal) : ~u.deleted
    BY DEF ActiveAccount, UserOf, Subjects
  <1>. DEFINE Found(t) == {r \in new.signIns : /\ r.token = t
                                              /\ ~r.deleted
                                              /\ \E u \in UserOf(new, r.user) : ~u.deleted}
  <1>3. SignedInAs(new, s.token) = {r.user : r \in Found(s.token)}
    BY DEF SignedInAs
  <1>. HIDE DEF Found
  <1>4. CASE HasUserColumn(db.signIns)
    <2>1. StageLegacyBrowserSessions(db) = db
      BY <1>4 DEF StageLegacyBrowserSessions
    <2>2. rows = {}
      BY <2>1 DEF Sound, Rows
    <2>3. MigrateLegacyBrowserSessions(accounts).signIns = Rows(db.signIns)
      BY <1>1, <2>1, <2>2
    <2>4. s \in SignIns /\ \A r \in Rows(db.signIns) : r.token = s.token => r = s
      BY <1>4, LegacySignInsHaveNoUsers DEF Shapes, Maybe, SomeSignIns, Rows
    <2>5. s.user = principal /\ ~s.deleted
      <3>1. "user" \in DOMAIN s
        BY <2>4 DEF SignIns
      <3>2. s.user[1] = "local_account" /\ ~s.deleted /\ s.user[2] = name
        BY <3>1 DEF Sound
      <3>. QED
        BY <2>4, <3>2 DEF SignIns, Principals
    <2>. HIDE DEF principal, rows, kept, untouched, present
    <2>6. new.signIns = {r \in Rows(db.signIns) : r.user \in Subjects(accounts)}
      BY <2>3
    <2>7. Found(s.token) = {s}
      BY <1>2, <2>4, <2>5, <2>6 DEF Found
    <2>. QED
      BY <1>3, <2>5, <2>7 DEF principal
  <1>5. CASE ~HasUserColumn(db.signIns)
    <2>1. /\ accounts.signIns = {}
          /\ accounts.staged = db.signIns /\ db.signIns # NoTable
      <3>1. db.signIns # NoTable /\ db.staged = NoTable
        BY <1>5 DEF Rows, NameIsTaken
      <3>2. StageLegacyBrowserSessions(db) = [db EXCEPT !.staged = db.signIns, !.signIns = NoTable]
        BY <1>5, <3>1 DEF StageLegacyBrowserSessions
      <3>3. /\ StageLegacyBrowserSessions(db).signIns = NoTable
            /\ StageLegacyBrowserSessions(db).staged = db.signIns
        BY <3>2 DEF Shapes
      <3>. QED
        BY <3>1, <3>3 DEF Rows
    <2>2. /\ db.signIns \subseteq LegacySignIns
          /\ \A r \in db.signIns : r.token = s.token => r = s
          /\ s \in db.signIns
      <3>1. db.signIns \in SomeSignIns(LegacySignIns)
        <4>1. CASE db.signIns \in SomeSignIns(SignIns)
          BY <1>5, <4>1 DEF HasUserColumn, SomeSignIns, SignIns
        <4>. QED
          BY <2>1, <4>1 DEF Shapes, Maybe
      <3>. QED
        BY <2>1, <3>1 DEF SomeSignIns, Rows
    <2>3. name = s.name
      BY <2>2 DEF LegacySignIns
    <2>4. s \in kept /\ untouched = {}
      BY <2>1, <2>2, <2>3
    <2>5. present(s).token = s.token /\ present(s).user = principal /\ ~present(s).deleted
      BY <2>3
    <2>6. \A k \in kept : present(k).token = s.token => k = s
      BY <2>1, <2>2
    <2>7. MigrateLegacyBrowserSessions(accounts).signIns = {present(k) : k \in kept}
      BY <1>1, <2>4
    <2>. HIDE DEF principal, rows, kept, untouched, present
    <2>8. new.signIns = {r \in {present(k) : k \in kept} : r.user \in Subjects(accounts)}
      BY <2>7
    <2>9. Found(s.token) = {present(s)}
      <3>1. present(s) \in Found(s.token)
        BY <1>2, <2>4, <2>5, <2>8 DEF Found
      <3>2. ASSUME NEW r \in Found(s.token)
            PROVE  r = present(s)
        BY <2>6, <2>8 DEF Found
      <3>. QED
        BY <3>1, <3>2
    <2>. QED
      BY <1>3, <2>5, <2>9 DEF principal
  <1>. QED
    BY <1>4, <1>5

(* The first migration of what an earlier version left.                    *)
LEMMA FirstMigrationGivesWhatIsOwed ==
  ASSUME NEW db \in Shapes, Sound(db), ~NameIsTaken(db),
         StageLegacyBrowserSessions(db) \in StagedShapes
  PROVE  Gives(Migrated(StageLegacyBrowserSessions(db)), Owed(db))
  <1>. DEFINE staged == StageLegacyBrowserSessions(db)
              promoted == Promoted(staged)
              accounts == MigrateLegacyLocalAccounts(promoted)
              new == Migrated(staged)
              old == IF db.accounts = NoAccounts THEN <<>> ELSE db.accounts.rows
              present == {u \in Rows(db.users) : u.principal[1] = "local_account"}
  <1>1. /\ staged.users = db.users /\ staged.accounts = db.accounts
        /\ staged.authColumns = db.authColumns
    BY DEF StageLegacyBrowserSessions, NameIsTaken, Shapes
  <1>2. /\ \A u \in UserRows : u.principal[1] = "local_account" =>
              (u \in promoted.users <=> u \in Rows(db.users))
        /\ promoted.accounts = db.accounts /\ promoted.staged = staged.staged
        /\ promoted.signIns = Rows(staged.signIns)
    BY <1>1, PromotionKeepsAccounts DEF Sound
  <1>3. promoted \in TableShapes
    BY PromotedShapes
  <1>4. /\ accounts \in TableShapes
        /\ new.users = accounts.users
        /\ new.signIns = {s \in MigrateLegacyBrowserSessions(accounts).signIns :
                            s.user \in Subjects(accounts)}
    BY MigratingShapes
  <1>. HIDE DEF staged
  <1>5. accounts.signIns = promoted.signIns /\ accounts.staged = promoted.staged
        /\ promoted.users \subseteq accounts.users
    <2>. HIDE DEF promoted
    <2>. QED
      BY <1>3 DEF MigrateLegacyLocalAccounts, TableShapes
  <1>6. db.users # NoTable => db.users \subseteq UserRows
    BY DEF Shapes, Maybe
  <1>. HIDE DEF promoted, accounts, new
  <1>7. \A n : ActiveAccount(new, n) = ActiveAccount(accounts, n)
    BY <1>4 DEF ActiveAccount, UserOf
  <1>8. ASSUME NEW u \in present
        PROVE  /\ u \in ActiveAccount(promoted, u.principal[2])
               /\ u \in ActiveAccount(accounts, u.principal[2])
    <2>1. u \in UserRows /\ u \in promoted.users /\ ~u.deleted
      BY <1>2, <1>6 DEF Sound, Rows
    <2>2. u.principal = <<"local_account", u.principal[2]>>
      BY <2>1 DEF UserRows, Principals
    <2>. QED
      BY <1>5, <2>1, <2>2 DEF ActiveAccount, UserOf
  <1>9. ASSUME NEW i \in DOMAIN old
        PROVE  /\ ActiveAccount(promoted, old[i].name) = {} =>
                    \E u \in ActiveAccount(accounts, old[i].name) :
                      u.hash = "legacy" /\ u.admin = Role(db.accounts, i)
               /\ ActiveAccount(accounts, old[i].name) # {}
    <2>1. db.accounts # NoAccounts /\ old = db.accounts.rows
      OBVIOUS
    <2>. QED
      BY <1>2, <1>3, <2>1, AccountsAreMigrated DEF accounts
  <1>10. ASSUME NEW i \in DOMAIN old, \A u \in present : u.principal[2] # old[i].name
         PROVE  ActiveAccount(promoted, old[i].name) = {}
    <2>1. promoted.users \subseteq UserRows
      BY <1>3 DEF TableShapes
    <2>2. ASSUME NEW u \in ActiveAccount(promoted, old[i].name)
          PROVE  FALSE
      <3>1. u \in UserRows /\ u \in promoted.users
            /\ u.principal[1] = "local_account" /\ u.principal[2] = old[i].name
        BY <2>1 DEF ActiveAccount, UserOf
      <3>. QED
        BY <1>2, <1>10, <3>1
    <2>. QED
      BY <2>2
  <1>. HIDE DEF old, present
  <1>. DEFINE dues == Owed(db)
              names == {u.principal[2] : u \in present} \cup {old[i].name : i \in DOMAIN old}
              holder(s) == IF "user" \in DOMAIN s THEN s.user[2] ELSE s.name
  <1>11. db # Missing
    BY MarkersAssumption
  <1>12. dues.accounts =
           {<<u.principal[2], u.hash, u.admin>> : u \in present}
           \cup {<<old[i].name, "legacy", Role(db.accounts, i)>> :
                   i \in {i \in DOMAIN old : \A u \in present :
                            u.principal[2] # old[i].name}}
    BY <1>11 DEF Owed, present, old, Role, Rows
  <1>13. dues.signIns = {<<s.token, holder(s)>> :
                           s \in {s \in Rows(db.signIns) : holder(s) \in names}}
    BY <1>11 DEF Owed, present, old, Rows
  <1>. HIDE DEF dues
  <1>14. ASSUME NEW a \in dues.accounts
         PROVE  \E u \in ActiveAccount(new, a[1]) : u.hash = a[2] /\ u.admin = a[3]
    <2>1. CASE a \in {<<u.principal[2], u.hash, u.admin>> : u \in present}
      BY <1>7, <1>8, <2>1
    <2>2. CASE a \notin {<<u.principal[2], u.hash, u.admin>> : u \in present}
      <3>1. PICK i \in DOMAIN old :
              /\ \A u \in present : u.principal[2] # old[i].name
              /\ a = <<old[i].name, "legacy", Role(db.accounts, i)>>
        BY <1>12, <2>2
      <3>. QED
        BY <1>7, <1>9, <1>10, <3>1
    <2>. QED
      BY <2>1, <2>2
  <1>15. ASSUME NEW s \in Rows(db.signIns), holder(s) \in names
         PROVE  SignedInAs(new, s.token) = {<<"local_account", holder(s)>>}
    <2>1. ActiveAccount(accounts, holder(s)) # {}
      BY <1>8, <1>9, <1>15
    <2>. QED
      BY <1>2, <1>4, <1>5, <2>1, SignInsAreMigrated DEF staged
  <1>. HIDE DEF names, holder
  <1>16. ASSUME NEW d \in dues.signIns
         PROVE  SignedInAs(new, d[1]) = {<<"local_account", d[2]>>}
    BY <1>13, <1>15
  <1>. QED
    BY <1>14, <1>16 DEF Gives, dues, new, staged

-----------------------------------------------------------------------------
(* The process                                                             *)

(* The loop of the server: no connection without a server, no task before  *)
(* there is one; whoever was refused did nothing since.                    *)
LoopInv ==
  /\ starts \in 0..MaxStarts
  /\ stage \in Stages
  /\ outcome \in Outcomes
  /\ ready \in 0..MaxProbes + 1
  /\ errors \in 0..MaxAcceptErrors + 1
  /\ signal \in BOOLEAN
  /\ connection \in [Connections -> [phase : Phases, told : BOOLEAN]]
  /\ task \in [Connections -> Tasks]
  /\ stage \in {"bound", "opened", "built", "serving", "backing"} =>
       errors <= MaxAcceptErrors
  /\ \A c \in Connections : connection[c].phase # "none" => Serving
  /\ stage \in {"down", "bound", "opened", "built"} => task = NoTasks
  /\ outcome = "refused" => stage \in {"returned", "down"} /\ task = NoTasks

(* Somebody may be using the store.                                        *)
InUse == stage \notin {"down", "bound", "opened", "returned"} \/ task # NoTasks

(* The file has not been migrated yet.                                     *)
Untouched ==
  /\ file \in Origins \cup {Blank}
  /\ owed = Owed(IF file = Blank THEN Missing ELSE file)
  /\ ended = {}

(* What is due of the present file.                                        *)
Due ==
  /\ \A a \in owed.accounts : a[1] \notin ended =>
       \E u \in ActiveAccount(file, a[1]) : u.hash = a[2] /\ u.admin = a[3]
  /\ \A s \in owed.signIns : {s[1], s[2]} \cap ended = {} =>
       SignedInAs(file, s[1]) = {<<"local_account", s[2]>>}
  /\ \A t \in ended \cap Tokens : SignedInAs(file, t) = {}
  /\ \A n \in ended \cap Names : ActiveAccount(file, n) = {}

TasksHaveTables ==
  \A c \in Connections :
    /\ ~task[c].linked => task[c].hasSchema
    /\ task[c].step = "ready" /\ task[c].linked => FileHasSchema

FilesInv ==
  /\ file \in {Missing, Blank} \cup Origins \/ IsPresentSchema(file)
  /\ ended \subseteq Tokens \cup Names
  /\ removals \in 0..MaxRemovals
  /\ outcome = "refused" => Collides(file)
  /\ InUse => file \in {Missing, Blank} \/ IsPresentSchema(file)
  /\ removals = 0 => \/ ~InUse /\ Untouched
                     \/ IsPresentSchema(file) /\ Due
  /\ removals <= 1 => TasksHaveTables

ProcessInv == LoopInv /\ FilesInv

LEMMA NoTaskIsTyped ==
  /\ NoTask \in Tasks /\ NoTask.linked = TRUE /\ NoTask.hasSchema = FALSE
  /\ NoTask.step = "none"
  /\ NoTasks \in [Connections -> Tasks]
  /\ \A c \in Connections : NoTasks[c] = NoTask
  /\ NoConnections \in [Connections -> [phase : Phases, told : BOOLEAN]]
  /\ \A c \in Connections : NoConnections[c].phase = "none"
  BY DEF NoTask, Tasks, NoTasks, NoConnections, Phases

(* What the connections and tasks do leaves the loop alone.                *)
LEMMA LoopStands ==
  ASSUME LoopInv, UNCHANGED loopVars,
         task # NoTasks \/ stage \in {"serving", "backing", "draining"} \/ task' = task,
         task' \in [Connections -> Tasks],
         connection' \in [Connections -> [phase : Phases, told : BOOLEAN]],
         \A c \in Connections : connection'[c].phase # "none" => Serving
  PROVE  LoopInv'
  BY DEF LoopInv, loopVars, Serving

(* One connection goes on.                                                 *)
LEMMA ConnectionsGoOn ==
  ASSUME LoopInv, UNCHANGED <<loopVars, task>>, NEW c \in Connections, Serving,
         NEW after \in [phase : Phases, told : BOOLEAN],
         connection' = [connection EXCEPT ![c] = after]
  PROVE  LoopInv'
  <1>1. /\ connection' \in [Connections -> [phase : Phases, told : BOOLEAN]]
        /\ task' \in [Connections -> Tasks]
    BY DEF LoopInv
  <1>. QED
    BY <1>1, LoopStands

LEMMA Moves ==
  ASSUME LoopInv, NEW c \in Connections
  PROVE  /\ \A phase \in Phases : Move(c, phase) =>
              \E after \in [phase : Phases, told : BOOLEAN] :
                connection' = [connection EXCEPT ![c] = after]
         /\ End(c) => \E after \in [phase : Phases, told : BOOLEAN] :
              connection' = [connection EXCEPT ![c] = after]
  <1>1. connection[c] \in [phase : Phases, told : BOOLEAN]
    BY DEF LoopInv
  <1>2. ASSUME NEW phase \in Phases, Move(c, phase)
        PROVE  /\ [connection[c] EXCEPT !.phase = phase] \in [phase : Phases, told : BOOLEAN]
               /\ connection' = [connection EXCEPT ![c] = [connection[c] EXCEPT !.phase = phase]]
    BY <1>1, <1>2 DEF Move
  <1>3. ASSUME End(c)
        PROVE  /\ [phase |-> "none", told |-> FALSE] \in [phase : Phases, told : BOOLEAN]
               /\ connection' = [connection EXCEPT ![c] = [phase |-> "none", told |-> FALSE]]
    BY <1>3 DEF End, Phases
  <1>. QED
    BY <1>2, <1>3

LEMMA LoopStep ==
  ASSUME LoopInv, ProcessNext
  PROVE  LoopInv'
  <1>. USE ProcessAssumption, NoTaskIsTyped
  <1>. DEFINE Typed == [phase : Phases, told : BOOLEAN]
  <1>0. \A c \in Connections : /\ connection[c] \in Typed
                               /\ connection[c].phase \in Phases /\ connection[c].told \in BOOLEAN
                               /\ task[c] \in Tasks
    BY DEF LoopInv
  <1>1. CASE Bind
    <2>1. \A c \in Connections : connection'[c].phase = "none"
      BY <1>1 DEF LoopInv, Bind, Serving, Phases
    <2>2. starts' \in 0..MaxStarts /\ 0 \in 0..MaxAcceptErrors + 1 /\ 0 \in 0..MaxProbes + 1
      BY <1>1 DEF LoopInv, Bind
    <2>3. task' = NoTasks
      BY <1>1 DEF LoopInv, Bind
    <2>4. errors' <= MaxAcceptErrors
      BY <1>1 DEF Bind
    <2>. QED
      BY <1>1, <2>1, <2>2, <2>3, <2>4 DEF LoopInv, Bind, Stages, Outcomes
  <1>2. CASE OpenFile
    BY <1>2 DEF LoopInv, OpenFile, Stages, Outcomes, Serving, StopWith,
           loopVars, storeVars
  <1>3. CASE InitializeStore
    BY <1>3 DEF LoopInv, InitializeStore, Stages, Outcomes, Serving, StopWith,
           loopVars, storeVars
  <1>4. CASE StartServing
    <2>1. task' = NoTasks /\ \A c \in Connections : connection'[c].phase = "none"
      BY <1>4 DEF LoopInv, StartServing, Serving
    <2>2. /\ stage' \in {"serving", "returned"} /\ outcome' \in {"failed", outcome}
          /\ outcome # "refused" /\ errors' <= MaxAcceptErrors
      BY <1>4 DEF LoopInv, StartServing
    <2>. QED
      BY <1>4, <2>1, <2>2 DEF LoopInv, StartServing, Stages, Outcomes
  <1>5. CASE ProbeFails
    BY <1>5 DEF LoopInv, ProbeFails, Stages, Outcomes, Serving, StopWith,
           loopVars, storeVars
  <1>6. CASE ProbeSucceeds
    BY <1>6 DEF LoopInv, ProbeSucceeds, Stages, Outcomes, Serving, StopWith,
           loopVars, storeVars
  <1>7. CASE AcceptFailsTransiently
    BY <1>7 DEF LoopInv, AcceptFailsTransiently, Stages, Outcomes, Serving, StopWith,
           loopVars, storeVars
  <1>8. CASE AcceptFails
    BY <1>8 DEF LoopInv, AcceptFails, Stages, Outcomes, Serving, StopWith,
           loopVars, storeVars
  <1>9. CASE BackoffEnds
    BY <1>9 DEF LoopInv, BackoffEnds, Stages, Outcomes, Serving, StopWith,
           loopVars, storeVars
  <1>10. CASE ShutdownResolves
    BY <1>10 DEF LoopInv, ShutdownResolves, Stages, Outcomes, Serving, StopWith,
           loopVars, storeVars
  <1>11. CASE SeeShutdown
    BY <1>11 DEF LoopInv, SeeShutdown, Stages, Outcomes, Serving, StopWith,
           loopVars, storeVars
  <1>12. CASE Drain
    BY <1>12 DEF LoopInv, Drain, Stages, Outcomes, Serving, StopWith,
           loopVars, storeVars
  <1>13. CASE Exit
    BY <1>13 DEF LoopInv, Exit, Stages, Outcomes, Serving, StopWith,
           loopVars, storeVars
  <1>14. CASE Kill
    BY <1>14 DEF LoopInv, Kill, Stages, Outcomes, Serving, StopWith,
           loopVars, storeVars
  <1>15. CASE DeleteFile
    <2>1. task' \in [Connections -> Tasks]
      <3>1. FileHasSchema \in BOOLEAN
        BY DEF FileHasSchema
      <3>2. ASSUME NEW t \in Tasks, NEW has \in BOOLEAN
            PROVE  [t EXCEPT !.linked = FALSE, !.hasSchema = has] \in Tasks
        BY DEF Tasks
      <3>. HIDE DEF FileHasSchema
      <3>3. \A c \in Connections :
              [task[c] EXCEPT !.linked = FALSE, !.hasSchema = FileHasSchema] \in Tasks
        BY <1>0, <3>1, <3>2
      <3>. QED
        BY <1>0, <1>15, <3>3 DEF DeleteFile
    <2>2. UNCHANGED <<loopVars, connection>> /\ stage \in {"serving", "backing", "draining"}
      BY <1>15 DEF DeleteFile
    <2>3. /\ connection' \in [Connections -> Typed]
          /\ \A c \in Connections : connection'[c].phase # "none" => Serving
      BY <2>2 DEF LoopInv
    <2>. QED
      BY <2>1, <2>2, <2>3, LoopStands
  <1>16. ASSUME NEW c \in Connections, ConnectionStep(c)
         PROVE  LoopInv'
    <2>0. connection[c].phase # "none" => Serving
      BY DEF LoopInv
    <2>1. ASSUME NEW after \in Typed, connection[c].phase # "none",
                 UNCHANGED <<loopVars, task>>, connection' = [connection EXCEPT ![c] = after]
          PROVE  LoopInv'
      BY <2>0, <2>1, ConnectionsGoOn
    <2>2. CASE Accept(c)
      BY <2>2 DEF LoopInv, Accept, Phases, Serving, storeVars
    <2>3. CASE Handshake(c)
      BY <1>0, <2>1, <2>3, Moves DEF Handshake, Phases
    <2>4. CASE OpenStream(c)
      BY <1>0, <2>1, <2>4, Moves DEF OpenStream, Phases
    <2>5. CASE ClientLeaves(c)
      BY <1>0, <2>1, <2>5, Moves DEF ClientLeaves, Phases
    <2>6. CASE NoticeShutdown(c)
      <3>1. connection[c].phase # "none" /\ UNCHANGED <<loopVars, task>>
        BY <2>6 DEF NoticeShutdown
      <3>2. CASE connection[c].phase = "idle"
        BY <2>1, <2>6, <3>1, <3>2, Moves DEF NoticeShutdown
      <3>3. CASE connection[c].phase # "idle"
        <4>1. connection' = [connection EXCEPT ![c] = [connection[c] EXCEPT !.told = TRUE]]
          BY <1>0, <2>6, <3>3 DEF NoticeShutdown, LoopInv
        <4>2. [connection[c] EXCEPT !.told = TRUE] \in Typed
          BY <1>0
        <4>. QED
          BY <2>1, <3>1, <4>1, <4>2
      <3>. QED
        BY <3>2, <3>3
    <2>7. CASE GraceEnds(c)
      <3>1. \E after \in Typed : connection' = [connection EXCEPT ![c] = after]
        BY <2>7, Moves DEF GraceEnds
      <3>2. connection' \in [Connections -> Typed]
        BY <3>1 DEF LoopInv
      <3>3. \A d \in Connections : connection'[d].phase # "none" => Serving
        BY <2>7 DEF LoopInv, GraceEnds, End
      <3>4. UNCHANGED <<loopVars, task>>
        BY <2>7 DEF GraceEnds
      <3>5. task' \in [Connections -> Tasks]
        BY <3>4 DEF LoopInv
      <3>. QED
        BY <3>2, <3>3, <3>4, <3>5, LoopStands
    <2>. QED
      BY <1>16, <2>2, <2>3, <2>4, <2>5, <2>6, <2>7 DEF ConnectionStep
  <1>17. ASSUME NEW c \in Connections, TaskStep(c)
         PROVE  LoopInv'
    <2>0. NeedsSchema \in BOOLEAN /\ FileHasSchema \in BOOLEAN
      BY DEF NeedsSchema, FileHasSchema
    <2>1. CASE Request(c)
      <3>1. task' \in [Connections -> Tasks]
        BY <2>0, <2>1 DEF LoopInv, Request, NoTask, Tasks
      <3>2. Serving /\ stage \notin {"down", "bound", "opened", "built", "returned"}
        BY <2>1 DEF LoopInv, Request, Serving
      <3>. QED
        BY <2>1, <3>1, <3>2 DEF LoopInv, Request, Move, Phases, Serving, loopVars
    <2>. DEFINE Prepared == /\ task[c].step # "none"
                            /\ task' \in [Connections -> Tasks]
                            /\ UNCHANGED <<loopVars, connection>>
    <2>2. ASSUME task[c].step # "none"
          PROVE  task # NoTasks
      BY <2>2
    <2>3. ASSUME Prepared
          PROVE  LoopInv'
      <3>1. /\ connection' \in [Connections -> Typed]
            /\ \A d \in Connections : connection'[d].phase # "none" => Serving
        BY <2>3 DEF LoopInv
      <3>. QED
        BY <2>2, <2>3, <3>1, LoopStands
    <2>4. CASE OpenRawConnection(c)
      <3>1. task' \in [Connections -> Tasks]
        <4>1. [task[c] EXCEPT !.step = "opened"] \in Tasks
          BY <1>0 DEF Tasks
        <4>2. task' = [task EXCEPT ![c] = [task[c] EXCEPT !.step = "opened"]]
          BY <2>4 DEF OpenRawConnection
        <4>. QED
          BY <4>1, <4>2 DEF LoopInv
      <3>. QED
        BY <2>3, <2>4, <3>1 DEF OpenRawConnection
    <2>5. CASE PrepareConnection(c)
      <3>1. task' \in [Connections -> Tasks]
        <4>1. /\ [task[c] EXCEPT !.step = "ready"] \in Tasks
              /\ [task[c] EXCEPT !.step = "ready", !.hasSchema = TRUE] \in Tasks
          BY <1>0 DEF Tasks
        <4>2. \/ task' = [task EXCEPT ![c] = [task[c] EXCEPT !.step = "ready"]]
              \/ task' = [task EXCEPT ![c] =
                            [task[c] EXCEPT !.step = "ready", !.hasSchema = TRUE]]
          BY <1>0, <2>5 DEF LoopInv, PrepareConnection, InitializeConnectionSchema, Tasks
        <4>. QED
          BY <4>1, <4>2 DEF LoopInv
      <3>. QED
        BY <2>3, <2>5, <3>1 DEF PrepareConnection
    <2>6. ASSUME NEW db, Work(c, db)
          PROVE  LoopInv'
      <3>1. task' \in [Connections -> Tasks] /\ task[c].step = "ready"
        BY <2>6 DEF LoopInv, Work
      <3>2. CASE connection[c].phase = "busy"
        <4>1. Serving /\ UNCHANGED loopVars
          BY <2>6, <3>2 DEF Work, LoopInv
        <4>2. \E after \in Typed : connection' = [connection EXCEPT ![c] = after]
          BY <2>6, <3>2, Moves DEF Work, Phases
        <4>3. /\ connection' \in [Connections -> Typed]
              /\ \A d \in Connections : connection'[d].phase # "none" => Serving
          BY <4>1, <4>2 DEF LoopInv
        <4>. QED
          BY <2>2, <3>1, <4>1, <4>3, LoopStands
      <3>3. CASE connection[c].phase # "busy"
        BY <2>3, <2>6, <3>1, <3>3 DEF Work
      <3>. QED
        BY <3>2, <3>3
    <2>. QED
      BY <1>17, <2>1, <2>4, <2>5, <2>6 DEF TaskStep, Answer, SignOutWork, DeleteAccountWork
  <1>. QED
    BY <1>1, <1>2, <1>3, <1>4, <1>5, <1>6, <1>7, <1>8, <1>9, <1>10, <1>11, <1>12, <1>13,
       <1>14, <1>15, <1>16, <1>17 DEF ProcessNext

-----------------------------------------------------------------------------
(* The file                                                                *)

LEMMA OriginsAreShaped ==
  ASSUME NEW db \in Origins, db # Missing
  PROVE  db \in Shapes /\ Sound(db)
  BY ProcessAssumption, EarlierFilesAreShaped, EarlierFilesAreSound

(* A step that leaves the file as it is and makes nobody use it.           *)
LEMMA FilesStand ==
  ASSUME FilesInv, UNCHANGED storeVars, InUse' => InUse,
         outcome' = "refused" => outcome = "refused",
         task' \in {task, NoTasks}
  PROVE  FilesInv'
  <1>1. TasksHaveTables => TasksHaveTables'
    BY NoTaskIsTyped DEF TasksHaveTables, FileHasSchema, storeVars
  <1>2. (Untouched <=> Untouched') /\ (Due <=> Due')
    BY DEF Untouched, Due, storeVars
  <1>. QED
    BY <1>1, <1>2 DEF FilesInv, Collides, storeVars

(* Two files that know the same are due the same.                          *)
LEMMA DueStands ==
  ASSUME NEW new, LookupsAgree(new, file), Due, file' = new, UNCHANGED <<owed, ended>>
  PROVE  Due'
  BY DEF Due, LookupsAgree

(* The first start: everything that is owed is given.                      *)
LEMMA FirstStart ==
  ASSUME Untouched, file' = InitializeSchema(file), IsPresentSchema(InitializeSchema(file)),
         UNCHANGED <<owed, ended>>
  PROVE  Due'
  <1>1. Gives(InitializeSchema(file), owed)
    <2>1. CASE file \in {Missing, Blank}
      <3>1. owed = Owed(Missing)
        BY <2>1 DEF Untouched
      <3>. QED
        BY <3>1 DEF Owed, Gives
    <2>2. CASE file \notin {Missing, Blank}
      <3>1. file \in Shapes /\ Sound(file) /\ owed = Owed(file)
        BY <2>2, OriginsAreShaped DEF Untouched
      <3>2. InitializeSchema(file) # Refused
        BY MarkersAreNoDatabases
      <3>3. /\ ~NameIsTaken(file)
            /\ StageLegacyBrowserSessions(file) \in StagedShapes
            /\ InitializeSchema(file) = Migrated(StageLegacyBrowserSessions(file))
        BY <3>1, <3>2, InitializingShapes
      <3>. QED
        BY <3>1, <3>3, FirstMigrationGivesWhatIsOwed
    <2>. QED
      BY <2>1, <2>2
  <1>2. owed' = owed /\ ended' = {}
    BY DEF Untouched
  <1>. HIDE DEF Untouched
  <1>. QED
    BY <1>1, <1>2 DEF Due, Gives

(* What a start, or a request that finds no schema, makes of the file.     *)
LEMMA Initialized ==
  ASSUME FilesInv, file' = InitializeSchema(file), InitializeSchema(file) # Refused,
         UNCHANGED <<owed, ended>>, removals = 0
  PROVE  IsPresentSchema(file)' /\ Due'
  <1>1. CASE Untouched
    <2>1. file \in {Missing, Blank} \/ file \in Shapes
      BY <1>1, OriginsAreShaped DEF Untouched
    <2>2. IsPresentSchema(InitializeSchema(file))
      BY <2>1, InitializingShapes
    <2>. QED
      BY <1>1, <2>2, FirstStart
  <1>2. CASE IsPresentSchema(file) /\ Due
    BY <1>2, PresentFilesStayPresent, DueStands
  <1>. QED
    BY <1>1, <1>2 DEF FilesInv

LEMMA OpenedFilesInitialize ==
  ASSUME NEW db, db \in {Missing, Blank} \/ IsPresentSchema(db)
  PROVE  IsPresentSchema(InitializeSchema(db))
  <1>1. CASE db \in {Missing, Blank}
    <2>1. db \notin Shapes
      BY <1>1, MarkersAssumption
    <2>. QED
      BY <1>1, <2>1, InitializingShapes
  <1>2. CASE IsPresentSchema(db)
    BY <1>2, PresentFilesStayPresent
  <1>. QED
    BY <1>1, <1>2

(* Starting.                                                               *)
LEMMA OpeningKeeps ==
  ASSUME LoopInv, FilesInv, OpenFile
  PROVE  FilesInv'
  <1>1. task = NoTasks /\ task' = NoTasks /\ ~InUse' /\ outcome' # "refused"
    BY DEF LoopInv, OpenFile, InUse
  <1>2. TasksHaveTables'
    BY <1>1, NoTaskIsTyped DEF TasksHaveTables
  <1>3. CASE file = Missing
    <2>1. ~IsPresentSchema(file)
      BY <1>3, MarkersAreNoDatabases
    <2>2. Missing # Blank
      BY SchemaAssumption
    <2>3. removals = 0 => Untouched'
      BY <1>3, <2>1, <2>2 DEF FilesInv, OpenFile, Untouched
    <2>. QED
      BY <1>1, <1>2, <1>3, <2>3 DEF FilesInv, OpenFile
  <1>4. CASE file # Missing
    <2>1. UNCHANGED storeVars
      BY <1>4 DEF OpenFile, storeVars
    <2>. QED
      BY <1>1, <2>1, FilesStand
  <1>. QED
    BY <1>3, <1>4

LEMMA StartingKeeps ==
  ASSUME LoopInv, FilesInv, InitializeStore
  PROVE  FilesInv'
  <1>1. task = NoTasks /\ task' = NoTasks /\ outcome # "refused" /\ file # Missing
    BY DEF LoopInv, InitializeStore
  <1>2. TasksHaveTables'
    BY <1>1, NoTaskIsTyped DEF TasksHaveTables
  <1>3. file \in {Missing, Blank} \/ file \in Shapes
    <2>1. IsPresentSchema(file) => file \in Shapes
      BY DEF IsPresentSchema, Shapes, Maybe
    <2>. QED
      BY <2>1, OriginsAreShaped DEF FilesInv
  <1>4. CASE InitializeSchema(file) = Refused
    <2>1. ~InUse' /\ UNCHANGED storeVars
      BY <1>1, <1>4 DEF InitializeStore, InUse, storeVars
    <2>2. Collides(file)'
      <3>1. IsPresentSchema(InitializeSchema(file)) => FALSE
        BY <1>4, MarkersAreNoDatabases
      <3>2. NameIsTaken(file)
        BY <1>3, <3>1, InitializingShapes
      <3>. QED
        BY <1>1, <2>1, <3>2 DEF Collides, NameIsTaken, storeVars
    <2>3. (Untouched <=> Untouched') /\ (Due <=> Due')
      BY <2>1 DEF Untouched, Due, storeVars
    <2>. QED
      BY <1>2, <2>1, <2>2, <2>3 DEF FilesInv, storeVars
  <1>5. CASE InitializeSchema(file) # Refused
    <2>1. /\ file' = InitializeSchema(file) /\ UNCHANGED <<owed, ended, removals>>
          /\ outcome' # "refused"
      BY <1>1, <1>5 DEF InitializeStore
    <2>2. IsPresentSchema(file)'
      BY <1>3, <1>5, <2>1, InitializingShapes
    <2>3. removals = 0 => Due'
      BY <1>5, <2>1, Initialized
    <2>. QED
      BY <1>2, <2>1, <2>2, <2>3 DEF FilesInv
  <1>. QED
    BY <1>4, <1>5

(* Requests.                                                               *)
LEMMA RequestingKeeps ==
  ASSUME LoopInv, FilesInv, NEW c \in Connections, Request(c)
  PROVE  FilesInv'
  <1>1. InUse /\ outcome' # "refused" /\ UNCHANGED storeVars
    BY DEF LoopInv, Request, InUse, Serving, loopVars
  <1>2. TasksHaveTables => TasksHaveTables'
    <2>1. /\ task' \in [Connections -> Tasks]
          /\ task'[c].linked /\ task'[c].step # "ready"
          /\ \A d \in Connections \ {c} : task'[d] = task[d]
      <3>. DEFINE asked == [NoTask EXCEPT !.step = "inspected", !.needsSchema = NeedsSchema]
      <3>1. asked \in Tasks /\ asked.linked = TRUE /\ asked.step = "inspected"
        <4>1. NeedsSchema \in BOOLEAN
          BY DEF NeedsSchema
        <4>2. ASSUME NEW needs \in BOOLEAN, NEW asks,
                     asks = [NoTask EXCEPT !.step = "inspected", !.needsSchema = needs]
              PROVE  asks \in Tasks /\ asks.linked = TRUE /\ asks.step = "inspected"
          BY <4>2 DEF NoTask, Tasks
        <4>. HIDE DEF NeedsSchema
        <4>. QED
          BY <4>1, <4>2
      <3>2. task' = [task EXCEPT ![c] = asked]
        BY DEF Request
      <3>. HIDE DEF asked
      <3>. QED
        BY <3>1, <3>2 DEF LoopInv
    <2>. QED
      BY <1>1, <2>1 DEF TasksHaveTables, FileHasSchema, storeVars
  <1>3. (Untouched <=> Untouched') /\ (Due <=> Due')
    BY <1>1 DEF Untouched, Due, storeVars
  <1>. QED
    BY <1>1, <1>2, <1>3 DEF FilesInv, storeVars

(* Who has a task that is past its look at the file.                       *)
LEMMA WorkersAreServed ==
  ASSUME LoopInv, FilesInv, NEW c \in Connections, task[c].step # "none"
  PROVE  /\ InUse /\ outcome # "refused"
         /\ file \in {Missing, Blank} \/ IsPresentSchema(file)
         /\ removals = 0 => IsPresentSchema(file) /\ Due
  <1>1. task # NoTasks
    BY NoTaskIsTyped
  <1>. QED
    BY <1>1 DEF LoopInv, FilesInv, InUse

LEMMA OpeningAgainKeeps ==
  ASSUME LoopInv, FilesInv, NEW c \in Connections, OpenRawConnection(c)
  PROVE  FilesInv'
  <1>1. /\ InUse /\ outcome' # "refused"
        /\ file \in {Missing, Blank} \/ IsPresentSchema(file)
        /\ removals = 0 => IsPresentSchema(file) /\ Due
        /\ UNCHANGED <<owed, ended, removals>>
        /\ file' = IF file = Missing THEN Blank ELSE file
    BY WorkersAreServed DEF OpenRawConnection, loopVars
  <1>2. /\ removals' = 0 => IsPresentSchema(file)' /\ Due'
        /\ file' \in {Missing, Blank} \/ IsPresentSchema(file)'
    <2>1. IsPresentSchema(file) => file # Missing
      BY MarkersAreNoDatabases
    <2>2. file' = file => (Due <=> Due')
      BY <1>1 DEF Due
    <2>. QED
      BY <1>1, <2>1, <2>2
  <1>3. TasksHaveTables => TasksHaveTables'
    <2>1. /\ task'[c].linked = task[c].linked /\ task'[c].hasSchema = task[c].hasSchema
          /\ task'[c].step # "ready"
          /\ \A d \in Connections \ {c} : task'[d] = task[d]
      BY DEF LoopInv, OpenRawConnection, Tasks
    <2>2. FileHasSchema => FileHasSchema'
      BY <1>1 DEF FileHasSchema
    <2>. QED
      BY <2>1, <2>2 DEF TasksHaveTables
  <1>. QED
    BY <1>1, <1>2, <1>3 DEF FilesInv

LEMMA PreparingKeeps ==
  ASSUME LoopInv, FilesInv, NEW c \in Connections, PrepareConnection(c)
  PROVE  FilesInv'
  <1>1. /\ InUse /\ outcome' # "refused"
        /\ file \in {Missing, Blank} \/ IsPresentSchema(file)
        /\ removals = 0 => IsPresentSchema(file) /\ Due
        /\ UNCHANGED <<owed, ended, removals>>
    BY WorkersAreServed DEF PrepareConnection, loopVars
  <1>2. task[c] \in Tasks /\ \A d \in Connections \ {c} : task'[d] = task[d]
    BY DEF LoopInv, PrepareConnection, InitializeConnectionSchema
  <1>3. CASE file' = file
    <2>1. Due <=> Due'
      BY <1>1, <1>3 DEF Due
    <2>2. TasksHaveTables => TasksHaveTables'
      <3>1. CASE task[c].needsSchema \/ NeedsSchema
        <4>1. CASE task[c].linked
          <5>1. file = InitializeSchema(file)
            BY <1>3, <3>1, <4>1 DEF PrepareConnection, InitializeConnectionSchema
          <5>2. FileHasSchema
            BY <1>1, <5>1, OpenedFilesInitialize, MarkersAreNoDatabases DEF FileHasSchema
          <5>3. task'[c].linked = task[c].linked
            BY <1>2, <3>1 DEF PrepareConnection, InitializeConnectionSchema, LoopInv, Tasks
          <5>. QED
            BY <1>2, <1>3, <4>1, <5>2, <5>3 DEF TasksHaveTables, FileHasSchema
        <4>2. CASE ~task[c].linked
          <5>1. task'[c].linked = task[c].linked /\ task'[c].hasSchema = TRUE
            BY <1>2, <3>1 DEF PrepareConnection, InitializeConnectionSchema, LoopInv, Tasks
          <5>. QED
            BY <1>2, <1>3, <4>2, <5>1 DEF TasksHaveTables, FileHasSchema
        <4>. QED
          BY <4>1, <4>2
      <3>2. CASE ~(task[c].needsSchema \/ NeedsSchema)
        <4>1. task'[c].linked = task[c].linked /\ task'[c].hasSchema = task[c].hasSchema
          BY <1>2, <3>2 DEF PrepareConnection, LoopInv, Tasks
        <4>2. FileHasSchema
          BY <3>2 DEF NeedsSchema, FileHasSchema
        <4>. QED
          BY <1>2, <1>3, <4>1, <4>2 DEF TasksHaveTables, FileHasSchema
      <3>. QED
        BY <3>1, <3>2
    <2>. QED
      BY <1>1, <1>3, <2>1, <2>2 DEF FilesInv
  <1>4. CASE file' # file
    <2>1. file' = InitializeSchema(file) /\ task[c].linked
      BY <1>4 DEF PrepareConnection, InitializeConnectionSchema
    <2>2. IsPresentSchema(file)'
      BY <1>1, <2>1, OpenedFilesInitialize
    <2>3. removals = 0 => Due'
      BY <1>1, <2>1, PresentFilesStayPresent, DueStands
    <2>4. TasksHaveTables => TasksHaveTables'
      <3>1. /\ task'[c].linked = task[c].linked
            /\ FileHasSchema'
        BY <1>2, <1>4, <2>2, MarkersAreNoDatabases
           DEF PrepareConnection, InitializeConnectionSchema, LoopInv, Tasks, FileHasSchema
      <3>. QED
        BY <1>2, <2>1, <3>1 DEF TasksHaveTables
    <2>. QED
      BY <1>1, <2>2, <2>3, <2>4 DEF FilesInv
  <1>. QED
    BY <1>3, <1>4

(* The work of a task on the file it has open.                             *)
LEMMA WorkingKeeps ==
  ASSUME LoopInv, FilesInv, NEW c \in Connections, NEW db, Work(c, db),
         task[c].linked => \/ db = file
                           \/ FileHasSchema /\ IsPresentSchema(db),
         ended' \subseteq Tokens \cup Names,
         removals = 0 => Due'
  PROVE  FilesInv'
  <1>1. /\ InUse /\ outcome' # "refused"
        /\ file \in {Missing, Blank} \/ IsPresentSchema(file)
        /\ removals = 0 => IsPresentSchema(file)
        /\ UNCHANGED <<owed, removals>>
    BY WorkersAreServed DEF Work, loopVars
  <1>2. file' = file \/ (FileHasSchema /\ IsPresentSchema(file)')
    <2>1. CASE task[c].linked
      <3>1. file' = db
        BY <2>1 DEF Work
      <3>. QED
        BY <2>1, <3>1
    <2>2. CASE ~task[c].linked
      BY <2>2 DEF Work
    <2>. QED
      BY <2>1, <2>2
  <1>3. TasksHaveTables => TasksHaveTables'
    <2>1. task'[c] = NoTask /\ \A d \in Connections \ {c} : task'[d] = task[d]
      BY DEF LoopInv, Work
    <2>2. FileHasSchema => FileHasSchema'
      BY <1>2, MarkersAreNoDatabases DEF FileHasSchema
    <2>. QED
      BY <2>1, <2>2, NoTaskIsTyped DEF TasksHaveTables
  <1>. QED
    BY <1>1, <1>2, <1>3 DEF FilesInv

LEMMA AnsweringKeeps ==
  ASSUME LoopInv, FilesInv, NEW c \in Connections, Answer(c)
  PROVE  FilesInv'
  <1>1. Work(c, file) /\ ended' = ended
    BY DEF Answer
  <1>2. file' = file /\ owed' = owed
    BY <1>1 DEF Work
  <1>3. ended' \subseteq Tokens \cup Names
    BY <1>1 DEF FilesInv
  <1>4. removals = 0 => Due'
    <2>1. removals = 0 => Due
      BY <1>1, WorkersAreServed DEF Work
    <2>. QED
      BY <1>1, <1>2, <2>1 DEF Due
  <1>. QED
    BY <1>1, <1>3, <1>4, WorkingKeeps

(* A sign-out: nobody is signed in with that token any more.               *)
SignedOut(db, token) ==
  [db EXCEPT !.signIns = {[s EXCEPT !.deleted = @ \/ s.token = token] : s \in @}]

LEMMA SigningOutEnds ==
  ASSUME NEW db, IsPresentSchema(db), NEW token
  PROVE  LET new == SignedOut(db, token)
         IN /\ IsPresentSchema(new)
            /\ \A n : ActiveAccount(new, n) = ActiveAccount(db, n)
            /\ \A t : SignedInAs(new, t) = IF t = token THEN {} ELSE SignedInAs(db, t)
  <1>. DEFINE ends(s) == [s EXCEPT !.deleted = s.deleted \/ s.token = token]
              signIns == {ends(s) : s \in db.signIns}
              new == [db EXCEPT !.signIns = signIns]
  <1>1. db.signIns \subseteq SignIns /\ \A a, b \in db.signIns : a.token = b.token => a = b
    BY DEF IsPresentSchema, SomeSignIns
  <1>2. \A s \in SignIns : /\ ends(s) \in SignIns
                           /\ ends(s).token = s.token /\ ends(s).user = s.user
                           /\ ends(s).deleted <=> (s.deleted \/ s.token = token)
    BY DEF SignIns
  <1>. HIDE DEF ends
  <1>3. signIns \in SomeSignIns(SignIns)
    BY <1>1, <1>2 DEF SomeSignIns
  <1>. HIDE DEF signIns
  <1>4. IsPresentSchema(new) /\ new.users = db.users /\ new.signIns = signIns
    BY <1>3 DEF IsPresentSchema
  <1>. HIDE DEF new
  <1>5. \A n : ActiveAccount(new, n) = ActiveAccount(db, n)
    BY <1>4 DEF ActiveAccount, UserOf
  <1>6. ASSUME NEW t
        PROVE  SignedInAs(new, t) = IF t = token THEN {} ELSE SignedInAs(db, t)
    <2>1. \A p : UserOf(new, p) = UserOf(db, p)
      BY <1>4 DEF UserOf
    <2>2. CASE t = token
      BY <1>1, <1>2, <1>4, <2>2 DEF SignedInAs, signIns
    <2>3. CASE t # token
      BY <1>1, <1>2, <1>4, <2>1, <2>3 DEF SignedInAs, signIns
    <2>. QED
      BY <2>2, <2>3
  <1>7. new = SignedOut(db, token)
    BY DEF SignedOut, new, signIns, ends
  <1>. QED
    BY <1>4, <1>5, <1>6, <1>7

LEMMA SigningOutKeeps ==
  ASSUME LoopInv, FilesInv, NEW c \in Connections, NEW token \in Tokens, SignOutWork(c, token)
  PROVE  FilesInv'
  <1>. DEFINE new == SignedOut(file, token)
  <1>1. /\ Work(c, new) /\ ended' = ended \cup {token} /\ file' = new /\ owed' = owed
        /\ task[c].step # "none" /\ FileHasSchema
    BY DEF SignOutWork, SignedOut, OnTheFile, Work
  <1>2. IsPresentSchema(file) /\ (removals = 0 => Due)
    BY <1>1, WorkersAreServed DEF FileHasSchema
  <1>3. /\ IsPresentSchema(new)
        /\ \A n : ActiveAccount(new, n) = ActiveAccount(file, n)
        /\ \A t : SignedInAs(new, t) = IF t = token THEN {} ELSE SignedInAs(file, t)
    BY <1>2, SigningOutEnds
  <1>. HIDE DEF new
  <1>4. ended' \subseteq Tokens \cup Names
    BY <1>1 DEF FilesInv
  <1>5. token \notin Names
    BY SchemaAssumption
  <1>6. Due => Due'
    BY <1>1, <1>3, <1>5 DEF Due
  <1>. QED
    BY <1>1, <1>2, <1>3, <1>4, <1>6, WorkingKeeps

(* A deleted account: it is not found, and nobody is signed in to it.      *)
TokensOf(db, principal) ==
  {s.token : s \in {s \in db.signIns : s.user = principal}}

Without(db, principal) ==
  [db EXCEPT
     !.users = {IF u.principal = principal
                THEN [u EXCEPT !.deleted = TRUE, !.hash = "none"]
                ELSE u : u \in @},
     !.signIns = {[s EXCEPT !.deleted = @ \/ s.user = principal] : s \in @}]

LEMMA DeletingEnds ==
  ASSUME NEW db, IsPresentSchema(db), NEW name
  PROVE  LET tokens == TokensOf(db, <<"local_account", name>>)
             new == Without(db, <<"local_account", name>>)
         IN /\ IsPresentSchema(new) /\ tokens \subseteq Tokens
            /\ \A n : ActiveAccount(new, n) = IF n = name THEN {} ELSE ActiveAccount(db, n)
            /\ \A t : SignedInAs(new, t) = IF t \in tokens THEN {} ELSE SignedInAs(db, t)
  <1>. DEFINE principal == <<"local_account", name>>
              tokens == {s.token : s \in {s \in db.signIns : s.user = principal}}
              leaves(u) == IF u.principal = principal
                           THEN [u EXCEPT !.deleted = TRUE, !.hash = "none"] ELSE u
              ends(s) == [s EXCEPT !.deleted = s.deleted \/ s.user = principal]
              users == {leaves(u) : u \in db.users}
              signIns == {ends(s) : s \in db.signIns}
              new == [db EXCEPT !.users = users, !.signIns = signIns]
  <1>1. /\ db.signIns \subseteq SignIns /\ db.users \subseteq UserRows
        /\ \A a, b \in db.signIns : a.token = b.token => a = b
    BY DEF IsPresentSchema, SomeSignIns
  <1>2. \A s \in SignIns : /\ ends(s) \in SignIns /\ s.token \in Tokens
                           /\ ends(s).token = s.token /\ ends(s).user = s.user
                           /\ ends(s).deleted <=> (s.deleted \/ s.user = principal)
    BY DEF SignIns
  <1>3. \A u \in UserRows : /\ leaves(u) \in UserRows
                            /\ leaves(u).principal = u.principal
                            /\ u.principal = principal => leaves(u).deleted
                            /\ u.principal # principal => leaves(u) = u
    BY DEF UserRows, Hashes
  <1>4. \A n : <<"local_account", n>> = principal <=> n = name
    OBVIOUS
  <1>5. tokens \subseteq Tokens
    BY <1>1, <1>2
  <1>. HIDE DEF ends, leaves, principal
  <1>6. signIns \in SomeSignIns(SignIns) /\ users \in SUBSET UserRows
    BY <1>1, <1>2, <1>3 DEF SomeSignIns
  <1>. HIDE DEF signIns, users
  <1>7. IsPresentSchema(new) /\ new.users = users /\ new.signIns = signIns
    BY <1>6 DEF IsPresentSchema
  <1>. HIDE DEF new
  <1>8. ASSUME NEW n
        PROVE  ActiveAccount(new, n) = IF n = name THEN {} ELSE ActiveAccount(db, n)
    BY <1>1, <1>3, <1>4, <1>7 DEF ActiveAccount, UserOf, users
  <1>9. ASSUME NEW p
        PROVE  (\E u \in UserOf(new, p) : ~u.deleted)
                 <=> (p # principal /\ \E u \in UserOf(db, p) : ~u.deleted)
    BY <1>1, <1>3, <1>7 DEF UserOf, users
  <1>10. ASSUME NEW t
         PROVE  SignedInAs(new, t) = IF t \in tokens THEN {} ELSE SignedInAs(db, t)
    <2>1. CASE t \in tokens
      <3>1. ASSUME NEW s \in db.signIns, s.token = t
            PROVE  s.user = principal
        BY <1>1, <2>1, <3>1
      <3>2. \A r \in new.signIns : r.token = t => r.deleted
        BY <1>1, <1>2, <1>7, <3>1 DEF signIns
      <3>. QED
        BY <2>1, <3>2 DEF SignedInAs
    <2>2. CASE t \notin tokens
      <3>1. \A s \in db.signIns : s.token = t => s.user # principal
        BY <2>2
      <3>2. ASSUME NEW u
            PROVE  u \in SignedInAs(new, t) <=> u \in SignedInAs(db, t)
        <4>1. ASSUME u \in SignedInAs(new, t)
              PROVE  u \in SignedInAs(db, t)
          <5>1. PICK r \in new.signIns : /\ r.token = t /\ ~r.deleted /\ r.user = u
                                         /\ \E v \in UserOf(new, r.user) : ~v.deleted
            BY <4>1 DEF SignedInAs
          <5>2. PICK s \in db.signIns : r = ends(s)
            BY <1>7, <5>1 DEF signIns
          <5>3. /\ s.token = t /\ ~s.deleted /\ s.user = u
                /\ \E v \in UserOf(db, s.user) : ~v.deleted
            BY <1>1, <1>2, <1>9, <5>1, <5>2
          <5>. QED
            BY <5>3 DEF SignedInAs
        <4>2. ASSUME u \in SignedInAs(db, t)
              PROVE  u \in SignedInAs(new, t)
          <5>1. PICK s \in db.signIns : /\ s.token = t /\ ~s.deleted /\ s.user = u
                                        /\ \E v \in UserOf(db, s.user) : ~v.deleted
            BY <4>2 DEF SignedInAs
          <5>2. /\ ends(s) \in new.signIns /\ ends(s).token = t
                /\ ~ends(s).deleted /\ ends(s).user = u
                /\ \E v \in UserOf(new, ends(s).user) : ~v.deleted
            BY <1>1, <1>2, <1>7, <1>9, <3>1, <5>1 DEF signIns
          <5>. QED
            BY <5>2 DEF SignedInAs
        <4>. QED
          BY <4>1, <4>2
      <3>. HIDE DEF tokens
      <3>. QED
        BY <2>2, <3>2
    <2>. QED
      BY <2>1, <2>2
  <1>11. new = Without(db, principal)
    BY DEF Without, new, users, signIns, leaves, ends, IsPresentSchema
  <1>12. tokens = TokensOf(db, principal)
    BY DEF TokensOf, principal
  <1>. HIDE DEF tokens
  <1>. QED
    BY <1>5, <1>7, <1>8, <1>10, <1>11, <1>12 DEF principal

LEMMA DeletingKeeps ==
  ASSUME LoopInv, FilesInv, NEW c \in Connections, NEW name \in Names,
         DeleteAccountWork(c, name)
  PROVE  FilesInv'
  <1>. DEFINE tokens == TokensOf(file, <<"local_account", name>>)
              new == Without(file, <<"local_account", name>>)
  <1>1. /\ Work(c, new) /\ ended' = ended \cup tokens \cup {name} /\ file' = new
        /\ owed' = owed /\ task[c].step # "none" /\ FileHasSchema
    BY DEF DeleteAccountWork, TokensOf, Without, OnTheFile, Work
  <1>2. IsPresentSchema(file) /\ (removals = 0 => Due)
    BY <1>1, WorkersAreServed DEF FileHasSchema
  <1>3. /\ IsPresentSchema(new) /\ tokens \subseteq Tokens
        /\ \A n : ActiveAccount(new, n) = IF n = name THEN {} ELSE ActiveAccount(file, n)
        /\ \A t : SignedInAs(new, t) = IF t \in tokens THEN {} ELSE SignedInAs(file, t)
    BY <1>2, DeletingEnds
  <1>. HIDE DEF new, tokens
  <1>4. ended' \subseteq Tokens \cup Names
    BY <1>1, <1>3 DEF FilesInv
  <1>5. name \notin Tokens /\ tokens \cap Names = {}
    BY <1>3, SchemaAssumption
  <1>6. Due => Due'
    BY <1>1, <1>3, <1>5 DEF Due
  <1>. QED
    BY <1>1, <1>2, <1>3, <1>4, <1>6, WorkingKeeps

(* The file is deleted.                                                    *)
LEMMA RemovingKeeps ==
  ASSUME LoopInv, FilesInv, DeleteFile
  PROVE  FilesInv'
  <1>1. /\ InUse /\ outcome' # "refused" /\ file' = Missing
        /\ removals' = removals + 1 /\ removals \in Nat /\ removals' \in 0..MaxRemovals
        /\ ended' = ended
    <2>1. /\ stage \in {"serving", "backing"} /\ outcome' = outcome /\ ended' = ended
          /\ file' = Missing /\ removals' = removals + 1 /\ removals < MaxRemovals
      BY DEF DeleteFile, loopVars
    <2>2. InUse /\ outcome # "refused"
      BY <2>1 DEF InUse, LoopInv
    <2>3. removals \in 0..MaxRemovals
      BY DEF FilesInv
    <2>. QED
      BY <2>1, <2>2, <2>3, ProcessAssumption
  <1>2. removals = 0 => FileHasSchema
    BY <1>1, MarkersAreNoDatabases DEF FilesInv, FileHasSchema
  <1>3. removals = 0 => TasksHaveTables'
    <2>1. removals = 0 => TasksHaveTables
      BY DEF FilesInv
    <2>2. ASSUME removals = 0, NEW c \in Connections
          PROVE  /\ ~task'[c].linked => task'[c].hasSchema
                 /\ ~(task'[c].step = "ready" /\ task'[c].linked)
      <3>1. task[c] \in Tasks
        BY DEF LoopInv
      <3>2. CASE task[c].step \in {"opened", "ready"} /\ task[c].linked
        <4>1. /\ task'[c] = [task[c] EXCEPT !.linked = FALSE, !.hasSchema = FileHasSchema]
              /\ FileHasSchema
          BY <1>2, <2>2, <3>2 DEF DeleteFile
        <4>. QED
          BY <3>1, <4>1 DEF Tasks
      <3>3. CASE ~(task[c].step \in {"opened", "ready"} /\ task[c].linked)
        <4>1. task'[c] = task[c]
          BY <3>3 DEF DeleteFile
        <4>. QED
          BY <2>1, <2>2, <3>3, <4>1 DEF TasksHaveTables
      <3>. QED
        BY <3>2, <3>3
    <2>. QED
      BY <2>2 DEF TasksHaveTables
  <1>. QED
    BY <1>1, <1>3 DEF FilesInv

-----------------------------------------------------------------------------
THEOREM ProcessInvariant == ProcessSpec => []ProcessInv
  <1>1. ProcessInit => ProcessInv
    <2>. SUFFICES ASSUME ProcessInit PROVE ProcessInv
      OBVIOUS
    <2>1. LoopInv
      <3>1. /\ connection \in [Connections -> [phase : Phases, told : BOOLEAN]]
            /\ \A c \in Connections : connection[c].phase = "none"
            /\ task \in [Connections -> Tasks] /\ task = NoTasks
        BY NoTaskIsTyped DEF ProcessInit
      <3>2. /\ 0 \in 0..MaxStarts /\ 0 \in 0..MaxProbes + 1 /\ 0 \in 0..MaxAcceptErrors + 1
        BY ProcessAssumption
      <3>. QED
        BY <3>1, <3>2 DEF ProcessInit, LoopInv, Stages, Outcomes
    <2>2. ~InUse
      BY DEF ProcessInit, InUse
    <2>3. TasksHaveTables
      BY NoTaskIsTyped DEF ProcessInit, TasksHaveTables
    <2>4. Untouched
      <3>1. file # Blank
        <4>1. Blank \notin Shapes /\ Missing # Blank
          BY SchemaAssumption, MarkersAssumption
        <4>. QED
          BY <4>1, OriginsAreShaped DEF ProcessInit
      <3>. QED
        BY <3>1 DEF ProcessInit, Untouched
    <2>5. FilesInv
      BY <2>2, <2>3, <2>4, ProcessAssumption DEF ProcessInit, FilesInv, Outcomes
    <2>. QED
      BY <2>1, <2>5 DEF ProcessInv
  <1>2. ProcessInv /\ [ProcessNext]_processVars => ProcessInv'
    <2>. SUFFICES ASSUME LoopInv, FilesInv, [ProcessNext]_processVars PROVE ProcessInv'
      BY DEF ProcessInv
    <2>1. CASE UNCHANGED processVars
      <3>1. LoopInv'
        BY <2>1 DEF LoopInv, Serving, processVars, loopVars
      <3>2. FilesInv'
        BY <2>1, FilesStand DEF InUse, processVars, loopVars
      <3>. QED
        BY <3>1, <3>2 DEF ProcessInv
    <2>2. CASE ProcessNext
      <3>1. LoopInv'
        BY <2>2, LoopStep
      <3>2. FilesInv'
        <4>1. CASE Bind
          BY <4>1, FilesStand DEF Bind, LoopInv, InUse, StopWith, Serving
        <4>2. CASE StartServing
          BY <4>2, FilesStand DEF StartServing, LoopInv, InUse, StopWith, Serving
        <4>3. CASE ProbeFails
          BY <4>3, FilesStand DEF ProbeFails, LoopInv, InUse, StopWith, Serving
        <4>4. CASE ProbeSucceeds
          BY <4>4, FilesStand DEF ProbeSucceeds, LoopInv, InUse, StopWith, Serving
        <4>5. CASE AcceptFailsTransiently
          BY <4>5, FilesStand DEF AcceptFailsTransiently, LoopInv, InUse, StopWith, Serving
        <4>6. CASE AcceptFails
          BY <4>6, FilesStand DEF AcceptFails, LoopInv, InUse, StopWith, Serving
        <4>7. CASE BackoffEnds
          BY <4>7, FilesStand DEF BackoffEnds, LoopInv, InUse, StopWith, Serving
        <4>8. CASE ShutdownResolves
          BY <4>8, FilesStand DEF ShutdownResolves, LoopInv, InUse, StopWith, Serving
        <4>9. CASE SeeShutdown
          BY <4>9, FilesStand DEF SeeShutdown, LoopInv, InUse, StopWith, Serving
        <4>10. CASE Drain
          BY <4>10, FilesStand DEF Drain, LoopInv, InUse, StopWith, Serving
        <4>11. CASE Exit
          BY <4>11, FilesStand DEF Exit, LoopInv, InUse, StopWith, Serving
        <4>12. CASE Kill
          BY <4>12, FilesStand DEF Kill, LoopInv, InUse, StopWith, Serving
        <4>13. CASE OpenFile
          BY <4>13, OpeningKeeps
        <4>14. CASE InitializeStore
          BY <4>14, StartingKeeps
        <4>15. CASE DeleteFile
          BY <4>15, RemovingKeeps
        <4>16. ASSUME NEW c \in Connections, ConnectionStep(c)
               PROVE  FilesInv'
          <5>1. UNCHANGED <<storeVars, task, outcome>> /\ (InUse' => InUse)
            BY <4>16 DEF ConnectionStep, Accept, Handshake, OpenStream, ClientLeaves,
                         NoticeShutdown, GraceEnds, InUse, loopVars
          <5>. QED
            BY <5>1, FilesStand
        <4>17. ASSUME NEW c \in Connections, TaskStep(c)
               PROVE  FilesInv'
          BY <4>17, RequestingKeeps, OpeningAgainKeeps, PreparingKeeps, AnsweringKeeps,
             SigningOutKeeps, DeletingKeeps DEF TaskStep
        <4>. QED
          BY <2>2, <4>1, <4>2, <4>3, <4>4, <4>5, <4>6, <4>7, <4>8, <4>9, <4>10, <4>11, <4>12,
             <4>13, <4>14, <4>15, <4>16, <4>17 DEF ProcessNext
      <3>. QED
        BY <3>1, <3>2 DEF ProcessInv
    <2>. QED
      BY <2>1, <2>2
  <1>. QED
    BY <1>1, <1>2, PTL DEF ProcessSpec

(* Every variable keeps its type, and a file that is served from has the   *)
(* present schema or is new.                                               *)
THEOREM ProcessIsTyped == ProcessSpec => []ProcessTypeOK
  <1>1. ProcessInv => ProcessTypeOK
    BY DEF ProcessInv, LoopInv, FilesInv, ProcessTypeOK
  <1>. QED
    BY <1>1, ProcessInvariant, PTL

(* Whatever earlier version wrote the file, a backend starts on it unless  *)
(* the name for the staged sign-ins is taken, and while it runs, and after *)
(* every kill and restart, it knows every account with its password and    *)
(* role, and every sign-in, of that file that was not ended since - as     *)
(* long as nobody deletes the file.                                        *)
THEOREM EarlierStoresAreKept == ProcessSpec => []EarlierStoresSurvive
  <1>1. ProcessInv => EarlierStoresSurvive
    BY DEF ProcessInv, FilesInv, InUse, Due, EarlierStoresSurvive, StoreOpens,
           AccountsSurvive
  <1>. QED
    BY <1>1, ProcessInvariant, PTL

(* An account that was deleted and a sign-in that was ended stay so, though*)
(* every start migrates the file again.                                    *)
THEOREM TheEndedStayEnded == ProcessSpec => []EndedSignInsStayEnded
  <1>1. ProcessInv => EndedSignInsStayEnded
    BY DEF ProcessInv, FilesInv, Untouched, Due, EndedSignInsStayEnded
  <1>. QED
    BY <1>1, ProcessInvariant, PTL

(* A request finds its tables also when the file was deleted once, at      *)
(* whatever moment of its opening or of that of others.                    *)
THEOREM RequestsHaveTheirTables ==
  ProcessSpec => [](removals <= 1 => RequestsFindTheirTables)
  <1>1. ProcessInv => (removals <= 1 => RequestsFindTheirTables)
    BY DEF ProcessInv, FilesInv, TasksHaveTables, RequestsFindTheirTables,
           TaskHasTables
  <1>. QED
    BY <1>1, ProcessInvariant, PTL
=============================================================================
