---------------------------- MODULE StoreSchema ----------------------------
(***************************************************************************)
(* Opening the workspace store: workspace_store/ops/schema.rs and the      *)
(* opening of connections in workspace_store.rs.  Whenever the backend     *)
(* starts it brings the database file, which any earlier version may have  *)
(* written, to the present schema, in one immediate transaction with the   *)
(* foreign keys off; whenever a request opens a connection it does so if   *)
(* the file is missing or empty.                                           *)
(*                                                                         *)
(* A database is a record of its tables.  A table an earlier version did   *)
(* not have is NoTable, or NoAccounts for local_accounts.  Columns are     *)
(* represented where their absence matters: the four authentication        *)
(* columns of users (authColumns), the is_admin flags of local_accounts,   *)
(* and the key of browser_sessions, which once named the account and now   *)
(* refers to a user.  A user is known by the kind and the subject of its   *)
(* principal, which are unique; a deleted account has a subject of its     *)
(* own, so it is found by neither its name nor its principal.  Indices and *)
(* the other columns, which are filled with a constant, are left out.      *)
(***************************************************************************)
EXTENDS Integers, Sequences, FiniteSets

CONSTANTS
  Names,     (* user names and bearer subjects                             *)
  Tokens,    (* browser session ids                                        *)
  Missing,   (* there is no database file                                  *)
  Blank,     (* the file has no bytes                                      *)
  Refused,   (* the migration gave up                                      *)
  NoAccounts,(* there is no table of local accounts                        *)
  NoRow      (* marks a table that is not there                            *)

ASSUME SchemaAssumption ==
  /\ IsFiniteSet(Names)
  /\ IsFiniteSet(Tokens)
  /\ Missing # Blank /\ Refused \notin {Missing, Blank}
  /\ Names \cap Tokens = {}

-----------------------------------------------------------------------------
Hashes == {"none", "legacy", "present"}

Principals == {"bearer", "local_account"} \X Names

(* A table that is not there.                                             *)
NoTable == {NoRow}

UserRows ==
  [principal : Principals, hash : Hashes, admin : BOOLEAN, deleted : BOOLEAN]

(* browser_sessions before, and since.                                     *)
LegacySignIns == [token : Tokens, name : Names]
SignIns == [token : Tokens, user : Principals, deleted : BOOLEAN]

(* Workspaces and sessions only matter for what they refer to.             *)
WorkspaceRows == [owner : Principals]
SessionRows == [workspace : WorkspaceRows, owner : Principals]

Database(users, auth, accounts, signIns, staged, workspaces, sessions, keys) ==
  [users |-> users, authColumns |-> auth, accounts |-> accounts,
   signIns |-> signIns, staged |-> staged, workspaces |-> workspaces,
   sessions |-> sessions, foreignKeys |-> keys]

(* browser_sessions of the present layout; an empty one counts as such.    *)
HasUserColumn(table) == \A row \in table : "user" \in DOMAIN row

-----------------------------------------------------------------------------
(* Lookups: load_user_by_principal, load_active_local_account_by_username  *)
UserOf(db, principal) == {u \in db.users : u.principal = principal}

ActiveAccount(db, name) ==
  {u \in UserOf(db, <<"local_account", name>>) : ~u.deleted}

Subjects(db) == {u.principal : u \in db.users}

(* authenticate_browser_session                                            *)
SignedInAs(db, token) ==
  {s.user : s \in {s \in db.signIns :
     /\ s.token = token
     /\ ~s.deleted
     /\ \E u \in UserOf(db, s.user) : ~u.deleted}}

-----------------------------------------------------------------------------
(* The steps of initialize_schema, in their order.                         *)

(* stage_legacy_browser_sessions_table                                     *)
StageLegacyBrowserSessions(db) ==
  IF db.signIns = NoTable \/ HasUserColumn(db.signIns)
  THEN db
  ELSE IF db.staged # NoTable
       THEN Refused
       ELSE [db EXCEPT !.staged = db.signIns, !.signIns = NoTable]

(* WORKSPACE_STORE_SCHEMA_SQL: the tables that do not exist yet.           *)
CreateMissingTables(db) ==
  LET Table(t) == IF t = NoTable THEN {} ELSE t
  IN [db EXCEPT !.users = Table(@), !.signIns = Table(@),
                !.workspaces = Table(@), !.sessions = Table(@),
                !.authColumns = @ \/ db.users = NoTable]

(* ensure_user_auth_columns: rows that had none are members without a      *)
(* password; ensure_session_snapshot_columns adds constants.               *)
EnsureColumns(db) ==
  IF db.authColumns
  THEN db
  ELSE [db EXCEPT !.authColumns = TRUE,
                  !.users = {[u EXCEPT !.hash = "none", !.admin = FALSE,
                                       !.deleted = FALSE] : u \in @}]

PromoteLegacyBearerAdmins(db) ==
  [db EXCEPT !.users =
     {IF u.principal[1] = "bearer" /\ ~u.deleted
      THEN [u EXCEPT !.admin = TRUE]
      ELSE u : u \in @}]

(* migrate_legacy_local_accounts: without an admin among them, the oldest  *)
(* account becomes one.  An account that is there already stays as it is.  *)
MigrateLegacyLocalAccounts(db) ==
  IF db.accounts = NoAccounts
  THEN db
  ELSE LET rows == db.accounts.rows
           promoteOldest == ~db.accounts.flags
                            \/ \A i \in DOMAIN rows : ~rows[i].admin
           migrated(i) ==
             [principal |-> <<"local_account", rows[i].name>>,
              hash |-> "legacy",
              admin |-> \/ db.accounts.flags /\ rows[i].admin
                        \/ promoteOldest /\ i = 1,
              deleted |-> FALSE]
           unknown == {i \in DOMAIN rows :
                         ActiveAccount(db, rows[i].name) = {}}
       IN [db EXCEPT !.users = @ \cup {migrated(i) : i \in unknown}]

(* migrate_legacy_browser_sessions: only those of accounts that are there. *)
MigrateLegacyBrowserSessions(db) ==
  LET rows == IF db.staged = NoTable THEN {} ELSE db.staged
      kept == {s \in rows : ActiveAccount(db, s.name) # {}}
      untouched == {s \in db.signIns : \A k \in kept : k.token # s.token}
  IN [db EXCEPT !.signIns = untouched \cup
        {[token |-> s.token, user |-> <<"local_account", s.name>>,
          deleted |-> FALSE] : s \in kept}]

(* Faulty variant: the tables stay.                                        *)
KeepLegacyAuthTables(db) == [db EXCEPT !.staged = NoTable]

DropLegacyAuthTables(db) == [db EXCEPT !.accounts = NoAccounts, !.staged = NoTable]

(* Faulty variant: sessions of workspaces that go now are kept.            *)
PruneAtOnce(db) ==
  LET known(row) == row.owner \in Subjects(db)
  IN [db EXCEPT
        !.workspaces = {w \in @ : known(w)},
        !.sessions = {s \in @ : s.workspace \in db.workspaces /\ known(s)},
        !.signIns = {s \in @ : s.user \in Subjects(db)}]

(* prune_orphaned_foreign_key_rows: workspaces before their sessions.      *)
PruneOrphanedRows(db) ==
  LET workspaces == {w \in db.workspaces : w.owner \in Subjects(db)}
  IN [db EXCEPT
        !.workspaces = workspaces,
        !.sessions = {s \in @ : s.workspace \in workspaces
                                /\ s.owner \in Subjects(db)},
        !.signIns = {s \in @ : s.user \in Subjects(db)}]

(* ensure_foreign_key_tables: the rows are copied to tables with the keys. *)
EnsureForeignKeyTables(db) == [db EXCEPT !.foreignKeys = TRUE]

(* PRAGMA foreign_key_check                                                *)
ReferencesHold(db) ==
  /\ \A w \in db.workspaces : w.owner \in Subjects(db)
  /\ \A s \in db.sessions : s.workspace \in db.workspaces
                            /\ s.owner \in Subjects(db)
  /\ \A s \in db.signIns : s.user \in Subjects(db)

EnsureForeignKeyIntegrity(db) == IF ReferencesHold(db) THEN db ELSE Refused

NoDatabase == Database(NoTable, FALSE, NoAccounts, NoTable, NoTable, NoTable,
                       NoTable, FALSE)

(* initialize_schema, on a file that may have no bytes yet.                *)
InitializeSchema(file) ==
  LET staged == StageLegacyBrowserSessions(
                  IF file \in {Missing, Blank} THEN NoDatabase ELSE file)
  IN IF staged = Refused
     THEN Refused
     ELSE EnsureForeignKeyIntegrity(EnsureForeignKeyTables(PruneOrphanedRows(
            DropLegacyAuthTables(MigrateLegacyBrowserSessions(
            MigrateLegacyLocalAccounts(PromoteLegacyBearerAdmins(
            EnsureColumns(CreateMissingTables(staged)))))))))

-----------------------------------------------------------------------------
(* The databases earlier versions left, as the tests of workspace_store.rs *)
(* build them.                                                             *)
Row(kind, name, hash, admin) ==
  [principal |-> <<kind, name>>, hash |-> hash, admin |-> admin,
   deleted |-> FALSE]

BearerUsers(admin) ==
  {{}} \cup {{Row("bearer", n, "none", admin)} : n \in Names}

(* Users without the authentication columns, nothing else.                 *)
UsersOnly ==
  {Database(users, FALSE, NoAccounts, NoTable, NoTable, NoTable, NoTable, FALSE) :
     users \in BearerUsers(FALSE)}

(* Accounts in a table of their own, with or without flags, next to no     *)
(* users or to present ones, and sign-ins by name; the table they are      *)
(* staged in may be taken.                                                 *)
AccountLists ==
  {<<>>} \cup [1..1 -> [name : Names, admin : BOOLEAN]]
  \cup {rows \in [1..2 -> [name : Names, admin : BOOLEAN]] :
          rows[1].name # rows[2].name}

SomeSignIns(rows) ==
  {s \in SUBSET rows : \A a, b \in s : a.token = b.token => a = b}

LegacyLocalAccounts ==
  {Database(users, users # NoTable, [flags |-> flags, rows |-> rows], signIns,
            staged, NoTable, NoTable, FALSE) :
     users \in {NoTable}
               \cup {{Row("local_account", n, "present", FALSE)} : n \in Names}
               \cup {{Row("bearer", n, "none", FALSE)} : n \in Names},
     flags \in BOOLEAN, rows \in AccountLists,
     signIns \in SomeSignIns(LegacySignIns), staged \in {NoTable, {}}}

(* The present tables without foreign keys, with orphans.                  *)
WithoutForeignKeys ==
  {Database({Row("local_account", n, "present", TRUE)}, TRUE, NoAccounts, signIns,
            NoTable, workspaces,
            {[workspace |-> [owner |-> o], owner |-> p] :
               o \in {w.owner : w \in workspaces}, p \in owners}, FALSE) :
     n \in Names,
     signIns \in SomeSignIns([token : Tokens,
                              user : {"local_account"} \X Names,
                              deleted : {FALSE}]),
     workspaces \in SUBSET [owner : {"local_account"} \X Names],
     owners \in SUBSET ({"local_account"} \X Names)}

EarlierDatabases ==
  {Missing} \cup UsersOnly \cup LegacyLocalAccounts \cup WithoutForeignKeys

(* The tables of the present schema, and rows they can hold.               *)
IsPresentSchema(db) ==
  db \in [users : SUBSET UserRows, authColumns : {TRUE}, accounts : {NoAccounts},
          signIns : SomeSignIns(SignIns), staged : {NoTable},
          workspaces : SUBSET WorkspaceRows, sessions : SUBSET SessionRows,
          foreignKeys : {TRUE}]

(* What a file can hold at all: each table, unless it is not there.        *)
Maybe(tables) == {NoTable} \cup tables

Shapes ==
  [users : Maybe(SUBSET UserRows), authColumns : BOOLEAN,
   accounts : {NoAccounts} \cup [flags : BOOLEAN, rows : AccountLists],
   signIns : Maybe(SomeSignIns(SignIns) \cup SomeSignIns(LegacySignIns)),
   staged : Maybe(SomeSignIns(LegacySignIns)),
   workspaces : Maybe(SUBSET WorkspaceRows),
   sessions : Maybe(SUBSET SessionRows), foreignKeys : BOOLEAN]

(* The mark of a missing table is no row, and what stands for no database  *)
(* is none.                                                                *)
ASSUME MarkersAssumption ==
  /\ NoRow \notin UserRows /\ NoRow \notin SignIns
  /\ {Missing, Blank, Refused} \cap Shapes = {}
=============================================================================
