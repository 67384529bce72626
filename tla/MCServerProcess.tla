-------------------------- MODULE MCServerProcess --------------------------
(* Of the files EarlierDatabases describes: none, users only, two legacy   *)
(* accounts in one order and a sign-in, beside no users or beside a        *)
(* present account of the same name, with the staging table free or taken, *)
(* and tables without foreign keys, a sign-in and sessions of two          *)
(* workspaces.                                                             *)
EXTENDS ServerProcess

CONSTANTS n1, n2

SignedIn(db) == db.signIns # NoTable /\ db.signIns # {}

SomeOrigins ==
  {Missing}
  \cup {db \in UsersOnly : db.users # {}}
  \cup {db \in LegacyLocalAccounts :
          /\ \/ db.users = NoTable
             \/ db.users = {Row("local_account", n2, "present", FALSE)}
          /\ SignedIn(db)
          /\ Len(db.accounts.rows) = 2
          /\ db.accounts.rows[1].name = n1
          /\ db.staged # NoTable => db.accounts.rows[1].admin}
  \cup {db \in WithoutForeignKeys :
          /\ SignedIn(db)
          /\ \A u \in db.users : u.principal[2] = n1
          /\ Cardinality(db.sessions) > 1}
=============================================================================
