------------------------------ MODULE Accounts ------------------------------
(***************************************************************************)
(* Accounts and browser sign-ins: workspace_store/ops/accounts.rs, each    *)
(* call of which is one SQLite transaction, the handlers of                *)
(* server/account_api, and the accounts page of the web frontend           *)
(* (presentation/accounts, application/auth.rs).                           *)
(*                                                                         *)
(* A handler authenticates its caller in one transaction and acts in       *)
(* another, with the user record of the first.  Deleting an account takes  *)
(* a third step: the live sessions of the account are forgotten.           *)
(*                                                                         *)
(* Left out: user names, which are unique and never change, and passwords, *)
(* which decide whether a sign-in succeeds and are not told apart here.    *)
(***************************************************************************)
EXTENDS Integers, FiniteSets

CONSTANTS
  Users,       (* the ids accounts get: bounds the accounts ever made      *)
  Browsers,    (* browser sessions: the values of the session cookie       *)
  CommandLine, (* the client that sends a bearer token                     *)
  Requests,    (* bound: the requests in progress at one time              *)
  Nobody       (* not a user                                               *)

ASSUME AccountsAssumption ==
  /\ Nobody \notin Users
  /\ CommandLine \notin Browsers
  /\ IsFiniteSet(Users)

VARIABLES
  account,  (* the rows of users with a username                           *)
  cookie,   (* browser_sessions: who is signed in                          *)
  live,     (* the users that own a live session in the memory store       *)
  request,  (* the handlers in progress                                    *)
  page,     (* the accounts page of each browser                           *)
  late      (* history: whose session was opened after the account's end   *)

accountsVars == <<account, cookie, live, request, page, late>>

-----------------------------------------------------------------------------
Clients == Browsers \cup {CommandLine}
Roles == {"member", "admin"}
Kinds == {"create", "update", "delete", "list", "open"}

Active(u) == account[u] \in Roles
LocalAccounts == {u \in Users : Active(u)}
ActiveAdmins == {u \in Users : account[u] = "admin"}
LocalAccountCount == Cardinality(LocalAccounts)
ActiveAdminCount == Cardinality(ActiveAdmins)

(* list_local_accounts                                                     *)
Listed == [u \in Users |-> IF Active(u) THEN account[u] ELSE "none"]

BlankPage == [current |-> Nobody, accounts |-> [u \in Users |-> "none"]]

(* A handler: what it was asked, and the record of its caller, which it    *)
(* keeps for as long as it runs.                                           *)
NoRequest == [stage |-> "idle", kind |-> "list", client |-> CommandLine,
              user |-> Nobody, target |-> Nobody, role |-> "member"]

-----------------------------------------------------------------------------
(* account_capabilities, as the page has it.                               *)

CanModify(p, u) ==
  /\ u # p.current
  /\ ~(p.accounts[u] = "admin"
       /\ Cardinality({v \in Users : p.accounts[v] = "admin"}) <= 1)

(* validate_local_account_admin_change and validate_local_account_deletion *)
AdminChangeAllowed(u, current, role) ==
  role = "member" =>
    /\ u # current
    /\ account[u] = "admin" => ActiveAdminCount > 1

DeletionAllowed(u, current) ==
  /\ u # current
  /\ account[u] = "admin" => ActiveAdminCount > 1

-----------------------------------------------------------------------------
(* The handlers of one transaction.                                        *)

(* bootstrap_local_account                                                 *)
BootstrapRegister(b, u) ==
  /\ LocalAccountCount = 0
  /\ account[u] = "free"
  /\ account' = [account EXCEPT ![u] = "admin"]
  /\ cookie' = [cookie EXCEPT ![b] = u]
  /\ UNCHANGED <<live, request, page, late>>

(* Signing in and out also forget the live sessions of an owner named like *)
(* the browser session; owners are named "browser-user:" or "bearer:" and  *)
(* an id, so there is none.                                                *)
SignIn(b, u) ==
  /\ Active(u)
  /\ cookie' = [cookie EXCEPT ![b] = u]
  /\ UNCHANGED <<account, live, request, page, late>>

SignOut(b) ==
  /\ cookie' = [cookie EXCEPT ![b] = Nobody]
  /\ page' = [page EXCEPT ![b] = BlankPage]
  /\ UNCHANGED <<account, live, request, late>>

-----------------------------------------------------------------------------
(* The others.  From a browser they come as the page offers them, and the  *)
(* page may be out of date.  A request is authenticated when it is begun:  *)
(* one that reaches the server late finds the page older still.            *)
(*                                                                         *)
(* owner_context: a bearer user is made when first seen and is an admin.   *)
Admitted(kind, u) == account[u] = "admin" \/ (kind = "open" /\ Active(u))

Caller(c) == IF c = CommandLine THEN Nobody ELSE cookie[c]

Begin(r, kind, c, target, role) ==
  /\ request[r] = NoRequest
  /\ c \in Browsers => cookie[c] # Nobody /\ Admitted(kind, cookie[c])
  /\ request' = [request EXCEPT ![r] =
       [stage |-> "admitted", kind |-> kind, client |-> c,
        user |-> Caller(c), target |-> target, role |-> role]]
  /\ UNCHANGED <<account, cookie, live, page, late>>

OpenSession(r, b) == Begin(r, "open", b, Nobody, "member")

ListAccounts(r, b) == Begin(r, "list", b, Nobody, "member")

CreateAccount(r, c, role) ==
  /\ c \in Browsers => page[c].current # Nobody
  /\ Begin(r, "create", c, Nobody, role)

(* A save sends the role its row shows, changed or not.                    *)
UpdateAccount(r, c, u, role) ==
  /\ c \in Browsers =>
       /\ page[c].accounts[u] # "none"
       /\ CanModify(page[c], u) \/ role = page[c].accounts[u]
  /\ Begin(r, "update", c, u, role)

DeleteAccount(r, c, u) ==
  /\ c \in Browsers => page[c].accounts[u] # "none" /\ CanModify(page[c], u)
  /\ Begin(r, "delete", c, u, "member")

(* Answered: the page reloads its list by a request of its own.            *)
Answered(r) == request' = [request EXCEPT ![r] = NoRequest]

Admit(r, kind) == request[r].stage = "admitted" /\ request[r].kind = kind

Create(r, u) ==
  /\ Admit(r, "create")
  /\ account[u] = "free"
  /\ account' = [account EXCEPT ![u] = request[r].role]
  /\ Answered(r)
  /\ UNCHANGED <<cookie, live, page, late>>

(* A name that is taken, a request that is refused, a database error.      *)
Refuse(r) ==
  /\ request[r].stage = "admitted"
  /\ Answered(r)
  /\ UNCHANGED <<account, cookie, live, page, late>>

(* Faulty variant: the check for the last admin is the page's alone.       *)
UpdateUnchecked(r) ==
  /\ Admit(r, "update")
  /\ LET u == request[r].target IN
     /\ Active(u)
     /\ u # request[r].user
     /\ account' = [account EXCEPT ![u] = request[r].role]
  /\ Answered(r)
  /\ UNCHANGED <<cookie, live, page, late>>

Update(r) ==
  /\ Admit(r, "update")
  /\ LET u == request[r].target IN
     /\ Active(u)
     /\ AdminChangeAllowed(u, request[r].user, request[r].role)
     /\ account' = [account EXCEPT ![u] = request[r].role]
  /\ Answered(r)
  /\ UNCHANGED <<cookie, live, page, late>>

Delete(r) ==
  /\ Admit(r, "delete")
  /\ LET u == request[r].target IN
     /\ Active(u)
     /\ DeletionAllowed(u, request[r].user)
     /\ account' = [account EXCEPT ![u] = "deleted"]
     /\ cookie' = [b \in Browsers |-> IF cookie[b] = u THEN Nobody ELSE cookie[b]]
  /\ request' = [request EXCEPT ![r].stage = "forgetting"]
  /\ UNCHANGED <<live, page, late>>

(* Faulty variant: the sessions of the caller are forgotten.               *)
ForgetCaller(r) ==
  /\ request[r].stage = "forgetting"
  /\ live' = live \ {request[r].user}
  /\ Answered(r)
  /\ UNCHANGED <<account, cookie, page, late>>

(* forget_live_sessions_for_owners                                         *)
ForgetLiveSessions(r) ==
  /\ request[r].stage = "forgetting"
  /\ live' = live \ {request[r].target}
  /\ Answered(r)
  /\ UNCHANGED <<account, cookie, page, late>>

(* The handler reads; its answer reaches the page, which may meanwhile     *)
(* have signed out and gone.                                               *)
ReadAccounts(r) ==
  /\ Admit(r, "list")
  /\ LET b == request[r].client IN
     page' = [page EXCEPT ![b] = [current |-> request[r].user, accounts |-> Listed]]
  /\ Answered(r)
  /\ UNCHANGED <<account, cookie, live, late>>

(* Creating or restoring a session (SessionLifecycle) with the record of   *)
(* the user read before: the session is inserted whatever has become of    *)
(* the account.                                                            *)
Open(r) ==
  /\ Admit(r, "open")
  /\ request[r].user # Nobody
  /\ live' = live \cup {request[r].user}
  /\ late' = IF Active(request[r].user) THEN late ELSE late \cup {request[r].user}
  /\ Answered(r)
  /\ UNCHANGED <<account, cookie, page>>

-----------------------------------------------------------------------------
AccountsInit ==
  /\ account = [u \in Users |-> "free"]
  /\ cookie = [b \in Browsers |-> Nobody]
  /\ live = {}
  /\ request = [r \in Requests |-> NoRequest]
  /\ page = [b \in Browsers |-> BlankPage]
  /\ late = {}

AccountsNext ==
  \/ \E b \in Browsers, u \in Users : BootstrapRegister(b, u)
  \/ \E b \in Browsers, u \in Users : SignIn(b, u)
  \/ \E b \in Browsers : SignOut(b)
  \/ \E r \in Requests, b \in Browsers : OpenSession(r, b)
  \/ \E r \in Requests, b \in Browsers : ListAccounts(r, b)
  \/ \E r \in Requests, c \in Clients, role \in Roles : CreateAccount(r, c, role)
  \/ \E r \in Requests, c \in Clients, u \in Users, role \in Roles :
       UpdateAccount(r, c, u, role)
  \/ \E r \in Requests, c \in Clients, u \in Users : DeleteAccount(r, c, u)
  \/ \E r \in Requests, u \in Users : Create(r, u)
  \/ \E r \in Requests : Refuse(r)
  \/ \E r \in Requests : Update(r)
  \/ \E r \in Requests : Delete(r)
  \/ \E r \in Requests : ForgetLiveSessions(r)
  \/ \E r \in Requests : ReadAccounts(r)
  \/ \E r \in Requests : Open(r)

AccountsSpec == AccountsInit /\ [][AccountsNext]_accountsVars

-----------------------------------------------------------------------------
(* Properties.                                                             *)

(* Every row, cookie, handler and page has its type.                       *)
AccountsTypeOK ==
  /\ account \in [Users -> Roles \cup {"free", "deleted"}]
  /\ cookie \in [Browsers -> Users \cup {Nobody}]
  /\ live \subseteq Users
  /\ request \in [Requests -> [stage : {"idle", "admitted", "forgetting"},
                               kind : Kinds, client : Clients,
                               user : Users \cup {Nobody},
                               target : Users \cup {Nobody}, role : Roles]]
  /\ page \in [Browsers -> [current : Users \cup {Nobody},
                            accounts : [Users -> Roles \cup {"none"}]]]
  /\ late \subseteq Users

(* Once there is an admin there always is one, and registration as the     *)
(* first user stays closed: also when admins demote and delete each other  *)
(* at once, or go on after they were demoted, and when the command line,   *)
(* no account itself, does.  Before the first admin it may not be so: the  *)
(* command line can create a member first.                                 *)
AdminRemains == [][ActiveAdmins # {} => ActiveAdmins' # {}]_accountsVars

(* Once the deletion of an account is answered it has no live session, but *)
(* for one opened by a request admitted before the deletion.               *)
DeletedAccountsHaveNoSessions ==
  \A u \in live :
    account[u] = "deleted" =>
      \/ u \in late
      \/ \E r \in Requests : request[r].stage = "forgetting" /\ request[r].target = u

=============================================================================
