----------------------------- MODULE WebSignIn ------------------------------
(***************************************************************************)
(* One browser with several tabs and the server it signs in to.            *)
(*                                                                         *)
(* Every page is a shell served with two cookies, a browser session and a  *)
(* CSRF token, made when the browser sends none, and with the token in its *)
(* text (server/assets.rs).  A page asks once who is signed in, and goes   *)
(* on, shows a form or shows what it is for (auth_page.rs, the accounts    *)
(* and workspaces pages, session_page_home.rs, auth_controls.rs).  Its     *)
(* requests carry the cookies of the moment they are sent; a request that  *)
(* changes anything also carries the token of its page, which must be the  *)
(* token of the cookie (auth.rs, server.rs).  Tabs share the cookies, and  *)
(* answers arrive in any order, so a page may be older than the cookies.   *)
(*                                                                         *)
(* An id stands for a UUID, the n-th that is made; one answer that sets    *)
(* both cookies uses one for both.  A wrong password is an account that does not exist.          *)
(***************************************************************************)
EXTENDS Integers, FiniteSets

CONSTANTS
  Tabs,     (* the tabs of the browser                                     *)
  Users,    (* the accounts there may be                                   *)
  MaxIds,   (* bound: the UUIDs cookies are made of                        *)
  Nobody,   (* no account, no cookie, no tab                               *)
  MaxActs,  (* bound: what the user does and others do                     *)
  MaxCalls  (* bound: requests on their way at one time                    *)

ASSUME WebSignInAssumption ==
  /\ Nobody \notin Users \cup Tabs \cup Nat
  /\ MaxIds \in Nat \ {0}
  /\ MaxActs \in Nat
  /\ MaxCalls \in Nat

VARIABLES
  role,   (* users: the role of each account that exists                   *)
  row,    (* browser_sessions: the account last signed in with an id       *)
  live,   (* browser_sessions: the rows that are not deleted               *)
  jar,    (* the cookies of the browser                                    *)
  made,   (* how many ids were made                                        *)
  tab,    (* the page in each tab                                          *)
  calls,  (* the requests on their way and their answers                   *)
  acts,   (* counts what the user and others did                           *)
  again   (* history: the ids signed in with more than once                *)

accountVars == <<role, row, live, again>>
browserVars == <<jar, made, tab>>
signInVars == <<accountVars, browserVars, calls, acts>>

-----------------------------------------------------------------------------
Ids == 1 .. MaxIds

Roles == {"none", "member", "admin"}

AuthPages == {"register", "sign-in"}
Pages == AuthPages \cup {"home", "settings", "workspaces", "session"}

(* A page is requested, then asks who is signed in, then stays: with what  *)
(* an admin or a member sees, a form, links to the forms, or an error.     *)
Moving == {"loading", "asking"}
Told == {"admin", "member", "register", "sign-in"}
Stages == Moving \cup Told \cup {"form", "failed", "closed"}

NoCookies == [session |-> Nobody, csrf |-> Nobody]

ClosedTab == [at |-> "home", back |-> FALSE, stage |-> "closed",
          sent |-> NoCookies, token |-> Nobody, shown |-> {}]

ReadKinds == {"status", "read"}
WriteKinds == {"register", "sign-in", "sign-out", "write"}

(* A request is sent with the cookies; its answer tells an account.  seen  *)
(* is history: the accounts its page had shown by then.                    *)
Request(t, kind, cookies, token, u, seen) ==
  [tab |-> t, kind |-> kind, session |-> cookies.session,
   csrf |-> cookies.csrf, token |-> token, user |-> u, seen |-> seen,
   answer |-> "none", told |-> Nobody, access |-> "failed"]

-----------------------------------------------------------------------------
(* The server.                                                             *)

(* authenticate_browser_session: the row and its account both exist.       *)
Account(i) == IF i \in live /\ role[row[i]] # "none" THEN row[i] ELSE Nobody

NoAccounts == \A u \in Users : role[u] = "none"

(* Faulty variant: any token will do.                                      *)
ValidCsrfByPresence(c) == c.csrf # Nobody /\ c.token # Nobody

(* validate_csrf                                                           *)
ValidCsrf(c) == c.csrf # Nobody /\ c.token = c.csrf

(* authorize_request: a request that changes something needs the token.    *)
Authorized(c) ==
  /\ c.session # Nobody
  /\ c.kind \in WriteKinds => ValidCsrf(c)

(* home_route_target, accounts_route_access and workspaces_route_access.   *)
Access(u) ==
  IF u # Nobody THEN role[u] ELSE IF NoAccounts THEN "register" ELSE "sign-in"

Answer(c, answer, u, access) ==
  calls' = (calls \ {c}) \cup
             {[c EXCEPT !.answer = answer, !.told = u, !.access = access]}

Refuse(c) ==
  /\ Answer(c, "refused", Nobody, "failed")
  /\ UNCHANGED accountVars

(* auth_status: needs no authentication and never refuses.                 *)
HandleStatus(c) ==
  /\ c.kind = "status"
  /\ Answer(c, "done", Account(c.session), Access(Account(c.session)))
  /\ UNCHANGED accountVars

(* A handler that reads: owner_context finds the account of the cookie.    *)
HandleRead(c) ==
  /\ c.kind = "read"
  /\ IF Authorized(c) /\ Account(c.session) # Nobody
       THEN Answer(c, "done", Account(c.session), "failed") /\ UNCHANGED accountVars
       ELSE Refuse(c)

(* A handler that changes something of the account of the cookie.          *)
HandleWrite(c) ==
  /\ c.kind = "write"
  /\ IF Authorized(c) /\ Account(c.session) # Nobody
       THEN Answer(c, "done", Account(c.session), "failed") /\ UNCHANGED accountVars
       ELSE Refuse(c)

(* bind_browser_session_to_user: a row that is there is signed in anew.    *)
Bind(i, u) ==
  /\ again' = IF row[i] = Nobody THEN again ELSE again \cup {i}
  /\ row' = [row EXCEPT ![i] = u]
  /\ live' = live \cup {i}

(* bootstrap_register                                                      *)
HandleRegister(c) ==
  /\ c.kind = "register"
  /\ IF Authorized(c) /\ NoAccounts
       THEN /\ role' = [role EXCEPT ![c.user] = "admin"]
            /\ Bind(c.session, c.user)
            /\ Answer(c, "done", c.user, "failed")
       ELSE Refuse(c)

(* sign_in                                                                 *)
HandleSignIn(c) ==
  /\ c.kind = "sign-in"
  /\ IF Authorized(c) /\ role[c.user] # "none"
       THEN /\ Bind(c.session, c.user)
            /\ Answer(c, "done", c.user, "failed")
            /\ UNCHANGED role
       ELSE Refuse(c)

(* sign_out: whoever is signed in, the answer expires both cookies.        *)
HandleSignOut(c) ==
  /\ c.kind = "sign-out"
  /\ IF Authorized(c)
       THEN /\ live' = live \ {c.session}
            /\ Answer(c, "done", Nobody, "failed")
            /\ UNCHANGED <<role, row, again>>
       ELSE Refuse(c)

Handle(c) ==
  /\ c \in calls
  /\ c.answer = "none"
  /\ \/ HandleStatus(c)
     \/ HandleRead(c)
     \/ HandleWrite(c)
     \/ HandleRegister(c)
     \/ HandleSignIn(c)
     \/ HandleSignOut(c)
  /\ UNCHANGED <<browserVars, acts>>

(* An admin elsewhere makes, changes and deletes accounts, never the last  *)
(* admin; deleting one ends its rows (Accounts).                           *)
ChangeAccount(u, r) ==
  /\ acts < MaxActs
  /\ r # role[u]
  /\ \E v \in Users \ {u} : role[v] = "admin"
  /\ role' = [role EXCEPT ![u] = r]
  /\ live' = IF r = "none" THEN {i \in live : row[i] # u} ELSE live
  /\ acts' = acts + 1
  /\ UNCHANGED <<row, again, browserVars, calls>>

-----------------------------------------------------------------------------
(* Pages come and go.                                                      *)

(* A page that is left hears of nothing; what it asked to be changed may   *)
(* still be.                                                               *)
Orphaned(t, others) ==
  {c \in others : c.tab # t} \cup
  {[c EXCEPT !.tab = Nobody] : c \in {d \in others : d.tab = t /\ d.kind \in WriteKinds}}

(* navigate_to, a link, a typed address: the shell is asked for with the   *)
(* cookies there are; back, the return_to of the address, names the chat   *)
(* to come back to.                                                        *)
NavigateTo(t, cookies, others, at, back) ==
  /\ tab' = [tab EXCEPT ![t] =
       [ClosedTab EXCEPT !.at = at, !.back = back, !.stage = "loading", !.sent = cookies]]
  /\ calls' = Orphaned(t, others)

(* app_shell_cookie and append_cookie_if_missing: each cookie that was not *)
(* sent is made, and set; the page has the token, made or sent.  Every     *)
(* page asks who is signed in, and a session page also reads its session.  *)
ShellArrives(t) ==
  /\ tab[t].stage = "loading"
  /\ LET sent == tab[t].sent
         fresh == made + 1
         now == [session |-> IF sent.session = Nobody THEN fresh ELSE jar.session,
                 csrf |-> IF sent.csrf = Nobody THEN fresh ELSE jar.csrf]
         token == IF sent.csrf = Nobody THEN fresh ELSE sent.csrf
         kinds == {"status"} \cup (IF tab[t].at = "session" THEN {"read"} ELSE {})
     IN /\ made' = IF Nobody \in {sent.session, sent.csrf} THEN fresh ELSE made
        /\ made' <= MaxIds
        /\ jar' = now
        /\ tab' = [tab EXCEPT ![t].stage = "asking", ![t].token = token]
        /\ calls' = calls \cup
             {Request(t, k, now, Nobody, Nobody, {}) : k \in kinds}
  /\ UNCHANGED <<accountVars, acts>>

CallsOf(t, kinds) == {c \in calls : c.tab = t /\ c.kind \in kinds}

(* The user opens a page, which may name a session to come back to.        *)
Open(t, at, back) ==
  /\ acts < MaxActs
  /\ NavigateTo(t, jar, calls, at, back)
  /\ acts' = acts + 1
  /\ UNCHANGED <<accountVars, jar, made>>

(* auth_success_path                                                       *)
SuccessPath(p) == IF p.back THEN "session" ELSE "home"

(* What the pages link to: settings and workspaces back to the chat they   *)
(* came from, the forms where one has to sign in, and the chat to both.    *)
Links(p) ==
  CASE p.stage \in {"register", "sign-in"} /\ p.at # "session"
         -> {<<p.stage, FALSE>>}
    [] p.stage \in {"admin", "member"} /\ p.at = "settings"
         -> {<<SuccessPath(p), FALSE>>}
    [] p.stage \in {"admin", "member"} /\ p.at = "workspaces"
         -> {<<"settings", FALSE>>, <<"session", FALSE>>}
    [] p.stage \in {"admin", "member"} /\ p.at = "session"
         -> {<<"workspaces", TRUE>>} \cup
            (IF p.stage = "admin" THEN {<<"settings", TRUE>>} ELSE {})
    [] OTHER -> {}

Follow(t) ==
  /\ acts < MaxActs
  /\ \E link \in Links(tab[t]) : NavigateTo(t, jar, calls, link[1], link[2])
  /\ acts' = acts + 1
  /\ UNCHANGED <<accountVars, jar, made>>

-----------------------------------------------------------------------------
(* What the user does on a page.                                           *)

Send(t, kind, u) ==
  /\ acts < MaxActs
  /\ Cardinality(calls) < MaxCalls
  /\ calls' = calls \cup {Request(t, kind, jar, tab[t].token, u,
                                   IF kind = "write" THEN tab[t].shown ELSE {})}
  /\ acts' = acts + 1
  /\ UNCHANGED <<accountVars, browserVars>>

(* submit_credentials_handler                                              *)
Submit(t, u) ==
  /\ tab[t].at \in AuthPages
  /\ tab[t].stage = "form"
  /\ CallsOf(t, AuthPages) = {}
  /\ Send(t, tab[t].at, u)

(* sign_out_handler, on the pages that show its button to who is signed in *)
SignOut(t) ==
  /\ tab[t].at \in {"settings", "session"}
  /\ tab[t].stage \in {"admin", "member"}
  /\ CallsOf(t, {"sign-out"}) = {}
  /\ Send(t, "sign-out", Nobody)

(* A session page offers its composer to anyone; the others what an admin  *)
(* or a member may change.                                                 *)
AskForChange(t) ==
  /\ \/ tab[t].at = "session" /\ tab[t].stage \in {"asking", "failed"} \cup Told
     \/ tab[t].at = "workspaces" /\ tab[t].stage \in {"admin", "member"}
     \/ tab[t].at = "settings" /\ tab[t].stage = "admin"
  /\ CallsOf(t, {"write"}) = {}
  /\ Send(t, "write", Nobody)

-----------------------------------------------------------------------------
(* Answers.                                                                *)

(* auth_page_route and navigate_home_target: where a page goes once it     *)
(* knows who is signed in; a page that stays has nowhere to go.            *)
AuthPageRoute(p, stage) ==
  IF stage \in {"admin", "member"}
    THEN {<<SuccessPath(p), FALSE>>}
    ELSE IF stage = p.at THEN {} ELSE {<<stage, p.back>>}

HomeTarget(stage) ==
  {<<IF stage \in {"admin", "member"} THEN "workspaces" ELSE stage, FALSE>>}

Goes(p, stage) ==
  CASE p.at \in AuthPages -> AuthPageRoute(p, stage)
    [] p.at = "home" -> HomeTarget(stage)
    [] OTHER -> {}

(* The page stays: a form, or what its access shows.  Where the account    *)
(* has something to list, the page lists it.                               *)
Stayed(p, c) ==
  [p EXCEPT !.stage = IF p.at \in AuthPages THEN "form" ELSE c.access,
            !.shown = IF c.told = Nobody THEN @ ELSE @ \cup {c.told}]

Lists(p, stage) ==
  \/ p.at = "workspaces" /\ stage \in {"admin", "member"}
  \/ p.at = "settings" /\ stage = "admin"

ReceiveStatus(c) ==
  LET t == c.tab
      rest == calls \ {c}
  IN /\ c.kind = "status"
     /\ c.answer = "done"
     /\ \/ \E to \in Goes(tab[t], c.access) : NavigateTo(t, jar, rest, to[1], to[2])
        \/ /\ Goes(tab[t], c.access) = {}
           /\ tab' = [tab EXCEPT ![t] = Stayed(@, c)]
           /\ calls' = rest \cup
                (IF Lists(tab[t], c.access)
                   THEN {Request(t, "read", jar, Nobody, Nobody, {})} ELSE {})
     /\ UNCHANGED jar

(* What is listed is shown, whoever the page was told before.              *)
ReceiveRead(c) ==
  /\ c.kind = "read"
  /\ tab' = IF c.answer = "done" THEN [tab EXCEPT ![c.tab].shown = @ \cup {c.told}] ELSE tab
  /\ calls' = calls \ {c}
  /\ UNCHANGED jar

ReceiveWrite(c) ==
  /\ c.kind = "write" \/ (c.kind \in WriteKinds /\ c.answer = "refused")
  /\ calls' = calls \ {c}
  /\ UNCHANGED <<jar, tab>>

ReceiveSignIn(c) ==
  /\ c.kind \in AuthPages
  /\ c.answer = "done"
  /\ NavigateTo(c.tab, jar, calls \ {c}, SuccessPath(tab[c.tab]), FALSE)
  /\ UNCHANGED jar

(* sign_out_response_headers: the browser drops both cookies, and the page *)
(* goes to sign-in, to come back to its chat.                              *)
ReceiveSignOut(c) ==
  LET p == tab[c.tab]
  IN /\ c.kind = "sign-out"
     /\ c.answer = "done"
     /\ jar' = NoCookies
     /\ NavigateTo(c.tab, NoCookies, calls \ {c}, "sign-in", p.at = "session" \/ p.back)

Receive(c) ==
  /\ c \in calls
  /\ c.answer # "none"
  /\ c.tab # Nobody
  /\ \/ ReceiveStatus(c)
     \/ ReceiveRead(c)
     \/ ReceiveWrite(c)
     \/ ReceiveSignIn(c)
     \/ ReceiveSignOut(c)
  /\ UNCHANGED <<accountVars, made, acts>>

(* The answer to a page that was left still sets cookies, or is dropped    *)
(* with its request.                                                       *)
ReceiveOrphan(c) ==
  /\ c \in calls
  /\ c.tab = Nobody
  /\ \/ UNCHANGED jar
     \/ /\ c.kind = "sign-out"
        /\ c.answer = "done"
        /\ jar' = NoCookies
  /\ calls' = calls \ {c}
  /\ UNCHANGED <<accountVars, made, tab, acts>>

(* A request fails on its way, handled or not: the page shows an error; a  *)
(* form that could not ask is shown all the same.                          *)
Break(c) ==
  /\ c \in calls
  /\ c.tab # Nobody
  /\ acts < MaxActs
  /\ tab' = IF c.kind = "status"
              THEN [tab EXCEPT ![c.tab].stage =
                      IF tab[c.tab].at \in AuthPages THEN "form" ELSE "failed"]
              ELSE tab
  /\ calls' = calls \ {c}
  /\ acts' = acts + 1
  /\ UNCHANGED <<accountVars, jar, made>>

-----------------------------------------------------------------------------
(* The browser as it was left: without cookies, or signed in or not with a *)
(* pair, and tabs closed or at rest on what they showed.                   *)
AtRest(at) ==
  LET u == Account(jar.session) IN
  [ClosedTab EXCEPT !.at = at, !.stage = Access(u), !.token = jar.csrf,
                !.shown = {u} \ {Nobody}]

SignInInit ==
  /\ role \in [Users -> Roles]
  /\ NoAccounts \/ \E u \in Users : role[u] = "admin"
  /\ made \in {0, 1}
  /\ jar = IF made = 0 THEN NoCookies ELSE [session |-> 1, csrf |-> 1]
  /\ row \in [Ids -> Users \cup {Nobody}]
  /\ \A i \in Ids : row[i] # Nobody => i <= made /\ role[row[i]] # "none"
  /\ live = {i \in Ids : row[i] # Nobody}
  /\ tab \in [Tabs -> {ClosedTab} \cup {AtRest(at) : at \in {"settings", "workspaces", "session"}}]
  /\ jar = NoCookies => tab = [t \in Tabs |-> ClosedTab]
  /\ calls = {}
  /\ acts = 0
  /\ again = {}

SignInNext ==
  \/ \E c \in calls : Handle(c) \/ Receive(c) \/ ReceiveOrphan(c) \/ Break(c)
  \/ \E u \in Users, r \in Roles : ChangeAccount(u, r)
  \/ \E t \in Tabs :
       \/ ShellArrives(t)
       \/ Follow(t)
       \/ SignOut(t)
       \/ AskForChange(t)
       \/ \E at \in Pages, back \in BOOLEAN : Open(t, at, back)
       \/ \E u \in Users : Submit(t, u)

SignInSpec == SignInInit /\ [][SignInNext]_signInVars
-----------------------------------------------------------------------------
(* A change a page asks for is made for an account the page showed, and    *)
(* for none but it, whatever other tabs did meanwhile: the token of a page *)
(* is worth nothing once its cookies are gone.  Only where the id of the   *)
(* cookie was signed in with again may it be another account.              *)
PagesActForTheAccountTheyShow ==
  \A c \in calls :
     c.kind = "write" /\ c.answer = "done"
     => c.seen \subseteq {c.told} \/ c.session \in again
=============================================================================
