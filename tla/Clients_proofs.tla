---------------------------- MODULE Clients_proofs ----------------------------
(***************************************************************************)
(* The two clients: the browser's pages ask for the account they show, and *)
(* the terminal ends up with what the session has said and asks.           *)
(*                                                                         *)
(* The browser (WebSignIn).  What a page asks to be changed is changed for *)
(* the account it showed.  The token of a page is worth something only     *)
(* while it is the token of the browser's cookies, and the two cookies go  *)
(* together: they are made together, sent together and expired together,   *)
(* and an id that is gone never comes back.  So a page whose token is      *)
(* still good has asked with the session that goes with it ever since it   *)
(* was served, and all it has shown is the account of that session -       *)
(* unless that was signed in with again.                                   *)
(*                                                                         *)
(* The terminal (CliChat).  SessionPage_proofs says what a stream leads    *)
(* its client to (Leads), whatever is on its way: each event either leaves *)
(* a fact alone or sets it.  Here the stream leads to a second channel,    *)
(* that of the updates the terminal drains, and that to what is shown; so  *)
(* the invariant says it twice, with the second channel's promise as what  *)
(* the first leads to.  A fact is what the terminal shows of one message   *)
(* (ReplyReaches), or, once all prompts are answered, that no request is   *)
(* shown or a refresh is due (RequestsGo).                                 *)
(***************************************************************************)
EXTENDS SessionPage_proofs, CliChat, WebSignIn

Cookies == Ids \cup {Nobody}

IsCall(c) ==
  /\ DOMAIN c = {"tab", "kind", "session", "csrf", "token", "user", "seen", "answer", "told",
                  "access"}
  /\ c.tab \in Tabs \cup {Nobody}
  /\ c.session \in Cookies
  /\ c.kind \in AuthPages => c.user \in Users
  /\ c.seen \subseteq Users
  /\ c.told \in Users \cup {Nobody}
  /\ c.told # Nobody => c.session # Nobody
  /\ c.kind = "read" /\ c.answer = "done" => c.told # Nobody
  /\ c.access \notin {"closed", "loading"}

IsCookies(k) ==
  /\ k.session \in Cookies
  /\ k.session # Nobody => k.session <= made

(* The two cookies are a pair.                                             *)
Paired(k) == k.session = k.csrf

IsPage(p) ==
  /\ DOMAIN p = {"at", "back", "stage", "sent", "token", "shown"}
  /\ p.shown \subseteq Users
  /\ p.token \in Cookies
  /\ p.token # Nobody => p.token <= made

SignInTypes ==
  /\ role \in [Users -> Roles]
  /\ row \in [Ids -> Users \cup {Nobody}]
  /\ live \subseteq Ids
  /\ made \in Nat
  /\ made <= MaxIds
  /\ IsCookies(jar)
  /\ DOMAIN tab = Tabs
  /\ \A t \in Tabs : IsPage(tab[t]) /\ IsCookies(tab[t].sent)
  /\ \A c \in calls : IsCall(c)

CookiesArePairs ==
  /\ Paired(jar)
  /\ \A t \in Tabs : Paired(tab[t].sent)
  /\ \A c \in calls : Paired(c)

(* The page of a tab, once it is served.                                   *)
Served(t) == tab[t].stage \notin {"closed", "loading"}

(* The account an id was signed in with, if only with one.                 *)
Belongs(i, u) == row[i] = u \/ i \in again

(* A page that is not served yet has asked and shown nothing; one that is  *)
(* has a token.                                                            *)
PagesBeginEmpty ==
  \A t \in Tabs :
     /\ ~Served(t) => tab[t].shown = {} /\ \A c \in calls : c.tab # t
     /\ Served(t) => tab[t].token # Nobody

(* A page whose token is good asks with the session that goes with it.     *)
GoodPagesAskAsOne ==
  \A t \in Tabs : Served(t) /\ tab[t].token = jar.csrf =>
     \A c \in calls : c.tab = t /\ c.kind \in ReadKinds => c.session = jar.session

GoodPagesShowOne ==
  \A t \in Tabs : Served(t) /\ tab[t].token = jar.csrf =>
     \A u \in tab[t].shown : Belongs(jar.session, u)

(* What an answer tells of a session, and what a page had shown when it    *)
(* asked for a change with a good token.                                   *)
CallsAreTold ==
  \A c \in calls :
     /\ c.kind \in ReadKinds /\ c.told # Nobody => Belongs(c.session, c.told)
     /\ c.kind = "write" /\ c.token = c.csrf /\ c.csrf # Nobody =>
          \A u \in c.seen : Belongs(c.session, u)

SignInInv ==
  /\ SignInTypes
  /\ CookiesArePairs
  /\ PagesBeginEmpty
  /\ GoodPagesAskAsOne
  /\ GoodPagesShowOne
  /\ CallsAreTold
  /\ PagesActForTheAccountTheyShow
-----------------------------------------------------------------------------
LEMMA NobodyIsNobody ==
  Nobody \notin Users /\ Nobody \notin Tabs /\ Nobody \notin Nat /\ Nobody \notin Ids
  BY WebSignInAssumption DEF Ids

LEMMA InvMeansPages == SignInInv => PagesActForTheAccountTheyShow
  BY DEF SignInInv

LEMMA SignInInitially ==
  ASSUME SignInInit
  PROVE  SignInInv
  <1>. USE NobodyIsNobody
  <1>1. /\ IsCookies(jar) /\ Paired(jar)
        /\ made \in Nat /\ made <= MaxIds
    BY WebSignInAssumption DEF SignInInit, IsCookies, NoCookies, Cookies, Ids, Paired
  <1>2. role \in [Users -> Roles] /\ row \in [Ids -> Users \cup {Nobody}] /\ live \subseteq Ids
    BY DEF SignInInit
  <1>3. Account(jar.session) \in Users \cup {Nobody}
        /\ (Account(jar.session) # Nobody => row[jar.session] = Account(jar.session))
    BY <1>2 DEF Account
  <1>4. Access(Account(jar.session)) \notin {"closed", "loading"}
    BY <1>2, <1>3 DEF Access, SignInInit, Roles, Account
  <1>5. ASSUME NEW t \in Tabs
        PROVE  /\ IsPage(tab[t]) /\ tab[t].sent = NoCookies
               /\ ~Served(t) => tab[t].shown = {}
               /\ Served(t) => tab[t].token # Nobody
               /\ \A u \in tab[t].shown : row[jar.session] = u
    <2>1. CASE tab[t] = ClosedTab
      BY <2>1 DEF ClosedTab, IsPage, Served, Cookies, NoCookies
    <2>2. CASE jar # NoCookies /\ \E at \in {"settings", "workspaces", "session"} : tab[t] = AtRest(at)
      <3>1. jar.csrf \in Ids /\ jar.csrf <= made
        BY <2>2, WebSignInAssumption DEF SignInInit, Ids
      <3>2. PICK at : tab[t] = AtRest(at)
        BY <2>2
      <3>. DEFINE u == Account(jar.session)
      <3>3. tab[t] = [at |-> at, back |-> FALSE, stage |-> Access(u), sent |-> NoCookies,
                      token |-> jar.csrf, shown |-> {u} \ {Nobody}]
        BY <3>2 DEF AtRest, ClosedTab
      <3>. QED
        BY <1>3, <1>4, <3>1, <3>3 DEF IsPage, Served, Cookies
    <2>. QED
      BY <2>1, <2>2 DEF SignInInit
  <1>6. calls = {} /\ DOMAIN tab = Tabs
    BY DEF SignInInit
  <1>7. IsCookies(NoCookies) /\ Paired(NoCookies)
    BY DEF IsCookies, NoCookies, Paired, Cookies
  <1>. QED
    BY <1>1, <1>2, <1>5, <1>6, <1>7
    DEF SignInInv, SignInTypes, CookiesArePairs, PagesBeginEmpty, GoodPagesAskAsOne,
        GoodPagesShowOne, CallsAreTold, PagesActForTheAccountTheyShow, Belongs

-----------------------------------------------------------------------------
(* The server: a handler answers one request, and binds its id at most.    *)

LEMMA BelongsStays ==
  ASSUME SignInTypes, NEW i \in Ids, NEW v \in Users,
         UNCHANGED <<row, again>> \/ Bind(i, v),
         NEW j \in Ids, NEW u \in Users, Belongs(j, u)
  PROVE  Belongs(j, u)'
  BY NobodyIsNobody DEF SignInTypes, Bind, Belongs

(* What answering leaves of a request, and what it may tell.               *)
AnswerOf(c, d) ==
  /\ IsCall(d)
  /\ d.tab = c.tab /\ d.kind = c.kind /\ d.session = c.session /\ d.csrf = c.csrf
  /\ d.token = c.token /\ d.seen = c.seen
  /\ d.told # Nobody => d.session # Nobody

LEMMA HandlerAnswers ==
  ASSUME SignInInv, NEW c \in calls, Handle(c)
  PROVE  \E d : /\ calls' = (calls \ {c}) \cup {d}
                /\ AnswerOf(c, d)
                /\ d.kind \in ReadKinds /\ d.told # Nobody => d.told = row[d.session]
                /\ d.kind \in ReadKinds \cup {"write"} => UNCHANGED <<row, again>>
                /\ d.kind = "write" /\ d.answer = "done" =>
                      /\ d.told = row[d.session]
                      /\ d.token = d.csrf /\ d.csrf # Nobody
  <1>. USE NobodyIsNobody
  <1>1. IsCall(c) /\ live \subseteq Ids /\ row \in [Ids -> Users \cup {Nobody}]
        /\ role \in [Users -> Roles]
    BY DEF SignInInv, SignInTypes
  <1>2. \A i : /\ Account(i) \in Users \cup {Nobody}
               /\ Account(i) # Nobody => Account(i) = row[i] /\ i \in Ids
    BY <1>1 DEF Account
  <1>2a. \A i : Access(Account(i)) \notin {"closed", "loading"}
    BY <1>1, <1>2 DEF Access, Roles
  <1>. DEFINE D(a, u, x) == [c EXCEPT !.answer = a, !.told = u, !.access = x]
  <1>3. ASSUME NEW a, NEW u \in Users \cup {Nobody}, NEW x,
               u # Nobody => c.session # Nobody, x \notin {"closed", "loading"},
               c.kind = "read" /\ a = "done" => u # Nobody
        PROVE  /\ AnswerOf(c, D(a, u, x))
               /\ D(a, u, x).told = u /\ D(a, u, x).answer = a
    BY <1>1, <1>3 DEF IsCall, AnswerOf
  <1>. DEFINE Sends(d) == calls' = (calls \ {c}) \cup {d}
  <1>3a. \A a, u, x : Answer(c, a, u, x) => Sends(D(a, u, x))
    BY DEF Answer
  <1>. HIDE DEF D
  <1>. DEFINE
    Good(d) ==
      /\ calls' = (calls \ {c}) \cup {d}
      /\ AnswerOf(c, d)
      /\ d.kind \in ReadKinds /\ d.told # Nobody => d.told = row[d.session]
      /\ d.kind \in ReadKinds \cup {"write"} => UNCHANGED <<row, again>>
      /\ d.kind = "write" /\ d.answer = "done" =>
           /\ d.told = row[d.session]
           /\ d.token = d.csrf /\ d.csrf # Nobody
  <1>4. ASSUME Refuse(c)
        PROVE  Good(D("refused", Nobody, "failed"))
    BY <1>3, <1>3a, <1>4 DEF Refuse, accountVars
  <1>5. CASE HandleStatus(c)
    <2>. DEFINE d == D("done", Account(c.session), Access(Account(c.session)))
    <2>1. AnswerOf(c, d) /\ d.told = Account(c.session) /\ d.answer = "done"
      BY <1>2, <1>2a, <1>3, <1>5 DEF HandleStatus
    <2>2. c.kind = "status" /\ calls' = (calls \ {c}) \cup {d} /\ UNCHANGED <<row, again>>
      BY <1>5, <1>3a DEF HandleStatus, accountVars
    <2>3. Good(d)
      BY <1>2, <2>1, <2>2 DEF AnswerOf
    <2>. QED
      BY <2>3
  <1>6. CASE HandleRead(c) \/ HandleWrite(c)
    <2>. DEFINE d == D("done", Account(c.session), "failed")
    <2>2. CASE Refuse(c)
      BY <1>4, <2>2
    <2>3. CASE ~Refuse(c)
      <3>1. /\ c.kind \in {"read", "write"} /\ UNCHANGED <<row, again>>
            /\ Authorized(c) /\ Account(c.session) # Nobody
            /\ calls' = (calls \ {c}) \cup {d}
        BY <1>6, <2>3, <1>3a DEF HandleRead, HandleWrite, accountVars
      <3>2. AnswerOf(c, d) /\ d.told = Account(c.session) /\ d.answer = "done"
        BY <1>2, <1>3, <3>1
      <3>3. Good(d)
        BY <1>2, <3>1, <3>2 DEF AnswerOf, Authorized, ValidCsrf, WriteKinds
      <3>. QED
        BY <3>3
    <2>. QED
      BY <2>2, <2>3
  <1>7. CASE HandleRegister(c) \/ HandleSignIn(c)
    <2>. DEFINE d == D("done", c.user, "failed")
    <2>2. CASE Refuse(c)
      BY <1>4, <2>2
    <2>3. CASE ~Refuse(c)
      <3>1. /\ c.kind \in AuthPages /\ Authorized(c)
            /\ calls' = (calls \ {c}) \cup {d}
        BY <1>7, <2>3, <1>3a DEF HandleRegister, HandleSignIn, AuthPages
      <3>2. AnswerOf(c, d)
        BY <1>1, <1>3, <3>1 DEF Authorized, IsCall, AuthPages
      <3>3. Good(d)
        BY <3>1, <3>2 DEF AnswerOf, AuthPages, ReadKinds
      <3>. QED
        BY <3>3
    <2>. QED
      BY <2>2, <2>3
  <1>8. CASE HandleSignOut(c)
    <2>. DEFINE d == D("done", Nobody, "failed")
    <2>1. CASE Refuse(c)
      BY <1>4, <2>1
    <2>2. CASE ~Refuse(c)
      <3>1. c.kind = "sign-out" /\ calls' = (calls \ {c}) \cup {d}
        BY <1>8, <2>2, <1>3a DEF HandleSignOut
      <3>2. Good(d)
        BY <1>3, <3>1 DEF AnswerOf, ReadKinds
      <3>. QED
        BY <3>2
    <2>. QED
      BY <2>1, <2>2
  <1>. QED
    BY <1>5, <1>6, <1>7, <1>8 DEF Handle

(* What a handler does to the accounts and sessions.                       *)
LEMMA HandlerBinds ==
  ASSUME SignInInv, NEW c \in calls, Handle(c)
  PROVE  /\ UNCHANGED <<row, again>> \/ \E i \in Ids, v \in Users : Bind(i, v)
         /\ role' \in [Users -> Roles]
         /\ row' \in [Ids -> Users \cup {Nobody}]
         /\ live' \subseteq Ids
         /\ again \subseteq again'
         /\ UNCHANGED <<jar, made, tab>>
  <1>1. IsCall(c) /\ live \subseteq Ids /\ row \in [Ids -> Users \cup {Nobody}]
        /\ role \in [Users -> Roles]
    BY DEF SignInInv, SignInTypes
  <1>2. UNCHANGED <<jar, made, tab>>
    BY DEF Handle, browserVars
  <1>3. CASE UNCHANGED accountVars
    BY <1>1, <1>2, <1>3 DEF accountVars
  <1>4. CASE HandleSignOut(c) /\ ~UNCHANGED accountVars
    BY <1>1, <1>2, <1>4 DEF HandleSignOut, Refuse
  <1>5. CASE (HandleRegister(c) \/ HandleSignIn(c)) /\ ~UNCHANGED accountVars
    <2>1. /\ c.session \in Ids /\ c.user \in Users /\ Bind(c.session, c.user)
          /\ role' \in [Users -> Roles]
      BY <1>1, <1>5 DEF Roles, HandleRegister, HandleSignIn, Refuse, Authorized, IsCall, Cookies, AuthPages
    <2>. QED
      BY <1>1, <1>2, <2>1 DEF Bind
  <1>. QED
    BY <1>3, <1>4, <1>5 DEF Handle, HandleStatus, HandleRead, HandleWrite, Refuse, accountVars

LEMMA HandlerStep ==
  ASSUME SignInInv, NEW c \in calls, Handle(c)
  PROVE  SignInInv'
  <1>. USE NobodyIsNobody
  <1>1. PICK d :
          /\ calls' = (calls \ {c}) \cup {d}
          /\ AnswerOf(c, d)
          /\ d.kind \in ReadKinds /\ d.told # Nobody => d.told = row[d.session]
          /\ d.kind \in ReadKinds \cup {"write"} => UNCHANGED <<row, again>>
          /\ d.kind = "write" /\ d.answer = "done" =>
                /\ d.told = row[d.session]
                /\ d.token = d.csrf /\ d.csrf # Nobody
    BY HandlerAnswers
  <1>2. ASSUME NEW j \in Ids, NEW u \in Users, Belongs(j, u)
        PROVE  Belongs(j, u)'
    <2>1. CASE UNCHANGED <<row, again>>
      BY <1>2, <2>1 DEF Belongs
    <2>2. CASE \E i \in Ids, v \in Users : Bind(i, v)
      BY <1>2, <2>2, BelongsStays DEF SignInInv
    <2>. QED
      BY <2>1, <2>2, HandlerBinds
  <1>3. SignInTypes'
    BY <1>1, HandlerBinds DEF SignInInv, SignInTypes, AnswerOf, IsCall, IsPage, IsCookies
  <1>4. CookiesArePairs'
    BY <1>1, HandlerBinds DEF SignInInv, CookiesArePairs, Paired, AnswerOf
  <1>5. PagesBeginEmpty'
    BY <1>1, HandlerBinds DEF SignInInv, PagesBeginEmpty, Served, AnswerOf
  <1>6. GoodPagesAskAsOne'
    BY <1>1, HandlerBinds DEF SignInInv, GoodPagesAskAsOne, Served, AnswerOf
  <1>7. GoodPagesShowOne'
    <2>1. ASSUME NEW t \in Tabs, Served(t), tab[t].token = jar.csrf
          PROVE  jar.session \in Ids /\ tab[t].shown \subseteq Users
      BY <2>1 DEF SignInInv, PagesBeginEmpty, CookiesArePairs, Paired, SignInTypes, IsCookies, Cookies, IsPage
    <2>. QED
      BY <1>2, <2>1, HandlerBinds DEF SignInInv, GoodPagesShowOne, Served
  <1>8. CallsAreTold'
    <2>1. ASSUME NEW e \in calls \ {c}
          PROVE  /\ e.kind \in ReadKinds /\ e.told # Nobody => Belongs(e.session, e.told)'
                 /\ e.kind = "write" /\ e.token = e.csrf /\ e.csrf # Nobody =>
                      \A u \in e.seen : Belongs(e.session, u)'
      <3>1. IsCall(e) /\ Paired(e)
        BY DEF SignInInv, SignInTypes, CookiesArePairs
      <3>. QED
        BY <1>2, <3>1 DEF SignInInv, CallsAreTold, IsCall, Paired, Cookies
    <2>2. d.kind \in ReadKinds /\ d.told # Nobody => Belongs(d.session, d.told)'
      BY <1>1 DEF Belongs
    <2>3. d.kind = "write" /\ d.token = d.csrf /\ d.csrf # Nobody =>
            \A u \in d.seen : Belongs(d.session, u)'
      BY <1>1 DEF SignInInv, CallsAreTold, AnswerOf, Belongs
    <2>. QED
      BY <1>1, <2>1, <2>2, <2>3 DEF CallsAreTold
  <1>9. PagesActForTheAccountTheyShow'
    <2>1. d.kind = "write" /\ d.answer = "done" => d.seen \subseteq {d.told} \/ d.session \in again
      BY <1>1 DEF SignInInv, CallsAreTold, AnswerOf, Belongs
    <2>. QED
      BY <1>1, <2>1, HandlerBinds DEF SignInInv, PagesActForTheAccountTheyShow
  <1>. QED
    BY <1>3, <1>4, <1>5, <1>6, <1>7, <1>8, <1>9 DEF SignInInv

(* Accounts change elsewhere: no id is bound.                              *)
LEMMA ChangeAccountStep ==
  ASSUME SignInInv, NEW v \in Users, NEW r \in Roles, ChangeAccount(v, r)
  PROVE  SignInInv'
  <1>1. UNCHANGED <<row, again, jar, made, tab, calls>> /\ role' \in [Users -> Roles]
        /\ live' \subseteq Ids
    BY DEF ChangeAccount, browserVars, SignInInv, SignInTypes
  <1>. QED
    BY <1>1 DEF SignInInv, SignInTypes, CookiesArePairs, PagesBeginEmpty, Served,
                GoodPagesAskAsOne, GoodPagesShowOne, CallsAreTold,
                PagesActForTheAccountTheyShow, Belongs, IsPage, IsCookies, IsCall

-----------------------------------------------------------------------------
(* The browser: the accounts and the sessions stay.                        *)

(* A page is left for another, and the cookies may be expired.             *)
LEMMA NavigateStep ==
  ASSUME SignInInv, NEW t \in Tabs, NEW kept \in SUBSET calls, NEW at, NEW back,
         UNCHANGED <<accountVars, made>>, jar' \in {jar, NoCookies},
         NavigateTo(t, jar', kept, at, back)
  PROVE  SignInInv'
  <1>. USE NobodyIsNobody
  <1>. DEFINE p == [ClosedTab EXCEPT !.at = at, !.back = back, !.stage = "loading", !.sent = jar']
  <1>1. /\ tab' = [tab EXCEPT ![t] = p]
        /\ DOMAIN p = {"at", "back", "stage", "sent", "token", "shown"}
        /\ p.stage = "loading" /\ p.sent = jar' /\ p.token = Nobody /\ p.shown = {}
    BY DEF NavigateTo, ClosedTab
  <1>2. IsCookies(jar)' /\ Paired(jar)'
    BY DEF SignInInv, SignInTypes, CookiesArePairs, IsCookies, Paired, NoCookies, Cookies
  <1>. HIDE DEF p
  <1>3. tab'[t] = p /\ DOMAIN tab' = Tabs /\ \A o \in Tabs \ {t} : tab'[o] = tab[o]
    BY <1>1 DEF SignInInv, SignInTypes
  <1>4. ASSUME NEW d \in calls'
        PROVE  /\ d.tab # t
               /\ \/ d \in calls
                  \/ \E c \in calls : d = [c EXCEPT !.tab = Nobody] /\ c.kind \in WriteKinds
    <2>1. calls' = Orphaned(t, kept)
      BY DEF NavigateTo
    <2>2. CASE d \in {c \in kept : c.tab # t}
      BY <2>2
    <2>3. CASE d \in {[c EXCEPT !.tab = Nobody] : c \in {e \in kept : e.tab = t /\ e.kind \in WriteKinds}}
      <3>1. PICK c \in calls : d = [c EXCEPT !.tab = Nobody] /\ c.kind \in WriteKinds
        BY <2>3
      <3>2. d.tab = Nobody
        BY <3>1 DEF SignInInv, SignInTypes, IsCall
      <3>. QED
        BY <3>1, <3>2
    <2>. QED
      BY <2>1, <2>2, <2>3 DEF Orphaned
  <1>5. ASSUME NEW d \in calls'
        PROVE  /\ IsCall(d)
               /\ \E c \in calls : /\ d.tab \in {c.tab, Nobody} /\ d.kind = c.kind
                                   /\ d.session = c.session /\ d.csrf = c.csrf
                                   /\ d.token = c.token /\ d.seen = c.seen
                                   /\ d.told = c.told /\ d.answer = c.answer
    <2>1. CASE d \in calls
      BY <2>1 DEF SignInInv, SignInTypes
    <2>2. CASE \E c \in calls : d = [c EXCEPT !.tab = Nobody]
      <3>1. PICK c \in calls : d = [c EXCEPT !.tab = Nobody]
        BY <2>2
      <3>2. IsCall(c)
        BY DEF SignInInv, SignInTypes
      <3>. QED
        BY <3>1, <3>2 DEF IsCall
    <2>. QED
      BY <1>4, <2>1, <2>2
  <1>6. SignInTypes'
    BY <1>1, <1>2, <1>3, <1>5
    DEF SignInInv, SignInTypes, IsPage, IsCookies, Cookies, accountVars
  <1>7. CookiesArePairs'
    BY <1>1, <1>2, <1>3, <1>5 DEF SignInInv, CookiesArePairs, Paired
  <1>8. PagesBeginEmpty'
    BY <1>1, <1>3, <1>4, <1>5 DEF SignInInv, PagesBeginEmpty, Served
  <1>9. GoodPagesAskAsOne'
    <2>1. ASSUME NEW o \in Tabs, Served(o)', tab'[o].token = jar'.csrf
          PROVE  o # t /\ Served(o) /\ tab[o].token = jar.csrf /\ jar' = jar
      BY <1>1, <1>3, <2>1 DEF Served, NoCookies, SignInInv, PagesBeginEmpty
    <2>. QED
      BY <1>3, <1>5, <2>1 DEF SignInInv, GoodPagesAskAsOne
  <1>10. GoodPagesShowOne'
    <2>1. ASSUME NEW o \in Tabs, Served(o)', tab'[o].token = jar'.csrf
          PROVE  o # t /\ Served(o) /\ tab[o].token = jar.csrf /\ jar' = jar
      BY <1>1, <1>3, <2>1 DEF Served, NoCookies, SignInInv, PagesBeginEmpty
    <2>. QED
      BY <1>3, <2>1 DEF SignInInv, GoodPagesShowOne, Belongs, accountVars
  <1>11. CallsAreTold'
    BY <1>5 DEF SignInInv, CallsAreTold, Belongs, accountVars
  <1>12. PagesActForTheAccountTheyShow'
    BY <1>5 DEF SignInInv, PagesActForTheAccountTheyShow, accountVars
  <1>. QED
    BY <1>6, <1>7, <1>8, <1>9, <1>10, <1>11, <1>12 DEF SignInInv

(* A new request, with the cookies there are.                              *)
LEMMA RequestIsNew ==
  ASSUME NEW t \in Tabs, NEW kind, NEW cookies, NEW token, NEW u, NEW sn \in SUBSET Users,
         IsCookies(cookies), Paired(cookies), kind \in AuthPages => u \in Users
  PROVE  LET c == Request(t, kind, cookies, token, u, sn)
         IN  /\ IsCall(c) /\ Paired(c)
             /\ c.tab = t /\ c.kind = kind /\ c.session = cookies.session
             /\ c.csrf = cookies.csrf /\ c.token = token /\ c.seen = sn
             /\ c.answer = "none" /\ c.told = Nobody
  BY NobodyIsNobody DEF Request, IsCall, Paired, IsCookies

(* A page shows more of what it was told, and asks more with the cookies   *)
(* there are; requests are over.                                           *)
LEMMA TabStep ==
  ASSUME SignInInv, UNCHANGED <<accountVars, made, jar>>,
         NEW t \in Tabs, Served(t),
         DOMAIN tab' = Tabs, \A o \in Tabs \ {t} : tab'[o] = tab[o],
         IsPage(tab[t])', tab'[t].sent = tab[t].sent, tab'[t].token = tab[t].token, Served(t)',
         NEW told, tab'[t].shown \subseteq tab[t].shown \cup told,
         tab[t].token = jar.csrf => \A u \in told : Belongs(jar.session, u),
         NEW new, calls' \subseteq calls \cup new,
         \A d \in new :
            /\ IsCall(d) /\ Paired(d) /\ d.tab = t
            /\ d.session = jar.session /\ d.csrf = jar.csrf
            /\ d.answer = "none" /\ d.told = Nobody
            /\ d.kind = "write" => d.token = tab[t].token /\ d.seen \subseteq tab[t].shown
  PROVE  SignInInv'
  <1>. USE NobodyIsNobody
  <1>1. SignInTypes'
    BY DEF SignInInv, SignInTypes, IsPage, IsCookies, IsCall, accountVars
  <1>2. CookiesArePairs'
    BY DEF SignInInv, CookiesArePairs, Paired
  <1>3. PagesBeginEmpty'
    BY DEF SignInInv, PagesBeginEmpty, Served
  <1>4. GoodPagesAskAsOne'
    BY DEF SignInInv, GoodPagesAskAsOne, Served
  <1>5. GoodPagesShowOne'
    BY DEF SignInInv, GoodPagesShowOne, Served, Belongs, accountVars
  <1>6. CallsAreTold'
    <2>1. ASSUME NEW d \in new, d.kind = "write", d.token = d.csrf
          PROVE  \A u \in d.seen : Belongs(d.session, u)
      BY <2>1 DEF SignInInv, GoodPagesShowOne
    <2>. QED
      BY <2>1 DEF SignInInv, CallsAreTold, Belongs, accountVars
  <1>7. PagesActForTheAccountTheyShow'
    BY DEF SignInInv, PagesActForTheAccountTheyShow, accountVars
  <1>. QED
    BY <1>1, <1>2, <1>3, <1>4, <1>5, <1>6, <1>7 DEF SignInInv

(* Requests are over, and the cookies may be expired.                      *)
LEMMA CallsGo ==
  ASSUME SignInInv, UNCHANGED <<accountVars, made, tab>>, jar' \in {jar, NoCookies},
         calls' \subseteq calls
  PROVE  SignInInv'
  <1>. USE NobodyIsNobody
  <1>1. SignInTypes' /\ CookiesArePairs'
    BY DEF SignInInv, SignInTypes, CookiesArePairs, Paired, IsPage, IsCookies, IsCall,
           accountVars, NoCookies, Cookies
  <1>2. PagesBeginEmpty'
    BY DEF SignInInv, PagesBeginEmpty, Served
  <1>3. ASSUME NEW t \in Tabs, Served(t), tab[t].token = jar'.csrf
        PROVE  jar' = jar
    BY <1>3 DEF SignInInv, PagesBeginEmpty, NoCookies
  <1>4. GoodPagesAskAsOne' /\ GoodPagesShowOne'
    BY <1>3 DEF SignInInv, GoodPagesAskAsOne, GoodPagesShowOne, Served, Belongs, accountVars
  <1>5. CallsAreTold' /\ PagesActForTheAccountTheyShow'
    BY DEF SignInInv, CallsAreTold, PagesActForTheAccountTheyShow, Belongs, accountVars
  <1>. QED
    BY <1>1, <1>2, <1>4, <1>5 DEF SignInInv

(* A page is served: with the token it is sent, or with one that is new.   *)
LEMMA ShellStep ==
  ASSUME SignInInv, NEW t \in Tabs, ShellArrives(t)
  PROVE  SignInInv'
  <1>. USE NobodyIsNobody
  <1>. DEFINE
    sent == tab[t].sent
    fresh == made + 1
    token == IF sent.csrf = Nobody THEN fresh ELSE sent.csrf
  <1>1. IsPage(tab[t]) /\ IsCookies(sent) /\ Paired(sent) /\ IsCookies(jar) /\ Paired(jar)
        /\ made \in Nat /\ t \in DOMAIN tab /\ ~Served(t)
    BY DEF SignInInv, SignInTypes, CookiesArePairs, ShellArrives, Served
  <1>2. /\ \/ sent.csrf # Nobody /\ jar'.session = jar.session /\ jar'.csrf = jar.csrf /\ made' = made
           \/ sent.csrf = Nobody /\ jar'.session = fresh /\ jar'.csrf = fresh /\ made' = fresh
        /\ made' <= MaxIds
        /\ UNCHANGED <<accountVars, acts>>
    BY <1>1 DEF ShellArrives, Paired
  <1>3. /\ DOMAIN tab' = Tabs
        /\ \A o \in Tabs \ {t} : tab'[o] = tab[o]
        /\ tab'[t].stage = "asking" /\ tab'[t].token = token
        /\ tab'[t].sent = sent /\ tab'[t].shown = tab[t].shown
        /\ DOMAIN tab'[t] = DOMAIN tab[t]
    BY <1>1 DEF ShellArrives, SignInInv, SignInTypes, IsPage
  <1>4. /\ IsCookies(jar)' /\ Paired(jar)'
        /\ token \in Ids /\ token <= made'
    BY <1>1, <1>2, WebSignInAssumption DEF IsCookies, Paired, Cookies, Ids
  <1>5. \E kinds \in SUBSET ReadKinds :
           calls' = calls \cup {Request(t, k, jar', Nobody, Nobody, {}) : k \in kinds}
    <2>. DEFINE kinds == {"status"} \cup (IF tab[t].at = "session" THEN {"read"} ELSE {})
                now == [session |-> IF sent.session = Nobody THEN fresh ELSE jar.session,
                        csrf |-> IF sent.csrf = Nobody THEN fresh ELSE jar.csrf]
    <2>1. jar' = now /\ calls' = calls \cup {Request(t, k, now, Nobody, Nobody, {}) : k \in kinds}
      BY DEF ShellArrives
    <2>2. kinds \in SUBSET ReadKinds
      BY DEF ReadKinds
    <2>. HIDE DEF kinds, now
    <2>. QED
      BY <2>1, <2>2
  <1>6. ASSUME NEW d \in calls' \ calls
        PROVE  /\ IsCall(d)' /\ Paired(d) /\ d.tab = t /\ d.kind \in ReadKinds
               /\ d.session = jar'.session /\ d.answer = "none" /\ d.told = Nobody
    <2>1. PICK k \in ReadKinds : d = Request(t, k, jar', Nobody, Nobody, {})
      BY <1>5, <1>6
    <2>. QED
      BY <1>4, <2>1 DEF Request, IsCall, Paired, IsCookies, ReadKinds, AuthPages
  <1>. HIDE DEF token
  <1>7. SignInTypes'
    <2>1. ASSUME NEW o \in Tabs
          PROVE  IsPage(tab[o])' /\ IsCookies(tab[o].sent)'
      <3>1. IsPage(tab[o]) /\ IsCookies(tab[o].sent) /\ made \in Nat /\ made' \in Nat /\ made <= made'
        BY <1>1, <1>2 DEF SignInInv, SignInTypes
      <3>2. CASE o # t
        BY <1>3, <3>1, <3>2 DEF IsPage, IsCookies, Cookies, Ids
      <3>3. CASE o = t
        <4>1. IsPage(tab[o])'
          BY <1>3, <1>4, <3>1, <3>3 DEF IsPage, Cookies
        <4>2. IsCookies(tab[o].sent)'
          BY <1>3, <3>1, <3>3 DEF IsCookies, Cookies, Ids
        <4>. QED
          BY <4>1, <4>2
      <3>. QED
        BY <3>2, <3>3
    <2>. QED
      BY <1>1, <1>2, <1>3, <1>4, <1>6, <2>1
      DEF SignInInv, SignInTypes, IsCall, accountVars
  <1>8. CookiesArePairs'
    BY <1>3, <1>4, <1>6 DEF SignInInv, CookiesArePairs, Paired
  <1>9. PagesBeginEmpty'
    BY <1>3, <1>4, <1>6 DEF SignInInv, PagesBeginEmpty, Served
  (* A page whose token is the one there is now had it before, or is new.  *)
  <1>10. ASSUME NEW o \in Tabs \ {t}, Served(o), tab[o].token = jar'.csrf
         PROVE  tab[o].token = jar.csrf /\ jar'.session = jar.session
    BY <1>1, <1>2, <1>10 DEF SignInInv, SignInTypes, PagesBeginEmpty, IsPage
  <1>11. GoodPagesAskAsOne'
    BY <1>1, <1>3, <1>6, <1>10 DEF SignInInv, GoodPagesAskAsOne, PagesBeginEmpty, Served
  <1>12. GoodPagesShowOne'
    BY <1>1, <1>2, <1>3, <1>10
    DEF SignInInv, GoodPagesShowOne, PagesBeginEmpty, Served, Belongs, accountVars
  <1>13. CallsAreTold' /\ PagesActForTheAccountTheyShow'
    BY <1>2, <1>6
    DEF SignInInv, CallsAreTold, PagesActForTheAccountTheyShow, Belongs, accountVars, ReadKinds
  <1>. QED
    BY <1>7, <1>8, <1>9, <1>11, <1>12, <1>13 DEF SignInInv

LEMMA SendStep ==
  ASSUME SignInInv, NEW t \in Tabs, NEW kind, NEW u, Send(t, kind, u), Served(t),
         kind \in AuthPages => u \in Users
  PROVE  SignInInv'
  <1>. DEFINE d == Request(t, kind, jar, tab[t].token, u,
                           IF kind = "write" THEN tab[t].shown ELSE {})
  <1>1. /\ UNCHANGED <<accountVars, made, jar, tab>> /\ calls' = calls \cup {d}
    BY DEF Send, browserVars
  <1>2. IsCookies(jar) /\ Paired(jar) /\ IsPage(tab[t]) /\ IsPage(tab[t])' /\ DOMAIN tab = Tabs
    BY <1>1 DEF SignInInv, SignInTypes, CookiesArePairs, IsPage
  <1>3. /\ IsCall(d) /\ Paired(d) /\ d.tab = t /\ d.kind = kind
        /\ d.session = jar.session /\ d.csrf = jar.csrf
        /\ d.answer = "none" /\ d.told = Nobody /\ d.token = tab[t].token
        /\ d.seen = IF kind = "write" THEN tab[t].shown ELSE {}
    BY <1>2, RequestIsNew DEF IsPage
  <1>. HIDE DEF d
  <1>. DEFINE new == {d} none == {}
  <1>4. \A e \in new :
            /\ IsCall(e) /\ Paired(e) /\ e.tab = t
            /\ e.session = jar.session /\ e.csrf = jar.csrf
            /\ e.answer = "none" /\ e.told = Nobody
            /\ e.kind = "write" => e.token = tab[t].token /\ e.seen \subseteq tab[t].shown
    BY <1>3
  <1>5. calls' \subseteq calls \cup new /\ Served(t)' /\ tab'[t].shown \subseteq tab[t].shown \cup none
        /\ \A v \in none : Belongs(jar.session, v)
    BY <1>1 DEF Served
  <1>6. /\ DOMAIN tab' = Tabs /\ \A o \in Tabs \ {t} : tab'[o] = tab[o]
        /\ tab'[t].sent = tab[t].sent /\ tab'[t].token = tab[t].token
    BY <1>1, <1>2
  <1>. HIDE DEF new, none
  <1>. QED
    BY <1>1, <1>2, <1>4, <1>5, <1>6, TabStep

(* An answer, or a failure, reaches the page of a tab.                     *)
LEMMA StatusReadStep ==
  ASSUME SignInInv, NEW c \in calls, Receive(c), ReceiveStatus(c)
  PROVE  SignInInv'
  <1>. USE NobodyIsNobody
  <1>. DEFINE t == c.tab
  <1>1. /\ c.kind = "status" /\ t \in Tabs /\ IsCall(c) /\ Served(t) /\ IsPage(tab[t])
        /\ IsCookies(jar) /\ Paired(jar) /\ DOMAIN tab = Tabs
    BY DEF Receive, ReceiveStatus, SignInInv, SignInTypes, CookiesArePairs, PagesBeginEmpty, IsCall
  <1>2. UNCHANGED <<accountVars, made, jar>>
    BY DEF Receive, ReceiveStatus
  <1>3. CASE \E to \in Goes(tab[t], c.access) : NavigateTo(t, jar, calls \ {c}, to[1], to[2])
    BY <1>1, <1>2, <1>3, NavigateStep
  <1>4. CASE tab' = [tab EXCEPT ![t] = Stayed(@, c)]
             /\ calls' = (calls \ {c}) \cup
                  (IF Lists(tab[t], c.access)
                     THEN {Request(t, "read", jar, Nobody, Nobody, {})} ELSE {})
    <2>. DEFINE d == Request(t, "read", jar, Nobody, Nobody, {})
                new == IF Lists(tab[t], c.access) THEN {d} ELSE {}
                told == {c.told} \ {Nobody}
    <2>1. /\ IsCall(d) /\ Paired(d) /\ d.tab = t /\ d.kind = "read"
          /\ d.session = jar.session /\ d.csrf = jar.csrf
          /\ d.answer = "none" /\ d.told = Nobody
      BY <1>1, RequestIsNew DEF AuthPages
    <2>3. calls' \subseteq calls \cup new
      BY <1>4
    <2>. HIDE DEF d
    <2>2. \A e \in new :
            /\ IsCall(e) /\ Paired(e) /\ e.tab = t
            /\ e.session = jar.session /\ e.csrf = jar.csrf
            /\ e.answer = "none" /\ e.told = Nobody
            /\ e.kind = "write" => e.token = tab[t].token /\ e.seen \subseteq tab[t].shown
      BY <2>1
    <2>4. tab' = [tab EXCEPT ![t] = Stayed(tab[t], c)]
      BY <1>4
    <2>5. /\ DOMAIN tab' = Tabs /\ \A o \in Tabs \ {t} : tab'[o] = tab[o]
          /\ tab'[t].sent = tab[t].sent /\ tab'[t].token = tab[t].token
          /\ tab'[t].shown \subseteq tab[t].shown \cup told
          /\ DOMAIN tab'[t] = DOMAIN tab[t]
          /\ tab'[t].stage \in {"form", c.access}
      BY <1>1, <2>4 DEF Stayed, IsPage
    <2>6. Served(t)' /\ IsPage(tab[t])'
      BY <1>1, <1>2, <2>5 DEF Served, IsCall, IsPage
    <2>7. tab[t].token = jar.csrf => \A u \in told : Belongs(jar.session, u)
      BY <1>1 DEF SignInInv, GoodPagesAskAsOne, CallsAreTold, ReadKinds
    <2>. HIDE DEF new, told
    <2>. QED
      BY <1>1, <1>2, <2>2, <2>3, <2>5, <2>6, <2>7, TabStep
  <1>. QED
    BY <1>3, <1>4 DEF ReceiveStatus

LEMMA ReadStep ==
  ASSUME SignInInv, NEW c \in calls, Receive(c), ReceiveRead(c)
  PROVE  SignInInv'
  <1>. USE NobodyIsNobody
  <1>. DEFINE t == c.tab
              told == {c.told}
              new == {}
  <1>1. /\ c.kind = "read" /\ t \in Tabs /\ IsCall(c) /\ Served(t) /\ IsPage(tab[t])
        /\ DOMAIN tab = Tabs
    BY DEF Receive, ReceiveRead, SignInInv, SignInTypes, PagesBeginEmpty, IsCall
  <1>2. UNCHANGED <<accountVars, made, jar>> /\ calls' = calls \ {c}
    BY DEF Receive, ReceiveRead
  <1>3. CASE tab' = tab
    BY <1>2, <1>3, CallsGo
  <1>4. CASE c.answer = "done" /\ tab' = [tab EXCEPT ![t].shown = @ \cup {c.told}]
    <2>1. /\ DOMAIN tab' = Tabs /\ \A o \in Tabs \ {t} : tab'[o] = tab[o]
          /\ tab'[t].sent = tab[t].sent /\ tab'[t].token = tab[t].token
          /\ tab'[t].shown = tab[t].shown \cup told
          /\ DOMAIN tab'[t] = DOMAIN tab[t]
          /\ tab'[t].stage = tab[t].stage
      BY <1>1, <1>4 DEF IsPage
    <2>2. Served(t)' /\ IsPage(tab[t])'
      BY <1>1, <1>2, <1>4, <2>1 DEF Served, IsCall, IsPage
    <2>3. tab[t].token = jar.csrf => \A u \in told : Belongs(jar.session, u)
      BY <1>1, <1>4 DEF SignInInv, GoodPagesAskAsOne, CallsAreTold, ReadKinds, IsCall
    <2>4. calls' \subseteq calls \cup new
          /\ \A e \in new :
            /\ IsCall(e) /\ Paired(e) /\ e.tab = t
            /\ e.session = jar.session /\ e.csrf = jar.csrf
            /\ e.answer = "none" /\ e.told = Nobody
            /\ e.kind = "write" => e.token = tab[t].token /\ e.seen \subseteq tab[t].shown
      BY <1>2
    <2>. HIDE DEF new, told
    <2>. QED
      BY <1>1, <1>2, <2>1, <2>2, <2>3, <2>4, TabStep
  <1>. QED
    BY <1>3, <1>4 DEF ReceiveRead

LEMMA ReceiveStep ==
  ASSUME SignInInv, NEW c \in calls, Receive(c)
  PROVE  SignInInv'
  <1>1. UNCHANGED <<accountVars, made>> /\ c.tab \in Tabs
    BY DEF Receive, SignInInv, SignInTypes, IsCall
  <1>2. CASE ReceiveWrite(c)
    BY <1>1, <1>2, CallsGo DEF ReceiveWrite
  <1>3. CASE ReceiveSignIn(c)
    BY <1>1, <1>3, NavigateStep DEF ReceiveSignIn
  <1>4. CASE ReceiveSignOut(c)
    BY <1>1, <1>4, NavigateStep DEF ReceiveSignOut
  <1>. QED
    BY <1>2, <1>3, <1>4, StatusReadStep, ReadStep DEF Receive

LEMMA BreakStep ==
  ASSUME SignInInv, NEW c \in calls, Break(c)
  PROVE  SignInInv'
  <1>. USE NobodyIsNobody
  <1>. DEFINE t == c.tab
              told == {}
              new == {}
  <1>1. /\ t \in Tabs /\ IsCall(c) /\ Served(t) /\ IsPage(tab[t]) /\ DOMAIN tab = Tabs
    BY DEF Break, SignInInv, SignInTypes, PagesBeginEmpty, IsCall
  <1>2. UNCHANGED <<accountVars, made, jar>> /\ calls' = calls \ {c}
    BY DEF Break
  <1>3. CASE tab' = tab
    BY <1>2, <1>3, CallsGo
  <1>4. CASE tab' = [tab EXCEPT ![t].stage = IF tab[t].at \in AuthPages THEN "form" ELSE "failed"]
    <2>1. /\ DOMAIN tab' = Tabs /\ \A o \in Tabs \ {t} : tab'[o] = tab[o]
          /\ tab'[t].sent = tab[t].sent /\ tab'[t].token = tab[t].token
          /\ tab'[t].shown = tab[t].shown \cup told
          /\ DOMAIN tab'[t] = DOMAIN tab[t]
          /\ tab'[t].stage \in {"form", "failed"}
      BY <1>1, <1>4 DEF IsPage
    <2>2. Served(t)' /\ IsPage(tab[t])'
      BY <1>1, <1>2, <2>1 DEF Served, IsPage
    <2>3. /\ tab[t].token = jar.csrf => \A u \in told : Belongs(jar.session, u)
          /\ calls' \subseteq calls \cup new
          /\ \A e \in new :
            /\ IsCall(e) /\ Paired(e) /\ e.tab = t
            /\ e.session = jar.session /\ e.csrf = jar.csrf
            /\ e.answer = "none" /\ e.told = Nobody
            /\ e.kind = "write" => e.token = tab[t].token /\ e.seen \subseteq tab[t].shown
      BY <1>2
    <2>. HIDE DEF new, told
    <2>. QED
      BY <1>1, <1>2, <2>1, <2>2, <2>3, TabStep
  <1>. QED
    BY <1>3, <1>4 DEF Break

-----------------------------------------------------------------------------
LEMMA SignInStep ==
  ASSUME SignInInv, [SignInNext]_signInVars
  PROVE  SignInInv'
  <1>1. CASE UNCHANGED signInVars
    <2>1. UNCHANGED <<accountVars, made, tab, jar, calls>>
      BY <1>1 DEF signInVars, browserVars
    <2>. QED
      BY <2>1, CallsGo
  <1>2. ASSUME NEW c \in calls, Handle(c) \/ Receive(c) \/ ReceiveOrphan(c) \/ Break(c)
        PROVE  SignInInv'
    <2>1. CASE ReceiveOrphan(c)
      <3>1. UNCHANGED <<accountVars, made, tab>> /\ jar' \in {jar, NoCookies} /\ calls' \subseteq calls
        BY <2>1 DEF ReceiveOrphan
      <3>. QED
        BY <3>1, CallsGo
    <2>. QED
      BY <1>2, <2>1, HandlerStep, ReceiveStep, BreakStep
  <1>3. ASSUME NEW u \in Users, NEW r \in Roles, ChangeAccount(u, r)
        PROVE  SignInInv'
    BY <1>3, ChangeAccountStep
  <1>4. ASSUME NEW t \in Tabs, Follow(t) \/ \E at \in Pages, back \in BOOLEAN : Open(t, at, back)
        PROVE  SignInInv'
    <2>1. UNCHANGED <<accountVars, made, jar>> /\ \E at, back : NavigateTo(t, jar, calls, at, back)
      BY <1>4 DEF Follow, Open
    <2>. QED
      BY <2>1, NavigateStep
  <1>5. ASSUME NEW t \in Tabs,
               SignOut(t) \/ AskForChange(t) \/ \E u \in Users : Submit(t, u)
        PROVE  SignInInv'
    <2>1. Served(t)
      BY <1>5 DEF SignOut, AskForChange, Submit, Served, Told
    <2>2. \E kind, u : Send(t, kind, u) /\ (kind \in AuthPages => u \in Users)
      BY <1>5 DEF SignOut, AskForChange, Submit, AuthPages
    <2>. QED
      BY <2>1, <2>2, SendStep
  <1>. QED
    BY <1>1, <1>2, <1>3, <1>4, <1>5, ShellStep DEF SignInNext

(* A change a page asks for is made for an account the page showed, and    *)
(* for none but it, whatever other tabs, other users and late answers did  *)
(* meanwhile - unless its id was signed in with again (validate_csrf,      *)
(* auth_status, sign_out).                                                 *)
THEOREM PagesActAsShown == SignInSpec => []PagesActForTheAccountTheyShow
  <1>1. SignInInit => SignInInv
    BY SignInInitially
  <1>2. SignInInv /\ [SignInNext]_signInVars => SignInInv'
    BY SignInStep
  <1>. QED
    BY <1>1, <1>2, InvMeansPages, PTL DEF SignInSpec

-----------------------------------------------------------------------------
(* The terminal: the invariant.                                            *)

(* The types of the terminal's side.                                       *)
ChatTypes ==
  /\ chat \in Chats
  /\ app \in Apps
  /\ events \in Seq(Updates)
  /\ refresh \in [state : {"idle", "asked", "read", "sent"},
                  pending : SUBSET Permissions, queued : BOOLEAN]
  /\ command \in [name : {"none", "prompt", "decide", "cancel"},
                  request : Permissions \cup {0}, done : BOOLEAN]
  /\ commands \in 0 .. MaxCommands

(* Prompts run in their order; a turn is that of a running prompt, the     *)
(* requests are those of a turn that was not cancelled, and a task owes    *)
(* what its running prompt has said.                                       *)
TurnShape ==
  /\ \A p, q \in Prompts : q < p /\ stage[p] \in {"running", "done"} => stage[q] = "done"
  /\ session.turn # NoPrompt => stage[session.turn] = "running"
  /\ session.pending # {} => session.turn # NoPrompt /\ ~session.cancelled
  /\ \A m \in Messages : session.text[m] # 0 => stage[m] \in {"running", "done"}
  /\ \A i \in 1 .. Len(outbox["agent"]) :
       LET e == outbox["agent"][i] IN
       /\ e.kind = "message" => /\ e.length # 0
                                /\ e.partial => stage[e.message] # "done"
       /\ e.kind = "permission" => \E p \in Prompts : stage[p] # "done"

(* Before it is attached the chat has no stream and nothing to draw; until *)
(* the first snapshot it is told nothing but that the stream ended.        *)
ChatShape ==
  /\ chat.phase \in {"start", "history", "readOnly"}
       => stream = "off" /\ events = <<>> /\ refresh = Idle /\ command = NoCommand
  /\ chat.phase = "start" => ~chat.resumed
  /\ command.name = "none" => ~command.done
  /\ chat.phase = "history" => chat.resumed /\ app.pending = chat.baseline.permissions
  /\ chat.resumed => /\ refresh = Idle
                     /\ \A i \in 1 .. Len(events) : events[i].kind = "ended"
                     /\ stream = "open" => held # Nothing

(* A chat that knew every message, and no request, when it attached: only  *)
(* the answer to a cancellation tells it of requests, and finds none.      *)
BaselineShape ==
  chat.resumed =>
    /\ \A m \in chat.baseline.ids : session.text[m] # 0
    /\ chat.baseline.ids = Messages /\ chat.baseline.permissions = {} =>
         /\ app.pending = {}
         /\ command.name = "cancel" /\ command.done
              => session.turn = NoPrompt \/ session.cancelled

-----------------------------------------------------------------------------
(* The answer to prompt m: its message.                                    *)

(* What a message that has no text yet is not.                             *)
Says(m) ==
  {e \in Events : \/ e.kind = "snapshot" /\ e.text[m] # 0
                  \/ e.kind = "message" /\ e.message = m}

ShowsMessage(m) ==
  {u \in Updates : \/ u.kind = "message" /\ u.message = m
                   \/ u.kind = "resumed" /\ m \in u.ids}

Unsaid(m) ==
  session.text[m] = 0 =>
    /\ app.shown[m] = 0 /\ NoneOf(events, ShowsMessage(m))
    /\ held \notin Says(m) /\ NoneOf(queue, Says(m))
    /\ \A w \in Writers : NoneOf(outbox[w], Says(m))

(* A message that has begun is owed until it is complete and broadcast.    *)
OwesReply(m) == OwesText(m) \/ (stage[m] # "done" /\ session.text[m] # 0)

ReplySetters(m) ==
  {e \in Events : \/ e.kind = "snapshot"
                  \/ e.kind = "message" /\ e.message = m /\ ~e.partial}

ReplyEvents(m) ==
  {e \in Events :
     \/ OwesReply(m)
     \/ e.kind = "snapshot" /\ (e.missed \/ e.text[m] = session.text[m])
     \/ e.kind = "message" /\ e.length = session.text[m]}

ShowsRightly(m) ==
  {u \in Updates : \/ u.kind = "message" /\ u.length = session.text[m]
                   \/ u.kind = "resumed" /\ u.text[m] = session.text[m]}

Excused == chat.missed \/ chat.skipped

(* What the channel to the UI leads the terminal to show.                  *)
ReplyShown(m) ==
  \/ Excused
  \/ Leads("open", Nothing, events, FALSE, ShowsMessage(m), ShowsRightly(m),
           app.shown[m], {session.text[m]})

ReplyView(m) == IF ReplyShown(m) THEN "right" ELSE "wrong"
ReplyViews(m) == IF OwesReply(m) THEN {"right", "wrong"} ELSE {"right"}

ReplyReaches(m) ==
  /\ Leads(stream, held, queue, lagged, ReplySetters(m), ReplyEvents(m), ReplyView(m),
           ReplyViews(m))
  /\ SnapshotsIn(ReplyEvents(m))

-----------------------------------------------------------------------------
(* All prompts are answered: the requests go.                              *)

Finished == \A m \in Messages : stage[m] = "done" /\ session.text[m] # 0

OwesAnswer ==
  \E i \in 1 .. Len(outbox["agent"]) : outbox["agent"][i].kind = "message"

AskSetters ==
  {e \in Events : \/ e.kind \in {"snapshot", "permission"}
                  \/ e.kind = "message" /\ ~e.partial}

ClearingEvents ==
  {e \in Events :
     \/ OwesAnswer
     \/ e.kind = "snapshot"
        /\ (e.missed \/ (e.pending = {} /\ \A m \in Messages : e.text[m] # 0))
     \/ e.kind = "message"}

AskingUpdates ==
  {u \in Updates : \/ u.kind \in {"message", "permission"}
                   \/ u.kind = "resumed" /\ (u.ids # {} \/ u.pending # {})}

ClearingUpdates ==
  {u \in Updates : \/ u.kind = "message"
                   \/ u.kind = "resumed" /\ u.ids # {} /\ u.pending = {}}

(* What a refresh has read and is still to be drawn is no request.         *)
NothingRead ==
  \A i \in 1 .. Len(events) : events[i].kind = "refreshed" => events[i].pending = {}

(* No request is shown, or a refresh is to come that finds none, or none   *)
(* is to come and what is shown is known to be out of date.                *)
Clear == \/ app.pending = {}
         \/ refresh.queued
         \/ refresh.state = "asked"
         \/ refresh.state = "read" /\ refresh.pending = {}
         \/ refresh.state = "sent" /\ NothingRead
         \/ refresh.state = "idle" /\ (app.stale \/ app.outdated)

ClearView == IF Clear THEN "right" ELSE "wrong"

RequestsClear ==
  \/ Excused
  \/ Leads("open", Nothing, events, FALSE, AskingUpdates, ClearingUpdates, ClearView,
           {"right"})

RequestsView == IF RequestsClear THEN "right" ELSE "wrong"
RequestsViews == IF OwesAnswer THEN {"right", "wrong"} ELSE {"right"}

RequestsGo ==
  /\ Leads(stream, held, queue, lagged, AskSetters, ClearingEvents, RequestsView,
           RequestsViews)
  /\ SnapshotsIn(ClearingEvents)

(* One refresh is on its way, and the channel keeps what it brings.        *)
Answers == {"refreshed", "failed"}

RefreshShape ==
  /\ \A i \in 1 .. Len(events) : events[i].kind \in Answers => refresh.state = "sent"
  /\ \A i, j \in 1 .. Len(events) :
       events[i].kind \in Answers /\ events[j].kind \in Answers => i = j

CliInv ==
  /\ StreamTypes
  /\ ChatTypes
  /\ OutboxShape
  /\ StreamShape
  /\ PendingShape
  /\ TurnShape
  /\ ChatShape
  /\ BaselineShape
  /\ \A m \in Messages : Unsaid(m) /\ ReplyReaches(m)
  /\ Finished => RequestsGo

-----------------------------------------------------------------------------
(* The terminal: operations on the session.                                *)

(* What such an operation tells of the prompts.                            *)
Spoken ==
  /\ TurnShape'
  /\ \A m \in Messages :
       /\ session.text[m] # 0 => session'.text[m] # 0
       /\ stage'[m] = "done" => \/ stage[m] = "done" \/ OwesText(m)'
                                \/ session'.text[m] = 0
  /\ session.turn = NoPrompt \/ session.cancelled
       => \/ session'.turn = NoPrompt \/ session'.cancelled
          \/ \E m \in Messages : session'.text[m] = 0

(* A step that starts no turn, and leaves what the agent has said.         *)
LEMMA QuietSpoken ==
  ASSUME StreamTypes, TurnShape, session' \in Sessions, stage' = stage,
         outbox'["agent"] = outbox["agent"], session'.text = session.text,
         session'.pending \subseteq session.pending,
         \/ session'.turn = session.turn /\ session'.cancelled = session.cancelled
         \/ session'.pending = {} /\ session'.turn = NoPrompt
         \/ session'.pending = {} /\ session'.turn = session.turn /\ session'.cancelled
  PROVE  Spoken
<1>1. TurnShape'
  BY DEF TurnShape
<1> QED BY <1>1 DEF Spoken

LEMMA StartTurnSpoken ==
  ASSUME StreamTypes, TurnShape, NEW p \in Prompts, StartTurn(p)
  PROVE  Spoken
<1> DEFINE c == [session EXCEPT !.turn = p, !.cancelled = FALSE]
<1>1. /\ c.text = session.text /\ c.pending = session.pending /\ c.turn = p
      /\ c.cancelled = FALSE
  BY DEF StreamTypes, Sessions
<1>2. /\ session' = c /\ outbox["agent"] = <<>> /\ outbox'["agent"] = <<>>
      /\ stage' = [stage EXCEPT ![p] = "running"] /\ stage[p] = "queued"
      /\ \A q \in Prompts : q < p => stage[q] = "done"
  BY DEF StartTurn, Write, StreamTypes, Writers
<1>3. /\ stage'[p] = "running" /\ \A q \in Prompts : q # p => stage'[q] = stage[q]
  BY <1>2 DEF StreamTypes
<1>4. Len(outbox'["agent"]) = 0
  BY <1>2
<1>5. session.text[p] = 0
  BY <1>2 DEF TurnShape, Messages
<1> HIDE DEF c
<1>6. session.pending = {}
  <2> SUFFICES ASSUME session.turn \in Prompts, stage[session.turn] = "running"
               PROVE  FALSE
    BY DEF TurnShape, StreamTypes, Sessions
  <2>1. \A q \in Prompts : q \in Int
    BY StreamAssumption
  <2>2. session.turn \in Int /\ p \in Int
    BY <2>1
  <2> QED BY <2>2, <1>2 DEF TurnShape
<1>7. TurnShape'
  <2>1. p \in Int /\ \A q \in Prompts : q \in Int
    BY StreamAssumption
  <2>2. \A r, q \in Prompts : q < r /\ stage'[r] \in {"running", "done"} => stage'[q] = "done"
    BY <1>2, <1>3, <2>1 DEF TurnShape
  <2> QED BY <1>1, <1>2, <1>3, <1>4, <1>6, <2>2 DEF TurnShape, Messages
<1> QED BY <1>1, <1>2, <1>3, <1>5, <1>7 DEF Spoken, Messages

LEMMA ChunkSpoken ==
  ASSUME StreamTypes, OutboxShape, TurnShape, NEW p \in Prompts, StreamAssistantChunk(p)
  PROVE  Spoken
<1> DEFINE n == session.text[p] + 1
           c == [session EXCEPT !.text[p] = n]
           e == Message(p, n, TRUE)
<1>1. n \in 0 .. MaxText /\ n # 0
  BY StreamAssumption DEF StreamAssistantChunk, StreamTypes, Sessions, Messages
<1>2. /\ c.pending = session.pending /\ c.turn = session.turn
      /\ c.cancelled = session.cancelled
      /\ c.text[p] = n /\ \A m \in Messages : m = p \/ c.text[m] = session.text[m]
  <2> HIDE DEF n
  <2> QED BY <1>1 DEF StreamTypes, Sessions, Messages
<1>3. /\ session' = c /\ outbox'["agent"] = <<e>> /\ stage' = stage
      /\ session.turn = p /\ ~session.cancelled
  BY DEF StreamAssistantChunk, TakesOutput, Write, StreamTypes, Writers
<1>4. e \in Events /\ e.kind = "message" /\ e.message = p /\ e.length = n
  BY <1>1, MadeEvents DEF Messages
<1>5. Len(outbox'["agent"]) = 1 /\ outbox'["agent"][1] = e
  BY <1>3
<1>6. stage[p] = "running"
  <2>1. p # NoPrompt
    BY StreamAssumption DEF NoPrompt
  <2> QED BY <1>3, <2>1 DEF TurnShape
<1> HIDE DEF c, e, n
<1>7. TurnShape'
  BY <1>1, <1>2, <1>3, <1>4, <1>5, <1>6 DEF TurnShape, Messages
<1> QED BY <1>1, <1>2, <1>3, <1>6, <1>7, StreamAssumption DEF Spoken, Messages, NoPrompt

LEMMA RegisterSpoken ==
  ASSUME StreamTypes, OutboxShape, TurnShape, NEW p \in Prompts,
         RegisterPermissionRequest(p)
  PROVE  Spoken
<1> DEFINE c == [session EXCEPT !.pending = @ \cup {asked + 1}]
           e == [kind |-> "permission", request |-> asked + 1]
<1>1. /\ c.text = session.text /\ c.turn = session.turn /\ c.cancelled = session.cancelled
  BY DEF StreamTypes, Sessions
<1>2. /\ session' = c /\ outbox'["agent"] = <<e>> /\ stage' = stage
      /\ session.turn = p /\ ~session.cancelled
  BY DEF RegisterPermissionRequest, TakesOutput, Write, StreamTypes, Writers
<1>3. Len(outbox'["agent"]) = 1 /\ outbox'["agent"][1] = e /\ e.kind = "permission"
  BY <1>2
<1>4. p # NoPrompt
  BY StreamAssumption DEF NoPrompt
<1>5. stage[p] = "running"
  BY <1>2, <1>4 DEF TurnShape
<1> HIDE DEF c, e
<1>6. TurnShape'
  BY <1>1, <1>2, <1>3, <1>4, <1>5 DEF TurnShape
<1> QED BY <1>1, <1>2, <1>4, <1>6 DEF Spoken

(* A prompt completes; what it has said before is said again, whole.       *)
LEMMA CompletedSpoken ==
  ASSUME StreamTypes, TurnShape, NEW p \in Prompts, NEW n \in 0 .. MaxText,
         session' = Completed(p, n), stage' = [stage EXCEPT ![p] = "done"],
         stage[p] = "running", n = 0 => session.text[p] = 0,
         \A i \in 1 .. Len(outbox'["agent"]) :
           /\ outbox'["agent"][i].kind \in {"message", "status"}
           /\ outbox'["agent"][i].kind = "message"
                => outbox'["agent"][i].length # 0 /\ ~outbox'["agent"][i].partial,
         n # 0 => OwesText(p)'
  PROVE  Spoken
<1> DEFINE c == Completed(p, n)
<1>1. /\ c.pending = {} /\ c.turn = NoPrompt /\ c.text[p] = n
      /\ \A m \in Messages : m = p \/ c.text[m] = session.text[m]
  <2>1. c.turn = NoPrompt
    BY DEF Completed, StreamTypes, Sessions
  <2> QED BY <2>1, CompletedFacts
<1>2. stage'[p] = "done" /\ \A q \in Prompts : q # p => stage'[q] = stage[q]
  BY DEF StreamTypes
<1>3. session' = c
  OBVIOUS
<1> HIDE DEF c
<1>4. \A r, q \in Prompts : q < r /\ stage'[r] \in {"running", "done"} => stage'[q] = "done"
  BY <1>2 DEF TurnShape
<1>5. TurnShape'
  BY <1>1, <1>2, <1>3, <1>4 DEF TurnShape, Messages
<1> QED BY <1>1, <1>2, <1>3, <1>5 DEF Spoken, Messages

LEMMA ReplySpoken ==
  ASSUME StreamTypes, OutboxShape, TurnShape, NEW p \in Prompts, NEW n \in 1 .. MaxText,
         CompleteWithReply(p, n)
  PROVE  Spoken
<1> DEFINE e == Message(p, n, FALSE)
<1>1. n \in 0 .. MaxText /\ n # 0
  BY StreamAssumption
<1>2. /\ session' = Completed(p, n) /\ outbox'["agent"] = <<e>>
      /\ stage' = [stage EXCEPT ![p] = "done"] /\ stage[p] = "running"
  BY DEF CompleteWithReply, Write, StreamTypes, Writers
<1>3. e.kind = "message" /\ e.message = p /\ e.length = n /\ e.partial = FALSE
  BY DEF Message
<1>4. Len(outbox'["agent"]) = 1 /\ outbox'["agent"][1] = e
  BY <1>2
<1> HIDE DEF e
<1>5. OwesText(p)'
  BY <1>3, <1>4 DEF OwesText
<1>6. \A i \in 1 .. Len(outbox'["agent"]) :
        /\ outbox'["agent"][i].kind \in {"message", "status"}
        /\ outbox'["agent"][i].kind = "message"
             => outbox'["agent"][i].length # 0 /\ ~outbox'["agent"][i].partial
  BY <1>1, <1>3, <1>4
<1> QED BY <1>1, <1>2, <1>5, <1>6, CompletedSpoken

LEMMA StatusSpoken ==
  ASSUME StreamTypes, OutboxShape, TurnShape, NEW p \in Prompts, CompleteWithStatus(p)
  PROVE  Spoken
<1> DEFINE n == session.text[p]
           e == Message(p, n, FALSE)
           f == [kind |-> "status"]
           es == (IF n > 0 THEN <<e>> ELSE <<>>) \o <<f>>
<1>1. n \in 0 .. MaxText /\ n \in Int /\ n >= 0
  BY DEF StreamTypes, Sessions, Messages
<1>2. /\ session' = Completed(p, n) /\ outbox'["agent"] = es
      /\ stage' = [stage EXCEPT ![p] = "done"] /\ stage[p] = "running"
  BY DEF CompleteWithStatus, Write, StreamTypes, Writers
<1>3. /\ e.kind = "message" /\ e.message = p /\ e.length = n /\ e.partial = FALSE
      /\ f.kind = "status"
  BY DEF Message
<1>4. CASE n > 0
  <2>0. e \in Events /\ f \in Events
    BY <1>1, MadeEvents DEF Messages
  <2> HIDE DEF e, f, n
  <2>1. es = <<e>> \o <<f>>
    BY <1>4
  <2>2. /\ <<e>> \in Seq(Events) /\ <<f>> \in Seq(Events)
        /\ Len(<<e>>) = 1 /\ Len(<<f>>) = 1 /\ <<e>>[1] = e /\ <<f>>[1] = f
    BY <2>0
  <2>3. Len(es) = 2 /\ es[1] = e /\ es[2] = f
    BY <2>1, <2>2
  <2> HIDE DEF es
  <2>4. OwesText(p)'
    BY <1>2, <1>3, <2>3 DEF OwesText
  <2>5. \A i \in 1 .. Len(outbox'["agent"]) :
          /\ outbox'["agent"][i].kind \in {"message", "status"}
          /\ outbox'["agent"][i].kind = "message"
               => outbox'["agent"][i].length # 0 /\ ~outbox'["agent"][i].partial
    BY <1>2, <1>3, <1>4, <2>3
  <2>6. n # 0
    BY <1>4
  <2> QED BY <1>1, <1>2, <2>4, <2>5, <2>6, CompletedSpoken
<1>5. CASE ~(n > 0)
  <2>1. n = 0
    BY <1>1, <1>5
  <2>4. session.text[p] = 0
    BY <2>1
  <2> HIDE DEF e, f, n
  <2>2. es = <<f>> /\ Len(es) = 1 /\ es[1] = f
    BY <1>5
  <2> HIDE DEF es
  <2>3. \A i \in 1 .. Len(outbox'["agent"]) :
          /\ outbox'["agent"][i].kind \in {"message", "status"}
          /\ outbox'["agent"][i].kind = "message"
               => outbox'["agent"][i].length # 0 /\ ~outbox'["agent"][i].partial
    BY <1>2, <1>3, <2>2
  <2> QED BY <1>1, <1>2, <2>1, <2>3, <2>4, CompletedSpoken
<1> QED BY <1>4, <1>5

LEMMA SilentSpoken ==
  ASSUME StreamTypes, OutboxShape, TurnShape, NEW p \in Prompts, CompleteWithoutOutput(p)
  PROVE  Spoken
<1>1. 0 \in 0 .. MaxText
  BY StreamAssumption
<1>2. /\ session' = Completed(p, 0) /\ outbox'["agent"] = <<>>
      /\ stage' = [stage EXCEPT ![p] = "done"] /\ stage[p] = "running"
      /\ session.text[p] = 0
  BY DEF CompleteWithoutOutput, Write, StreamTypes, Writers
<1>3. \A i \in 1 .. Len(outbox'["agent"]) :
        /\ outbox'["agent"][i].kind \in {"message", "status"}
        /\ outbox'["agent"][i].kind = "message"
             => outbox'["agent"][i].length # 0 /\ ~outbox'["agent"][i].partial
  <2>1. Len(outbox'["agent"]) = 0
    BY <1>2
  <2> QED BY <2>1
<1> QED BY <1>1, <1>2, <1>3, CompletedSpoken

LEMMA SubmitSpoken ==
  ASSUME StreamTypes, TurnShape, NEW p \in Prompts, SubmitPrompt(p)
  PROVE  Spoken
<1>1. /\ session' = session /\ outbox' = outbox
      /\ stage' = [stage EXCEPT ![p] = "queued"] /\ stage[p] = "new"
  BY DEF SubmitPrompt
<1>2. stage'[p] = "queued" /\ \A q \in Prompts : q # p => stage'[q] = stage[q]
  BY <1>1 DEF StreamTypes
<1>3. session.turn = NoPrompt \/ session.turn \in Prompts
  BY DEF StreamTypes, Sessions
<1>4. \A i \in 1 .. Len(outbox["agent"]) :
        outbox["agent"][i].kind = "message" => outbox["agent"][i].message \in Prompts
  <2>1. \A i \in 1 .. Len(outbox["agent"]) : outbox["agent"][i] \in Events
    BY DEF StreamTypes, Writers
  <2> QED BY <2>1, EventFacts DEF Messages
<1>5. TurnShape'
  BY <1>1, <1>2, <1>3, <1>4 DEF TurnShape, Messages
<1> QED BY <1>1, <1>2, <1>5 DEF Spoken, Messages

LEMMA ClientSpoken ==
  ASSUME StreamTypes, OutboxShape, TurnShape, NEW w \in {"action", "other"},
         \/ \E r : ResolvePermission(w, r)
         \/ CancelActiveTurn(w)
         \/ CloseSession
         \/ \E u \in Writers : TakeSnapshot(u)
  PROVE  Spoken
<1>1. ASSUME NEW r, ResolvePermission(w, r) PROVE Spoken
  <2> DEFINE c == [session EXCEPT !.pending = @ \ {r}]
  <2>1. /\ c \in Sessions /\ c.pending \subseteq session.pending /\ c.text = session.text
        /\ c.turn = session.turn /\ c.cancelled = session.cancelled
    BY DEF StreamTypes, Sessions
  <2>2. session' = c /\ stage' = stage /\ outbox'["agent"] = outbox["agent"]
    BY <1>1 DEF ResolvePermission, Write, StreamTypes, Writers
  <2> HIDE DEF c
  <2> QED BY <2>1, <2>2, QuietSpoken
<1>2. CASE CancelActiveTurn(w)
  <2> DEFINE c == [session EXCEPT !.pending = {}, !.cancelled = TRUE]
  <2>1. /\ c \in Sessions /\ c.pending = {} /\ c.text = session.text
        /\ c.turn = session.turn /\ c.cancelled
    BY DEF StreamTypes, Sessions
  <2>2. session' = c /\ stage' = stage /\ outbox'["agent"] = outbox["agent"]
    BY <1>2 DEF CancelActiveTurn, Write, StreamTypes, Writers
  <2> HIDE DEF c
  <2> QED BY <2>1, <2>2, QuietSpoken
<1>3. CASE CloseSession
  <2> DEFINE c == [session EXCEPT !.closed = TRUE, !.pending = {},
                                  !.turn = NoPrompt, !.cancelled = FALSE]
  <2>1. /\ c \in Sessions /\ c.pending = {} /\ c.text = session.text
        /\ c.turn = NoPrompt
    BY DEF StreamTypes, Sessions
  <2>2. session' = c /\ stage' = stage /\ outbox'["agent"] = outbox["agent"]
    BY <1>3 DEF CloseSession, Write, StreamTypes, Writers
  <2> HIDE DEF c
  <2> QED BY <2>1, <2>2, QuietSpoken
<1>4. ASSUME NEW u \in Writers, TakeSnapshot(u) PROVE Spoken
  <2>1. session' = session /\ stage' = stage /\ session \in Sessions
    BY <1>4 DEF TakeSnapshot, sessionVars, StreamTypes
  <2>2. u # "agent"
    <3>1. Len(outbox[u]) = 1 /\ outbox[u][1] = Take /\ Take.kind = "take"
      BY <1>4 DEF TakeSnapshot, Take
    <3> QED BY <3>1 DEF OutboxShape
  <2>3. outbox'["agent"] = outbox["agent"]
    BY <1>4, <2>2 DEF TakeSnapshot, StreamTypes, Writers
  <2> QED BY <2>1, <2>3, QuietSpoken
<1> QED BY <1>1, <1>2, <1>3, <1>4

(* What has no text is not said by what waits to be broadcast.             *)
LEMMA OutboxUnsaid ==
  ASSUME CliInv, Operated, Spoken, NEW m \in Messages, session'.text[m] = 0
  PROVE  \A w \in Writers : NoneOf(outbox'[w], Says(m))
<1>1. /\ session.text[m] = 0 /\ Unsaid(m) /\ outbox' \in [Writers -> Seq(Events)]
      /\ OutboxShape' /\ TurnShape'
  BY DEF CliInv, Operated, Written, Spoken
<1>2. ASSUME NEW i \in 1 .. Len(outbox'["agent"]), outbox'["agent"][i] \in Says(m)
      PROVE  FALSE
  <2>1. /\ outbox'["agent"][i].kind = "message" /\ outbox'["agent"][i].message = m
    BY <1>1, <1>2 DEF OutboxShape, Says
  <2>2. outbox'["agent"][i].length = session'.text[m]
    BY <1>1, <2>1 DEF OutboxShape
  <2> QED BY <1>1, <2>1, <2>2 DEF TurnShape
<1>3. ASSUME NEW w \in {"action", "other"}, NEW i \in 1 .. Len(outbox'[w]),
             outbox'[w][i] \in Says(m)
      PROVE  FALSE
  <2>1. outbox'[w][i].kind = "snapshot" /\ outbox'[w][i].text[m] # 0
    BY <1>1, <1>3 DEF OutboxShape, Says
  <2>2. outbox'[w] = outbox[w]
    BY <2>1 DEF Operated, Written
  <2> QED BY <1>1, <1>3, <2>2 DEF Unsaid, NoneOf, Writers
<1> QED BY <1>2, <1>3 DEF NoneOf, Writers

LEMMA OwedStays ==
  ASSUME CliInv, Operated, Spoken, NEW m \in Messages
  PROVE  /\ OwesReply(m) => OwesReply(m)'
         /\ session'.text[m] = session.text[m] \/ OwesReply(m)'
BY DEF Operated, Written, Spoken, OwesReply

LEMMA OwesAnswerText ==
  ASSUME outbox \in [Writers -> Seq(Events)]
  PROVE  OwesAnswer <=> \E m \in Messages : OwesText(m)
<1>1. \A i \in 1 .. Len(outbox["agent"]) : outbox["agent"][i] \in Events
  BY DEF Writers
<1>2. \A i \in 1 .. Len(outbox["agent"]) :
        outbox["agent"][i].kind = "message" => outbox["agent"][i].message \in Messages
  BY <1>1, EventFacts
<1> QED BY <1>2 DEF OwesAnswer, OwesText

LEMMA AnswerStays ==
  ASSUME CliInv, Operated, Spoken
  PROVE  /\ OwesAnswer => OwesAnswer'
         /\ Finished' => Finished \/ OwesAnswer'
<1>1. /\ outbox \in [Writers -> Seq(Events)]
      /\ outbox' \in [Writers -> Seq(Events)]
  BY DEF CliInv, StreamTypes, Operated, Written
<1>2. OwesAnswer <=> \E m \in Messages : OwesText(m)
  BY <1>1, OwesAnswerText
<1>3. OwesAnswer' <=> \E m \in Messages : OwesText(m)'
  <2>1. \A i \in 1 .. Len(outbox'["agent"]) : outbox'["agent"][i] \in Events
    BY <1>1 DEF Writers
  <2>2. \A i \in 1 .. Len(outbox'["agent"]) :
          outbox'["agent"][i].kind = "message" => outbox'["agent"][i].message \in Messages
    BY <2>1, EventFacts
  <2> QED BY <2>2 DEF OwesAnswer, OwesText
<1>4. OwesAnswer => OwesAnswer'
  BY <1>2, <1>3 DEF Operated, Written
<1>5. ASSUME Finished', ~OwesAnswer' PROVE Finished
  <2>1. \A m \in Messages : session'.text[m] = session.text[m] /\ stage[m] = "done"
    BY <1>3, <1>5 DEF Operated, Written, Spoken, Finished
  <2> QED BY <1>5, <2>1 DEF Finished
<1> QED BY <1>4, <1>5

(* When all prompts are answered no request is pending.                    *)
LEMMA FinishedPending ==
  ASSUME TurnShape, Finished, session \in Sessions
  PROVE  session.pending = {}
BY DEF TurnShape, Finished, Sessions, Messages, NoPrompt

(* After such an operation, the terminal doing nothing, or its command     *)
(* being taken.                                                            *)
LEMMA CliOperated ==
  ASSUME CliInv, Operated, Spoken,
         chat' = chat, app' = app, events' = events, refresh' = refresh, commands' = commands,
         \/ command' = command
         \/ /\ command # NoCommand /\ command' = [command EXCEPT !.done = TRUE]
            /\ command.name # "none"
            /\ command.name = "cancel" => session'.turn = NoPrompt \/ session'.cancelled
  PROVE  CliInv'
<1>0. /\ UNCHANGED streamVars /\ Written /\ stream' = stream /\ held' = held
      /\ queue' = queue /\ lagged' = lagged
  BY DEF Operated, Written, streamVars
<1>1. StreamTypes' /\ OutboxShape' /\ StreamShape' /\ PendingShape'
  <2>1. StreamTypes'
    BY <1>0 DEF CliInv, StreamTypes, Operated, Written
  <2>2. StreamShape'
    BY <1>0 DEF CliInv, StreamShape
  <2>3. OutboxShape' /\ PendingShape'
    BY <1>0 DEF Operated, Written, PendingShape
  <2> QED BY <2>1, <2>2, <2>3
<1>2. TurnShape'
  BY DEF Spoken
<1>3. /\ command' \in [name : {"none", "prompt", "decide", "cancel"},
                       request : Permissions \cup {0}, done : BOOLEAN]
      /\ command'.name = command.name
      /\ command.name = "none" => ~command'.done
  BY DEF CliInv, ChatTypes, ChatShape
<1>4. ChatTypes'
  BY <1>3 DEF CliInv, ChatTypes
<1>5. ChatShape'
  BY <1>0, <1>3 DEF CliInv, ChatShape
<1>6. BaselineShape'
  <2> SUFFICES ASSUME chat.resumed PROVE BaselineShape'
    BY DEF BaselineShape
  <2>1. chat.baseline.ids \subseteq Messages
    BY DEF CliInv, ChatTypes, Chats, Baselines
  <2>2. \A m \in chat.baseline.ids : session'.text[m] # 0
    BY <2>1 DEF CliInv, BaselineShape, Spoken
  <2>3. ASSUME chat.baseline.ids = Messages, chat.baseline.permissions = {}
        PROVE  /\ app.pending = {}
               /\ command'.name = "cancel" /\ command'.done
                    => session'.turn = NoPrompt \/ session'.cancelled
    <3>1. /\ app.pending = {}
          /\ command.name = "cancel" /\ command.done
               => session.turn = NoPrompt \/ session.cancelled
      BY <2>3 DEF CliInv, BaselineShape
    <3>2. session.turn = NoPrompt \/ session.cancelled
            => session'.turn = NoPrompt \/ session'.cancelled
      BY <2>2, <2>3 DEF Spoken
    <3> QED BY <1>3, <3>1, <3>2
  <2> QED BY <2>2, <2>3 DEF BaselineShape
<1>7. ASSUME NEW m \in Messages PROVE Unsaid(m)'
  <2> SUFFICES ASSUME session'.text[m] = 0
               PROVE  /\ app.shown[m] = 0 /\ NoneOf(events, ShowsMessage(m))
                      /\ held \notin Says(m) /\ NoneOf(queue, Says(m))
                      /\ \A w \in Writers : NoneOf(outbox'[w], Says(m))
    BY <1>0 DEF Unsaid, ShowsMessage, Says
  <2>1. session.text[m] = 0
    BY DEF Spoken
  <2> QED BY <2>1, OutboxUnsaid DEF CliInv, Unsaid
<1>8. ASSUME NEW m \in Messages PROVE ReplyReaches(m)'
  <2> DEFINE S == ReplySetters(m)
             G == ReplyEvents(m)
             K == ReplyViews(m)
             v == ReplyView(m)
             G2 == ReplyEvents(m)'
             K2 == ReplyViews(m)'
             v2 == ReplyView(m)'
  <2>1. S = ReplySetters(m)'
    BY DEF ReplySetters
  <2>2. /\ OwesReply(m) => OwesReply(m)'
        /\ session'.text[m] = session.text[m] \/ OwesReply(m)'
    BY OwedStays
  <2>3. G \subseteq G2
    BY <2>2 DEF ReplyEvents
  <2>4. v \in K => v2 \in K2
    <3>1. CASE OwesReply(m)'
      BY <3>1 DEF ReplyViews, ReplyView
    <3>2. CASE ~OwesReply(m)'
      <4>1. session'.text[m] = session.text[m] /\ ~OwesReply(m)
        BY <2>2, <3>2
      <4>2. ReplyShown(m)' <=> ReplyShown(m)
        BY <4>1 DEF ReplyShown, Excused, ShowsMessage, ShowsRightly
      <4> QED BY <3>2, <4>1, <4>2 DEF ReplyViews, ReplyView
    <3> QED BY <3>1, <3>2
  <2>5. Leads(stream, held, queue, lagged, S, G, v, K) /\ SnapshotsIn(G)
    BY DEF CliInv, ReplyReaches
  <2>6. Leads(stream, held, queue, lagged, S, G2, v2, K2)
    <3> HIDE DEF S, G, K, v, G2, K2, v2
    <3> QED BY <2>3, <2>4, <2>5, LeadsGrows
  <2>7. SnapshotsIn(ReplyEvents(m))'
    <3> SUFFICES ASSUME NEW w \in {"action", "other"}, NEW i \in 1 .. Len(outbox'[w]),
                        outbox'[w][i].kind = "snapshot"
                 PROVE  outbox'[w][i] \in G2
      BY DEF SnapshotsIn
    <3>1. outbox'[w][i] \in Events
      BY <1>0 DEF Written, Writers
    <3>2. CASE outbox'[w] = outbox[w]
      BY <3>2, <2>3, <2>5 DEF SnapshotsIn
    <3>3. CASE outbox'[w][i].text = session'.text
      BY <3>1, <3>3 DEF ReplyEvents
    <3> QED BY <1>0, <3>2, <3>3 DEF Written
  <2> QED BY <1>0, <2>1, <2>6, <2>7 DEF ReplyReaches
<1>9. ASSUME Finished' PROVE RequestsGo'
  <2> DEFINE S == AskSetters
             G2 == ClearingEvents'
             K2 == RequestsViews'
             v2 == RequestsView'
  <2>1. S = AskSetters'
    BY DEF AskSetters
  <2>2. \A w \in {"action", "other"} : \A i \in 1 .. Len(outbox'[w]) :
          outbox'[w][i] \in Events
    BY <1>0 DEF Written, Writers
  <2>3. CASE OwesAnswer'
    <3>1. G2 = Events /\ v2 \in K2
      BY <2>3 DEF ClearingEvents, RequestsViews, RequestsView
    <3>2. queue \in Seq(Events) /\ held \in Events \cup {Nothing}
      BY SnapshotsAreEvents DEF CliInv, StreamTypes
    <3>3. Leads(stream, held, queue, lagged, S, Events, v2, K2)
      <4> HIDE DEF K2, S, v2
      <4> QED BY <3>1, <3>2, LeadsOwed
    <3>4. SnapshotsIn(ClearingEvents)'
      BY <2>2, <3>1 DEF SnapshotsIn
    <3> QED BY <1>0, <2>1, <3>1, <3>3, <3>4 DEF RequestsGo
  <2>4. CASE ~OwesAnswer'
    <3>1. Finished /\ ~OwesAnswer
      BY <1>9, <2>4, AnswerStays
    <3>2. ClearingEvents' = ClearingEvents
      BY <2>4, <3>1 DEF ClearingEvents
    <3>3. RequestsViews' = RequestsViews
      BY <2>4, <3>1 DEF RequestsViews
    <3>4. RequestsView' = RequestsView
      BY DEF RequestsView, RequestsClear, Excused, AskingUpdates, ClearingUpdates,
             ClearView, Clear, NothingRead
    <3>5. session'.pending = {}
      BY <1>1, <1>2, <1>9, FinishedPending
          DEF TurnShape, Finished, StreamTypes, Sessions, Messages, NoPrompt
    <3>6. SnapshotsIn(ClearingEvents)'
      <4> SUFFICES ASSUME NEW w \in {"action", "other"}, NEW i \in 1 .. Len(outbox'[w]),
                          outbox'[w][i].kind = "snapshot"
                   PROVE  outbox'[w][i] \in ClearingEvents
        BY <3>2 DEF SnapshotsIn
      <4>1. outbox'[w][i] \in Events
        BY <2>2
      <4>2. CASE outbox'[w] = outbox[w]
        BY <3>1, <4>2 DEF CliInv, RequestsGo, SnapshotsIn
      <4>3. CASE outbox'[w][i].text = session'.text /\ outbox'[w][i].pending = session'.pending
        BY <1>9, <3>5, <4>1, <4>3 DEF ClearingEvents, Finished
      <4> QED BY <1>0, <4>2, <4>3 DEF Written
    <3> QED BY <1>0, <2>1, <3>1, <3>2, <3>3, <3>4, <3>6 DEF CliInv, RequestsGo
  <2> QED BY <2>3, <2>4
<1> QED BY <1>1, <1>2, <1>4, <1>5, <1>6, <1>7, <1>8, <1>9 DEF CliInv

-----------------------------------------------------------------------------
(* The terminal: broadcasting.                                             *)

(* What an event says it says overtaken.                                   *)
LEMMA OvertakenSays ==
  ASSUME NEW e \in Events, NEW m \in Messages, e \notin Says(m)
  PROVE  Overtaken(e) \notin Says(m)
<1>1. CASE e.kind # "snapshot"
  BY <1>1, OvertakenFacts
<1>2. CASE e.kind = "snapshot"
  <2>1. e \in Snapshots
    BY <1>2, EventFacts
  <2>2. Overtaken(e).kind = "snapshot" /\ Overtaken(e).text = e.text
    BY <1>2, <2>1 DEF Overtaken, Snapshots
  <2> QED BY <1>2, <2>2 DEF Says
<1> QED BY <1>1, <1>2

(* Nothing is broadcast that was not to be.                                *)
LEMMA PublishSays ==
  ASSUME StreamTypes, OutboxShape, StreamShape, TurnShape, NEW w \in Writers, Publish(w),
         NEW m \in Messages, Unsaid(m), session.text[m] = 0
  PROVE  /\ held' \notin Says(m) /\ NoneOf(queue', Says(m))
         /\ \A u \in Writers : NoneOf(outbox'[u], Says(m))
<1> PICK e : e = Head(outbox[w])
  OBVIOUS
<1>1. /\ \A u \in Writers : outbox[u] \in Seq(Events) /\ NoneOf(outbox[u], Says(m))
      /\ outbox[w] # <<>> /\ held \notin Says(m) /\ NoneOf(queue, Says(m))
  BY DEF StreamTypes, Unsaid, Publish
<1>2. e \notin Says(m)
  <2>1. e = outbox[w][1] /\ 1 \in 1 .. Len(outbox[w])
    BY <1>1
  <2> QED BY <1>1, <2>1 DEF NoneOf
<1>3. NoneOf(queue', Says(m))
  <2>1. \A i \in 1 .. Len(queue') :
          queue'[i] = e \/ \E j \in 1 .. Len(queue) : queue'[i] = queue[j]
    BY PublishTypes
  <2> QED BY <1>1, <1>2, <2>1 DEF NoneOf
<1>4. held' \notin Says(m)
  <2>1. CASE stream = "snapped"
    <3>1. held \in Events /\ held' = Overtaken(held)
      BY <2>1, SnapshotsAreEvents DEF Publish, StreamShape, StreamTypes
    <3> QED BY <1>1, <3>1, OvertakenSays
  <2>2. CASE stream # "snapped"
    BY <1>1, <2>2 DEF Publish
  <2> QED BY <2>1, <2>2
<1>5. ASSUME NEW u \in Writers, NEW i \in 1 .. Len(outbox'[u])
      PROVE  outbox'[u][i] \notin Says(m)
  <2>1. outbox'[u] = IF u = w THEN Tail(outbox[u])
                     ELSE [j \in 1 .. Len(outbox[u]) |-> Overtaken(outbox[u][j])]
    BY DEF Publish
  <2>2. CASE u = w
    <3>1. outbox'[u][i] = outbox[u][i + 1] /\ i + 1 \in 1 .. Len(outbox[u])
      <4> DEFINE o == outbox[u]
      <4>1. o \in Seq(Events) /\ o # <<>> /\ outbox'[u] = Tail(o)
        BY <1>1, <2>1, <2>2
      <4> HIDE DEF o
      <4>2. \A j \in 1 .. Len(Tail(o)) : Tail(o)[j] = o[j + 1] /\ j + 1 \in 1 .. Len(o)
        BY <4>1
      <4> QED BY <4>1, <4>2 DEF o
    <3> QED BY <1>1, <3>1 DEF NoneOf
  <2>3. CASE u # w
    <3>1. /\ Len(outbox'[u]) = Len(outbox[u])
          /\ \A j \in 1 .. Len(outbox[u]) : outbox'[u][j] = Overtaken(outbox[u][j])
      BY <1>1, <2>1, <2>3, MarkedSeq
    <3>2. outbox[u][i] \in Events /\ outbox[u][i] \notin Says(m)
      BY <1>1, <3>1 DEF NoneOf
    <3> QED BY <3>1, <3>2, OvertakenSays
  <2> QED BY <2>2, <2>3
<1> QED BY <1>3, <1>4, <1>5 DEF NoneOf

(* What the agent still owes it owed before.                               *)
LEMMA PublishAgent ==
  ASSUME StreamTypes, OutboxShape, NEW w \in Writers, Publish(w)
  PROVE  /\ \A i \in 1 .. Len(outbox'["agent"]) :
              \E j \in 1 .. Len(outbox["agent"]) : outbox'["agent"][i] = outbox["agent"][j]
         /\ w = "agent" =>
              \E j \in 1 .. Len(outbox["agent"]) : Head(outbox[w]) = outbox["agent"][j]
<1>1. CASE w # "agent"
  BY <1>1, PublishElsewhere
<1>2. CASE w = "agent"
  <2> DEFINE o == outbox["agent"]
  <2>1. o \in Seq(Events) /\ o # <<>> /\ outbox'["agent"] = Tail(o)
    BY <1>2 DEF Publish, StreamTypes, Writers
  <2> HIDE DEF o
  <2>2. /\ \A j \in 1 .. Len(Tail(o)) : Tail(o)[j] = o[j + 1] /\ j + 1 \in 1 .. Len(o)
        /\ Head(o) = o[1] /\ 1 \in 1 .. Len(o)
    BY <2>1
  <2> QED BY <1>2, <2>1, <2>2 DEF o
<1> QED BY <1>1, <1>2

LEMMA CliPublish ==
  ASSUME CliInv, NEW w \in Writers, Publish(w), ChatWaits
  PROVE  CliInv'
<1> PICK e : e = Head(outbox[w])
  OBVIOUS
<1>a. StreamTypes /\ OutboxShape /\ StreamShape /\ TurnShape
  BY DEF CliInv
<1>0. /\ session' = session /\ stage' = stage /\ asked' = asked /\ others' = others
      /\ stream' = stream
      /\ chat' = chat /\ app' = app /\ events' = events /\ refresh' = refresh
      /\ command' = command /\ commands' = commands
  BY DEF Publish, sessionVars, ChatWaits, chatVars
<1>1. e \in Events /\ e.kind # "take" /\ outbox' \in [Writers -> Seq(Events)]
      /\ OutboxShape'
  BY <1>a, PublishFacts
<1>2. \A u \in {"action", "other"} : \A i \in 1 .. Len(outbox'[u]) :
        outbox'[u][i].kind = "snapshot" =>
          \/ outbox'[u][i].missed
          \/ u = w /\ \E j \in 1 .. Len(outbox[u]) : outbox'[u][i] = outbox[u][j]
  BY <1>a, PublishFacts
<1>3. w = "agent" \/ (/\ outbox'["agent"] = outbox["agent"]
                      /\ \E i \in 1 .. Len(outbox[w]) : e = outbox[w][i])
  BY <1>a, PublishElsewhere
<1>4. /\ w = "agent" => /\ e.kind \in {"message", "permission", "status"}
                        /\ e.kind = "message" => e.length = session.text[e.message]
      /\ w # "agent" => e.kind \in {"snapshot", "closed"}
  BY <1>a, PublishFacts
<1>5. \A m \in Messages : /\ OwesText(m)' => OwesText(m)
                          /\ OwesText(m) => \/ OwesText(m)'
                                            \/ e.kind = "message" /\ e.message = m
  BY <1>a, PublishFacts
<1>6. /\ \A i \in 1 .. Len(outbox'["agent"]) :
           \E j \in 1 .. Len(outbox["agent"]) : outbox'["agent"][i] = outbox["agent"][j]
      /\ w = "agent" => \E j \in 1 .. Len(outbox["agent"]) : e = outbox["agent"][j]
  BY <1>a, PublishAgent
<1>7. w = "agent" \/ w \in {"action", "other"}
  BY DEF Writers
<1>8. \A u \in {"action", "other"} : \A i \in 1 .. Len(outbox'[u]) : outbox'[u][i] \in Events
  BY <1>1 DEF Writers
<1>9. /\ e.kind = "message" => /\ e.message \in Messages /\ e.length # 0
                               /\ e.partial => stage[e.message] # "done"
      /\ e.kind = "permission" => \E p \in Prompts : stage[p] # "done"
  <2>1. e.kind \in {"message", "permission"} => w = "agent"
    BY <1>4, <1>7
  <2>2. e.kind = "message" => e.message \in Messages
    BY <1>1, EventFacts
  <2> QED BY <1>a, <1>6, <2>1, <2>2 DEF TurnShape
<1>10. TurnShape'
  BY <1>a, <1>0, <1>6 DEF TurnShape
<1>12. StreamTypes' /\ StreamShape' /\ (held' = Nothing <=> held = Nothing)
  BY <1>a, PublishTypes
<1>13. ChatTypes' /\ ChatShape' /\ BaselineShape' /\ PendingShape'
  BY <1>0, <1>12 DEF CliInv, ChatTypes, ChatShape, BaselineShape, PendingShape
<1>14. ASSUME NEW m \in Messages PROVE Unsaid(m)'
  <2>1. Unsaid(m)
    BY DEF CliInv
  <2>2. ShowsMessage(m)' = ShowsMessage(m) /\ Says(m)' = Says(m)
    BY DEF ShowsMessage, Says
  <2>3. session.text[m] = 0 => /\ held' \notin Says(m) /\ NoneOf(queue', Says(m))
                               /\ \A u \in Writers : NoneOf(outbox'[u], Says(m))
    BY <1>a, <2>1, PublishSays
  <2> QED BY <1>0, <2>1, <2>2, <2>3 DEF Unsaid
<1>15. ASSUME NEW m \in Messages PROVE ReplyReaches(m)'
  <2> DEFINE S == ReplySetters(m)
             G == ReplyEvents(m)
             K == ReplyViews(m)
             v == ReplyView(m)
             G2 == ReplyEvents(m)'
             K2 == ReplyViews(m)'
  <2>1. ReplySetters(m)' = S
    BY DEF ReplySetters
  <2>2. Leads(stream, held, queue, lagged, S, G, v, K) /\ SnapshotsIn(G)
    BY DEF CliInv, ReplyReaches
  <2>a. e \notin S \/ e.kind # "message" => (OwesReply(m)' <=> OwesReply(m))
    <3>1. OwesReply(m)' => OwesReply(m)
      BY <1>0, <1>5 DEF OwesReply
    <3>2. ASSUME OwesReply(m), e \notin S \/ e.kind # "message" PROVE OwesReply(m)'
      <4>1. CASE e.kind = "message" /\ e.message = m
        <5>1. e.partial /\ w = "agent"
          BY <3>2, <4>1, <1>1, <1>4 DEF ReplySetters
        <5>2. stage[m] # "done" /\ session.text[m] # 0
          BY <4>1, <5>1, <1>4, <1>9
        <5> QED BY <5>2, <1>0 DEF OwesReply
      <4>2. CASE ~(e.kind = "message" /\ e.message = m)
        BY <3>2, <4>2, <1>0, <1>5 DEF OwesReply
      <4> QED BY <4>1, <4>2
    <3> QED BY <3>1, <3>2
  <2>b. e \notin S \/ e.kind # "message" => G2 = G
    BY <1>0, <2>a DEF ReplyEvents
  <2>c. e \notin S => K2 = K
    BY <1>0, <2>a DEF ReplyViews
  <2>3. e \notin S => G \subseteq G2 /\ K \subseteq K2
    BY <2>b, <2>c
  <2>5. e \in S => e \in G2
    <3>1. CASE e.kind = "message"
      BY <3>1, <1>0, <1>1, <1>4, <1>7 DEF ReplySetters, ReplyEvents
    <3>2. CASE e.kind = "snapshot"
      BY <3>2, <2>2, <2>b, <1>3, <1>4, <1>7 DEF SnapshotsIn
    <3> QED BY <3>1, <3>2 DEF ReplySetters
  <2>6. \A h \in Snapshots : h.missed => h \in G2
    BY SnapshotsAreEvents DEF ReplyEvents
  <2>7. Leads(stream', held', queue', lagged', S, G2, v, K2)
    <3> HIDE DEF S, G, K, G2, K2, v
    <3> QED BY <1>a, <1>1, <2>2, <2>3, <2>5, <2>6, LeadsPublished
  <2>8. SnapshotsIn(ReplyEvents(m))'
    <3> SUFFICES ASSUME NEW u \in {"action", "other"}, NEW i \in 1 .. Len(outbox'[u]),
                        outbox'[u][i].kind = "snapshot"
                 PROVE  outbox'[u][i] \in G2
      BY DEF SnapshotsIn
    <3>1. CASE outbox'[u][i].missed
      BY <3>1, <1>8 DEF ReplyEvents
    <3>2. CASE u = w /\ \E j \in 1 .. Len(outbox[u]) : outbox'[u][i] = outbox[u][j]
      BY <3>2, <2>2, <2>b, <1>4 DEF SnapshotsIn
    <3> QED BY <3>1, <3>2, <1>2
  <2>9. ReplyView(m)' = v
    BY <1>0 DEF ReplyView, ReplyShown, Excused, ShowsMessage, ShowsRightly
  <2> QED BY <2>1, <2>7, <2>8, <2>9, <1>0 DEF ReplyReaches
<1>16. ASSUME Finished' PROVE RequestsGo'
  <2> DEFINE S == AskSetters
             G == ClearingEvents
             K == RequestsViews
             v == RequestsView
             G2 == ClearingEvents'
             K2 == RequestsViews'
  <2>0. Finished /\ e.kind # "permission" /\ (e.kind = "message" => e \in S)
    <3>1. Finished
      BY <1>0, <1>16 DEF Finished
    <3> QED BY <1>1, <1>9, <3>1 DEF Finished, Messages, AskSetters
  <2>1. AskSetters' = S
    BY DEF AskSetters
  <2>2. Leads(stream, held, queue, lagged, S, G, v, K) /\ SnapshotsIn(G)
    BY <2>0 DEF CliInv, RequestsGo
  <2>a. e.kind # "message" => (OwesAnswer' <=> OwesAnswer)
    <3>1. outbox \in [Writers -> Seq(Events)]
      BY <1>a DEF StreamTypes
    <3>2. OwesAnswer <=> \E m \in Messages : OwesText(m)
      BY <3>1, OwesAnswerText
    <3>3. OwesAnswer' <=> \E m \in Messages : OwesText(m)'
      <4>1. \A i \in 1 .. Len(outbox'["agent"]) : outbox'["agent"][i] \in Events
        BY <1>1 DEF Writers
      <4>2. \A i \in 1 .. Len(outbox'["agent"]) :
              outbox'["agent"][i].kind = "message" => outbox'["agent"][i].message \in Messages
        BY <4>1, EventFacts
      <4> QED BY <4>2 DEF OwesAnswer, OwesText
    <3> QED BY <1>5, <3>2, <3>3
  <2>b. e.kind # "message" => G2 = G /\ K2 = K
    BY <2>a DEF ClearingEvents, RequestsViews
  <2>3. e \notin S => G \subseteq G2 /\ K \subseteq K2
    BY <2>0, <2>b
  <2>5. e \in S => e \in G2
    <3>1. CASE e.kind = "message"
      BY <3>1, <1>1 DEF ClearingEvents
    <3>2. CASE e.kind = "snapshot"
      BY <3>2, <2>2, <2>b, <1>3, <1>4, <1>7 DEF SnapshotsIn
    <3> QED BY <2>0, <3>1, <3>2 DEF AskSetters
  <2>6. \A h \in Snapshots : h.missed => h \in G2
    BY SnapshotsAreEvents DEF ClearingEvents
  <2>7. Leads(stream', held', queue', lagged', S, G2, v, K2)
    <3> HIDE DEF S, G, K, G2, K2, v
    <3> QED BY <1>a, <1>1, <2>2, <2>3, <2>5, <2>6, LeadsPublished
  <2>8. SnapshotsIn(ClearingEvents)'
    <3> SUFFICES ASSUME NEW u \in {"action", "other"}, NEW i \in 1 .. Len(outbox'[u]),
                        outbox'[u][i].kind = "snapshot"
                 PROVE  outbox'[u][i] \in G2
      BY DEF SnapshotsIn
    <3>1. CASE outbox'[u][i].missed
      BY <3>1, <1>8 DEF ClearingEvents
    <3>2. CASE u = w /\ \E j \in 1 .. Len(outbox[u]) : outbox'[u][i] = outbox[u][j]
      BY <3>2, <2>2, <2>b, <1>4 DEF SnapshotsIn
    <3> QED BY <3>1, <3>2, <1>2
  <2>9. RequestsView' = v
    BY <1>0 DEF RequestsView, RequestsClear, Excused, AskingUpdates, ClearingUpdates,
           ClearView, Clear, NothingRead
  <2> QED BY <2>1, <2>7, <2>8, <2>9, <1>0 DEF RequestsGo
<1> QED BY <1>1, <1>10, <1>12, <1>13, <1>14, <1>15, <1>16 DEF CliInv

-----------------------------------------------------------------------------
(* The terminal: steps that leave the session as it is.                    *)

LEMMA CliLeads ==
  ASSUME CliInv, UNCHANGED sessionVars, outbox' = outbox,
         StreamTypes', StreamShape', ChatTypes', ChatShape', BaselineShape',
         \A m \in Messages : Unsaid(m)',
         \A m \in Messages :
           Leads(stream', held', queue', lagged', ReplySetters(m), ReplyEvents(m),
                 ReplyView(m)', ReplyViews(m)),
         Finished =>
           Leads(stream', held', queue', lagged', AskSetters, ClearingEvents,
                 RequestsView', RequestsViews)
  PROVE  CliInv'
<1>1. session' = session /\ stage' = stage /\ asked' = asked
  BY DEF sessionVars
<1>2. OutboxShape' /\ PendingShape' /\ TurnShape'
  BY <1>1 DEF CliInv, OutboxShape, PendingShape, TurnShape
<1>3. ASSUME NEW m \in Messages PROVE ReplyReaches(m)'
  <2>1. /\ ReplySetters(m)' = ReplySetters(m) /\ ReplyEvents(m)' = ReplyEvents(m)
        /\ ReplyViews(m)' = ReplyViews(m)
        /\ SnapshotsIn(ReplyEvents(m))' <=> SnapshotsIn(ReplyEvents(m))
    BY <1>1 DEF ReplySetters, ReplyEvents, ReplyViews, OwesReply, OwesText, SnapshotsIn
  <2> QED BY <2>1 DEF CliInv, ReplyReaches
<1>4. ASSUME Finished' PROVE RequestsGo'
  <2>1. /\ AskSetters' = AskSetters /\ ClearingEvents' = ClearingEvents
        /\ RequestsViews' = RequestsViews
        /\ SnapshotsIn(ClearingEvents)' <=> SnapshotsIn(ClearingEvents)
    BY <1>1 DEF AskSetters, ClearingEvents, RequestsViews, OwesAnswer, SnapshotsIn
  <2>2. Finished
    BY <1>1, <1>4 DEF Finished
  <2> QED BY <2>1, <2>2 DEF CliInv, RequestsGo
<1> QED BY <1>2, <1>3, <1>4 DEF CliInv

(* Only the stream moves, or only the terminal does.                       *)
LEMMA CliStreamMoves ==
  ASSUME CliInv, UNCHANGED sessionVars, outbox' = outbox, ChatWaits,
         StreamTypes', StreamShape', stream # "off",
         chat.resumed /\ stream' = "open" => held' # Nothing,
         held' = held \/ held' = Snapshot,
         queue' = queue,
         \A S, G, K, v : Leads(stream, held, queue, lagged, S, G, v, K) /\ Snapshot \in G
                           => Leads(stream', held', queue', lagged', S, G, v, K)
  PROVE  CliInv'
<1>1. /\ session' = session /\ stage' = stage /\ asked' = asked
      /\ chat' = chat /\ app' = app /\ events' = events /\ refresh' = refresh
      /\ command' = command /\ commands' = commands
  BY DEF sessionVars, ChatWaits, chatVars
<1>2. ChatTypes' /\ ChatShape' /\ BaselineShape'
  BY <1>1 DEF CliInv, ChatTypes, ChatShape, BaselineShape
<1>3. /\ Snapshot \in Events /\ Snapshot.kind = "snapshot"
      /\ Snapshot.text = session.text /\ Snapshot.pending = session.pending
  BY SnapshotFacts DEF CliInv, StreamTypes
<1>4. ASSUME NEW m \in Messages PROVE Unsaid(m)'
  <2>1. Unsaid(m)
    BY DEF CliInv
  <2>2. ShowsMessage(m)' = ShowsMessage(m) /\ Says(m)' = Says(m)
    BY DEF ShowsMessage, Says
  <2>3. session.text[m] = 0 => Snapshot \notin Says(m)
    BY <1>3 DEF Says
  <2> QED BY <1>1, <2>1, <2>2, <2>3 DEF Unsaid
<1>5. ASSUME NEW m \in Messages
      PROVE  Leads(stream', held', queue', lagged', ReplySetters(m), ReplyEvents(m),
                   ReplyView(m)', ReplyViews(m))
  <2>1. Snapshot \in ReplyEvents(m)
    BY <1>3 DEF ReplyEvents
  <2>2. ReplyView(m)' = ReplyView(m)
    BY <1>1 DEF ReplyView, ReplyShown, Excused, ShowsMessage, ShowsRightly
  <2> QED BY <2>1, <2>2 DEF CliInv, ReplyReaches
<1>6. ASSUME Finished
      PROVE  Leads(stream', held', queue', lagged', AskSetters, ClearingEvents,
                   RequestsView', RequestsViews)
  <2>0. session.pending = {}
    BY <1>6, FinishedPending DEF CliInv, StreamTypes
  <2>1. Snapshot \in ClearingEvents
    BY <1>3, <1>6, <2>0 DEF ClearingEvents, Finished
  <2>2. RequestsView' = RequestsView
    BY <1>1 DEF RequestsView, RequestsClear, Excused, AskingUpdates, ClearingUpdates,
           ClearView, Clear, NothingRead
  <2> QED BY <1>6, <2>1, <2>2 DEF CliInv, RequestsGo
<1> QED BY <1>2, <1>4, <1>5, <1>6, CliLeads

LEMMA CliClientMoves ==
  ASSUME CliInv, UNCHANGED serverVars, ChatTypes', ChatShape', BaselineShape',
         \A m \in Messages :
           session.text[m] = 0 => app'.shown[m] = 0 /\ NoneOf(events', ShowsMessage(m)),
         \A m \in Messages : stream = "open" /\ ReplyShown(m) => ReplyShown(m)',
         Finished /\ stream = "open" /\ RequestsClear => RequestsClear'
  PROVE  CliInv'
<1>1. /\ session' = session /\ stage' = stage /\ asked' = asked /\ outbox' = outbox
      /\ stream' = stream /\ others' = others
      /\ held' = held /\ queue' = queue /\ lagged' = lagged /\ UNCHANGED sessionVars
  BY DEF serverVars, sessionVars
<1>2. StreamTypes' /\ StreamShape'
  BY <1>1 DEF CliInv, StreamTypes, StreamShape
<1>3. ASSUME NEW m \in Messages PROVE Unsaid(m)'
  <2>1. ShowsMessage(m)' = ShowsMessage(m) /\ Says(m)' = Says(m)
    BY DEF ShowsMessage, Says
  <2> QED BY <1>1, <2>1 DEF CliInv, Unsaid
<1>4. ASSUME NEW m \in Messages
      PROVE  Leads(stream', held', queue', lagged', ReplySetters(m), ReplyEvents(m),
                   ReplyView(m)', ReplyViews(m))
  <2>1. stream = "open" /\ ReplyView(m) \in ReplyViews(m) => ReplyView(m)' \in ReplyViews(m)
    BY DEF ReplyView, ReplyViews
  <2> QED BY <1>1, <2>1 DEF CliInv, ReplyReaches, Leads
<1>5. ASSUME Finished
      PROVE  Leads(stream', held', queue', lagged', AskSetters, ClearingEvents,
                   RequestsView', RequestsViews)
  <2>1. stream = "open" /\ RequestsView \in RequestsViews => RequestsView' \in RequestsViews
    BY <1>5 DEF RequestsView, RequestsViews
  <2> QED BY <1>1, <1>5, <2>1 DEF CliInv, RequestsGo, Leads
<1> QED BY <1>1, <1>2, <1>3, <1>4, <1>5, CliLeads

LEMMA CliConnect ==
  ASSUME CliInv, Connect, ChatWaits
  PROVE  CliInv'
<1>0. Snapshot \in Snapshots /\ Snapshot # Nothing
  BY SnapshotFacts DEF CliInv, StreamTypes
<1>1. /\ stream' = "snapped" /\ held' = Snapshot /\ queue' = queue /\ lagged' = lagged
      /\ lagged = FALSE /\ queue = <<>>
      /\ UNCHANGED sessionVars /\ outbox' = outbox /\ stream = "down"
  BY DEF Connect, CliInv, StreamShape, StreamTypes
<1>2. StreamTypes' /\ StreamShape'
  BY <1>0, <1>1 DEF CliInv, StreamTypes, StreamShape, sessionVars
<1>3. \A S, G, K, v : Leads(stream, held, queue, lagged, S, G, v, K) /\ Snapshot \in G
                        => Leads(stream', held', queue', lagged', S, G, v, K)
  BY <1>0, <1>1 DEF Leads
<1> QED BY <1>1, <1>2, <1>3, CliStreamMoves

LEMMA CliSubscribe ==
  ASSUME CliInv, Subscribe, ChatWaits
  PROVE  CliInv'
<1>1. /\ stream' = "open" /\ held' = held /\ queue' = queue /\ lagged' = lagged
      /\ UNCHANGED sessionVars /\ outbox' = outbox /\ stream = "snapped" /\ held # Nothing
  BY DEF Subscribe, CliInv, StreamShape
<1>2. StreamTypes' /\ StreamShape'
  BY <1>1 DEF CliInv, StreamTypes, StreamShape, sessionVars
<1>3. \A S, G, K, v : Leads(stream, held, queue, lagged, S, G, v, K) /\ Snapshot \in G
                        => Leads(stream', held', queue', lagged', S, G, v, K)
  BY <1>1 DEF Leads
<1> QED BY <1>1, <1>2, <1>3, CliStreamMoves

LEMMA CliResync ==
  ASSUME CliInv, Resync, ChatWaits
  PROVE  CliInv'
<1>0. Snapshot \in Snapshots /\ Snapshot # Nothing
  BY SnapshotFacts DEF CliInv, StreamTypes
<1>1. /\ stream' = "open" /\ held' = Snapshot /\ queue' = queue /\ lagged' = FALSE
      /\ UNCHANGED sessionVars /\ outbox' = outbox /\ stream = "open"
  BY DEF Resync
<1>2. StreamTypes' /\ StreamShape'
  BY <1>0, <1>1 DEF CliInv, StreamTypes, StreamShape, sessionVars
<1>3. \A S, G, K, v : Leads(stream, held, queue, lagged, S, G, v, K) /\ Snapshot \in G
                        => Leads(stream', held', queue', lagged', S, G, v, K)
  BY <1>0, <1>1 DEF Leads
<1> QED BY <1>0, <1>1, <1>2, <1>3, CliStreamMoves

(* The stream has ended, or is not there yet: nothing is on its way.       *)
LEMMA CliNowhere ==
  ASSUME CliInv, UNCHANGED sessionVars, outbox' = outbox,
         stream' \in {"off", "down", "ended"},
         held' = Nothing, queue' = <<>>, lagged' = FALSE,
         ChatTypes', ChatShape', BaselineShape',
         \A m \in Messages :
           session.text[m] = 0 => app'.shown[m] = 0 /\ NoneOf(events', ShowsMessage(m))
  PROVE  CliInv'
<1> DEFINE q == <<>>
<1>0. q \in Seq(Events) /\ Len(q) = 0 /\ queue' = q /\ 0 <= Capacity /\ session' = session
  BY StreamAssumption DEF sessionVars
<1>1. StreamShape' /\ \A S, G, v, K : Leads(stream', held', queue', lagged', S, G, v, K)
  BY LeadsNowhere DEF StreamShape
<1>2. StreamTypes'
  <2> HIDE DEF q
  <2>1. /\ queue' \in Seq(Events) /\ Len(queue') <= Capacity
        /\ \A i \in 1 .. Len(queue') : queue'[i].kind # "take"
    BY <1>0
  <2> QED BY <2>1 DEF CliInv, StreamTypes, sessionVars
<1>3. ASSUME NEW m \in Messages PROVE Unsaid(m)'
  <2>1. ShowsMessage(m)' = ShowsMessage(m) /\ Says(m)' = Says(m)
    BY DEF ShowsMessage, Says
  <2>2. NoneOf(queue', Says(m)) /\ held' \notin Says(m)
    <3> HIDE DEF q
    <3> QED BY <1>0, SnapshotsAreEvents DEF NoneOf, Says
  <2> QED BY <1>0, <2>1, <2>2 DEF CliInv, Unsaid
<1> QED BY <1>1, <1>2, <1>3, CliLeads

-----------------------------------------------------------------------------
(* The terminal: the next item of the stream.                              *)

LEMMA ItemFacts ==
  ASSUME StreamTypes, HasItem
  PROVE  /\ Item \in Events /\ Item.kind # "take" /\ (held # Nothing => Item.kind = "snapshot")
         /\ held # Nothing => Item = held
         /\ held = Nothing => queue # <<>> /\ ~lagged /\ Item = Head(queue)
         /\ \A S : held \notin S /\ NoneOf(queue, S) => Item \notin S
<1>1. /\ queue \in Seq(Events) /\ held \in Snapshots \cup {Nothing}
      /\ \A i \in 1 .. Len(queue) : queue[i].kind # "take"
  BY DEF StreamTypes
<1>2. CASE held # Nothing
  BY <1>1, <1>2, SnapshotsAreEvents DEF Item
<1>3. CASE held = Nothing
  <2>1. queue # <<>> /\ Item = Head(queue) /\ ~lagged
    BY <1>3 DEF HasItem, Item
  <2>2. Head(queue) = queue[1] /\ 1 \in 1 .. Len(queue) /\ Head(queue) \in Events
    BY <1>1, <2>1
  <2> QED BY <1>1, <1>3, <2>1, <2>2 DEF NoneOf
<1> QED BY <1>2, <1>3

LEMMA Delivery ==
  ASSUME StreamTypes, StreamShape, Deliver(FALSE)
  PROVE  /\ StreamTypes' /\ StreamShape' /\ stream' = "open" /\ held' = Nothing
         /\ \A i \in 1 .. Len(queue') : \E j \in 1 .. Len(queue) : queue'[i] = queue[j]
<1>1. /\ HasItem /\ held' = Nothing /\ stream' = stream /\ lagged' = lagged
      /\ queue' = IF held # Nothing THEN queue ELSE Tail(queue)
      /\ UNCHANGED sessionVars /\ outbox' = outbox /\ stream = "open"
  BY DEF Deliver, HasItem
<1>2. queue \in Seq(Events) /\ Len(queue) <= Capacity /\ Capacity \in Nat
  BY StreamAssumption DEF StreamTypes
<1>3. /\ queue' \in Seq(Events) /\ Len(queue') <= Capacity
      /\ \A i \in 1 .. Len(queue') : \E j \in 1 .. Len(queue) : queue'[i] = queue[j]
  <2>1. CASE held # Nothing
    <3>1. queue' = queue
      BY <1>1, <2>1
    <3> QED BY <1>2, <3>1
  <2>2. CASE held = Nothing
    <3>1. queue # <<>> /\ queue' = Tail(queue)
      BY <1>1, <2>2, ItemFacts
    <3>2. /\ queue' \in Seq(Events) /\ Len(queue') = Len(queue) - 1 /\ Len(queue) \in Nat
          /\ \A i \in 1 .. Len(queue') : queue'[i] = queue[i + 1] /\ i + 1 \in 1 .. Len(queue)
      BY <1>2, <3>1
    <3> QED BY <1>2, <3>2
  <2> QED BY <2>1, <2>2
<1>4. StreamTypes' /\ StreamShape'
  BY <1>1, <1>3 DEF StreamTypes, StreamShape, sessionVars
<1> QED BY <1>1, <1>3, <1>4

LEMMA LeadsDelivered ==
  ASSUME StreamTypes, Deliver(FALSE), NEW S, NEW G, NEW v, NEW v2, NEW K,
         Leads(stream, held, queue, lagged, S, G, v, K),
         Item.kind = "snapshot" => Item \in S,
         Item \in S /\ Item \in G => v2 \in K,
         Item \notin S /\ v \in K => v2 \in K
  PROVE  Leads(stream', held', queue', lagged', S, G, v2, K)
<1>1. /\ HasItem /\ held' = Nothing /\ stream' = stream /\ lagged' = lagged
      /\ stream = "open"
      /\ queue' = IF held # Nothing THEN queue ELSE Tail(queue)
  BY DEF Deliver, HasItem
<1>2. queue \in Seq(Events) /\ lagged \in BOOLEAN
  BY DEF StreamTypes
<1>3. CASE held # Nothing
  <2>1. Item = held /\ held \in S /\ (held \in G => v2 \in K)
    BY <1>1, <1>3, ItemFacts
  <2>2. Leads("open", held, queue, lagged, S, G, v, K)
    BY <1>1
  <2>3. Leads("open", Nothing, queue, lagged, S, G, v2, K)
    BY <1>3, <2>1, <2>2, LeadsAfterHeld
  <2> QED BY <1>1, <1>3, <2>3
<1>4. CASE held = Nothing
  <2>1. /\ queue # <<>> /\ lagged = FALSE /\ Item = Head(queue)
    BY <1>1, <1>2, <1>4, ItemFacts
  <2>2. Leads("open", Nothing, queue, FALSE, S, G, v, K)
    BY <1>1, <1>4, <2>1
  <2>3. /\ Head(queue) \in S /\ Head(queue) \in G => v2 \in K
        /\ Head(queue) \notin S /\ v \in K => v2 \in K
    BY <2>1
  <2>4. Leads("open", Nothing, Tail(queue), FALSE, S, G, v2, K)
    BY <1>2, <2>1, <2>2, <2>3, LeadsAfterHead
  <2> QED BY <1>1, <1>4, <2>1, <2>4
<1> QED BY <1>3, <1>4

(* The terminal is told a fact, or of something else.                      *)
LEMMA LeadsTold ==
  ASSUME NEW E, NEW q \in Seq(E), NEW e \in E, NEW S, NEW G, NEW v, NEW K, e \in S, e \in G
  PROVE  Leads("open", Nothing, Append(q, e), FALSE, S, G, v, K)
<1> DEFINE a == Append(q, e)
<1>1. /\ Len(a) = Len(q) + 1 /\ Len(q) \in Nat /\ a[Len(a)] = e
  OBVIOUS
<1> HIDE DEF a
<1>2. ~NoneOf(a, S)
  BY <1>1 DEF NoneOf
<1>3. ASSUME NEW i \in 1 .. Len(a), \A j \in i + 1 .. Len(a) : a[j] \notin S
      PROVE  a[i] \in G
  <2>1. i = Len(a)
    BY <1>1, <1>3
  <2> QED BY <1>1, <2>1
<1> QED BY <1>2, <1>3 DEF Leads, LastIsGood, a

LEMMA LeadsUntold ==
  ASSUME NEW E, NEW q \in Seq(E), NEW e \in E, NEW S, NEW G, NEW v, NEW K, e \notin S,
         Leads("open", Nothing, q, FALSE, S, G, v, K)
  PROVE  Leads("open", Nothing, Append(q, e), FALSE, S, G, v, K)
BY LeadsAfterPublish

LEMMA LeadsUnset ==
  ASSUME NEW q, NEW S, NEW G, NEW v, NEW K, NoneOf(q, S), v \in K
  PROVE  Leads("open", Nothing, q, FALSE, S, G, v, K)
BY DEF Leads, LastIsGood, NoneOf

LEMMA NothingReadAppended ==
  ASSUME events \in Seq(Updates), NEW u \in Updates, events' = Append(events, u)
  PROVE  /\ u.kind # "refreshed" => (NothingRead' <=> NothingRead)
         /\ u.kind = "refreshed" => (NothingRead' <=> NothingRead /\ u.pending = {})
<1>1. /\ Len(events') = Len(events) + 1 /\ Len(events) \in Nat
      /\ events'[Len(events')] = u /\ \A i \in 1 .. Len(events) : events'[i] = events[i]
  OBVIOUS
<1>2. NothingRead' <=>
        NothingRead /\ (u.kind = "refreshed" => u.pending = {})
  BY <1>1 DEF NothingRead
<1> QED BY <1>2

LEMMA NoneAppended ==
  ASSUME NEW E, NEW q \in Seq(E), NEW e \in E, NEW S
  PROVE  NoneOf(Append(q, e), S) <=> NoneOf(q, S) /\ e \notin S
<1> DEFINE a == Append(q, e)
<1>1. /\ Len(a) = Len(q) + 1 /\ Len(q) \in Nat /\ a[Len(a)] = e
      /\ \A i \in 1 .. Len(q) : a[i] = q[i]
  OBVIOUS
<1> HIDE DEF a
<1>2. NoneOf(a, S) <=> NoneOf(q, S) /\ e \notin S
  BY <1>1 DEF NoneOf
<1> QED BY <1>2 DEF a

LEMMA Appended ==
  ASSUME NEW E, NEW q \in Seq(E)
  PROVE  /\ q \o <<>> = q
         /\ \A e \in E : q \o <<e>> = Append(q, e)
<1>1. q \o <<>> = q
  OBVIOUS
<1>2. ASSUME NEW e \in E PROVE q \o <<e>> = Append(q, e)
  OBVIOUS
<1> QED BY <1>1, <1>2

LEMMA UpdateFacts ==
  /\ \A m \in Messages, n \in 0 .. MaxText : ShowMessage(m, n) \in Updates
  /\ \A r \in Permissions : ShowRequest(r) \in Updates
  /\ \A t \in [Messages -> 0 .. MaxText], ids \in SUBSET Messages, p \in SUBSET Permissions :
       [kind |-> "resumed", text |-> t, ids |-> ids, pending |-> p] \in Updates
  /\ \A p \in SUBSET Permissions : [kind |-> "refreshed", pending |-> p] \in Updates
  /\ \A k \in {"closed", "status", "ended", "failed"} : [kind |-> k] \in Updates
BY DEF Updates, ShowMessage, ShowRequest

(* The updates of an event.                                                *)
LEMMA ItemUpdates ==
  ASSUME NEW e \in Events, e.kind # "take", chat \in Chats
  PROVE  \/ e.kind = "message" /\ e.partial /\ EventUpdates(e) = <<>>
         \/ \E u \in Updates :
              /\ EventUpdates(e) = <<u>>
              /\ e.kind = "message" => /\ ~e.partial /\ u.kind = "message"
                                       /\ u.message = e.message /\ u.length = e.length
              /\ e.kind = "snapshot" =>
                   /\ u.kind = "resumed" /\ u.text = e.text
                   /\ u.ids = IF chat.resumed THEN Present(e.text) \ chat.baseline.ids
                              ELSE Present(e.text)
                   /\ u.pending = IF chat.resumed THEN e.pending \ chat.baseline.permissions
                                  ELSE e.pending
              /\ e.kind = "permission" => u.kind = "permission"
              /\ e.kind \in {"closed", "status"} => u.kind = e.kind
<1>0. e.kind \in {"snapshot", "message", "permission", "closed", "status"}
  BY EventFacts
<1>1. CASE e.kind = "message" /\ e.partial
  BY <1>1 DEF EventUpdates
<1>2. CASE e.kind = "message" /\ ~e.partial
  <2> DEFINE u == ShowMessage(e.message, e.length)
  <2>1. u \in Updates
    BY <1>2, EventFacts, UpdateFacts
  <2>2. EventUpdates(e) = <<u>>
    BY <1>2 DEF EventUpdates
  <2>3. u.kind = "message" /\ u.message = e.message /\ u.length = e.length
    BY DEF ShowMessage
  <2> HIDE DEF u
  <2> QED BY <1>2, <2>1, <2>2, <2>3
<1>3. CASE e.kind = "snapshot"
  <2> DEFINE ids == IF chat.resumed THEN Present(e.text) \ chat.baseline.ids
                    ELSE Present(e.text)
             p == IF chat.resumed THEN e.pending \ chat.baseline.permissions
                  ELSE e.pending
             u == [kind |-> "resumed", text |-> e.text, ids |-> ids, pending |-> p]
  <2>1. e.text \in [Messages -> 0 .. MaxText] /\ e.pending \subseteq Permissions
    BY <1>3, EventFacts
  <2>2. ids \in SUBSET Messages /\ p \in SUBSET Permissions
    BY <2>1 DEF Present
  <2>3. EventUpdates(e) = <<u>>
    BY <1>3 DEF EventUpdates, SnapshotUpdates, ResumeStateUpdates
  <2>4. u.kind = "resumed" /\ u.text = e.text /\ u.ids = ids /\ u.pending = p
    OBVIOUS
  <2>5. u \in Updates
    <3> HIDE DEF ids, p
    <3> QED BY <2>1, <2>2, UpdateFacts
  <2> HIDE DEF u
  <2> QED BY <1>3, <2>3, <2>4, <2>5
<1>4. CASE e.kind = "permission"
  <2> DEFINE u == ShowRequest(e.request)
  <2>1. u \in Updates
    BY <1>4, EventFacts, UpdateFacts
  <2>2. EventUpdates(e) = <<u>>
    BY <1>4 DEF EventUpdates
  <2>3. u.kind = "permission"
    BY DEF ShowRequest
  <2> HIDE DEF u
  <2> QED BY <1>4, <2>1, <2>2, <2>3
<1>5. CASE e.kind \in {"closed", "status"}
  <2>1. e \in Updates
    BY <1>5 DEF Events, Snapshots, Updates
  <2>2. EventUpdates(e) = <<e>>
    BY <1>5 DEF EventUpdates
  <2> QED BY <1>5, <2>1, <2>2
<1> QED BY <1>0, <1>1, <1>2, <1>3, <1>4, <1>5

(* The stream task takes the item, and tells the terminal of it.           *)
LEMMA CliReceive ==
  ASSUME CliInv, ReceiveEvent
  PROVE  CliInv'
<1> DEFINE e == Item
<1>a. StreamTypes /\ StreamShape /\ ChatTypes /\ ChatShape /\ TurnShape /\ BaselineShape
  BY DEF CliInv
<1>b. /\ HasItem /\ Deliver(FALSE) /\ UNCHANGED sessionVars /\ outbox' = outbox
      /\ session' = session /\ stream = "open"
      /\ app' = app /\ refresh' = refresh /\ command' = command /\ commands' = commands
      /\ events' = events \o EventUpdates(e)
  BY DEF ReceiveEvent, Deliver, HasItem, sessionVars
<1>c. /\ e \in Events /\ e.kind # "take" /\ (held # Nothing => e.kind = "snapshot")
      /\ \A S : held \notin S /\ NoneOf(queue, S) => e \notin S
  BY <1>a, <1>b, ItemFacts
<1>d. /\ StreamTypes' /\ StreamShape' /\ stream' = "open" /\ held' = Nothing
      /\ \A i \in 1 .. Len(queue') : \E j \in 1 .. Len(queue) : queue'[i] = queue[j]
  BY <1>a, <1>b, Delivery
<1>e. /\ chat \in Chats /\ app \in Apps /\ events \in Seq(Updates)
  BY <1>a DEF ChatTypes
<1> DEFINE Differs == \/ \E m \in chat.baseline.ids : e.text[m] # app.shown[m]
                      \/ ~(chat.baseline.permissions \subseteq e.pending)
<1>f. /\ e.kind = "snapshot" =>
           /\ chat' \in Chats /\ chat'.phase = chat.phase /\ ~chat'.resumed
           /\ (chat'.missed <=> e.missed)
           /\ (chat'.skipped <=> chat.skipped \/ (chat.resumed /\ Differs))
      /\ e.kind # "snapshot" => chat' = chat
  <2>1. ASSUME e.kind = "snapshot"
        PROVE  /\ chat' \in Chats /\ chat'.phase = chat.phase /\ ~chat'.resumed
               /\ (chat'.missed <=> e.missed)
               /\ (chat'.skipped <=> chat.skipped \/ (chat.resumed /\ Differs))
    <3>1. PICK b \in BOOLEAN : b <=> Differs
      OBVIOUS
    <3>2. PICK d \in BOOLEAN : d <=> chat.skipped \/ (chat.resumed /\ b)
      OBVIOUS
    <3>3. chat' = [chat EXCEPT !.resumed = FALSE, !.baseline = NoBaseline,
                               !.missed = e.missed,
                               !.skipped = @ \/ (chat.resumed /\ Differs)]
      BY <2>1 DEF ReceiveEvent
    <3>4. e.missed \in BOOLEAN /\ NoBaseline \in Baselines
      BY <2>1, <1>c, EventFacts DEF NoBaseline, Baselines
    <3> HIDE DEF Differs, e
    <3>5. /\ chat' \in Chats /\ chat'.phase = chat.phase /\ chat'.resumed = FALSE
          /\ chat'.missed = e.missed
          /\ chat'.skipped = (chat.skipped \/ (chat.resumed /\ Differs))
      BY <1>e, <3>3, <3>4 DEF Chats
    <3> QED BY <3>5
  <2> QED BY <2>1 DEF ReceiveEvent
<1>g. chat.resumed => e.kind = "snapshot"
  BY <1>a, <1>b, <1>c DEF ChatShape
<1> HIDE DEF e, Differs
<1>1. \/ e.kind = "message" /\ e.partial /\ events' = events
      \/ \E u \in Updates :
           /\ events' = Append(events, u)
           /\ e.kind = "message" => /\ ~e.partial /\ u.kind = "message"
                                    /\ u.message = e.message /\ u.length = e.length
           /\ e.kind = "snapshot" =>
                /\ u.kind = "resumed" /\ u.text = e.text
                /\ u.ids = IF chat.resumed THEN Present(e.text) \ chat.baseline.ids
                           ELSE Present(e.text)
                /\ u.pending = IF chat.resumed THEN e.pending \ chat.baseline.permissions
                               ELSE e.pending
           /\ e.kind = "permission" => u.kind = "permission"
           /\ e.kind \in {"closed", "status"} => u.kind = e.kind
  <2>1. /\ events \o <<>> = events
        /\ \A u \in Updates : events \o <<u>> = Append(events, u)
    BY <1>e, Appended
  <2>2. CASE e.kind = "message" /\ e.partial /\ EventUpdates(e) = <<>>
    BY <1>b, <2>1, <2>2
  <2>3. CASE ~(e.kind = "message" /\ e.partial /\ EventUpdates(e) = <<>>)
    <3>1. PICK u \in Updates :
            /\ EventUpdates(e) = <<u>>
            /\ e.kind = "message" => /\ ~e.partial /\ u.kind = "message"
                                     /\ u.message = e.message /\ u.length = e.length
            /\ e.kind = "snapshot" =>
                 /\ u.kind = "resumed" /\ u.text = e.text
                 /\ u.ids = IF chat.resumed THEN Present(e.text) \ chat.baseline.ids
                            ELSE Present(e.text)
                 /\ u.pending = IF chat.resumed THEN e.pending \ chat.baseline.permissions
                                ELSE e.pending
            /\ e.kind = "permission" => u.kind = "permission"
            /\ e.kind \in {"closed", "status"} => u.kind = e.kind
      BY <1>c, <1>e, <2>3, ItemUpdates
    <3>2. events' = Append(events, u)
      BY <1>b, <2>1, <3>1
    <3> QED BY <3>1, <3>2
  <2> QED BY <2>2, <2>3
<1>2. CASE e.kind = "message" /\ e.partial /\ events' = events
  <2>1. ChatTypes' /\ ChatShape' /\ BaselineShape'
    BY <1>a, <1>b, <1>d, <1>f, <1>g, <1>2 DEF ChatTypes, ChatShape, BaselineShape
  <2>2. ASSUME NEW m \in Messages PROVE Unsaid(m)'
    <3>1. Unsaid(m) /\ ShowsMessage(m)' = ShowsMessage(m) /\ Says(m)' = Says(m)
      BY DEF CliInv, ShowsMessage, Says
    <3> QED BY <3>1, <1>b, <1>d, <1>2, SnapshotsAreEvents DEF Unsaid, NoneOf, Says
  <2>3. ASSUME NEW m \in Messages
        PROVE  Leads(stream', held', queue', lagged', ReplySetters(m), ReplyEvents(m),
                     ReplyView(m)', ReplyViews(m))
    <3>1. ReplyView(m)' = ReplyView(m)
      BY <1>b, <1>f, <1>2 DEF ReplyView, ReplyShown, Excused, ShowsMessage, ShowsRightly
    <3>2. e \notin ReplySetters(m)
      BY <1>2 DEF ReplySetters
    <3>3. Leads(stream, held, queue, lagged, ReplySetters(m), ReplyEvents(m),
                ReplyView(m), ReplyViews(m))
      BY DEF CliInv, ReplyReaches
    <3> QED BY <1>a, <1>b, <1>2, <3>1, <3>2, <3>3, LeadsDelivered DEF e
  <2>4. ASSUME Finished
        PROVE  Leads(stream', held', queue', lagged', AskSetters, ClearingEvents,
                     RequestsView', RequestsViews)
    <3>1. RequestsView' = RequestsView
      BY <1>b, <1>f, <1>2 DEF RequestsView, RequestsClear, Excused, AskingUpdates,
           ClearingUpdates, ClearView, Clear, NothingRead
    <3>2. e \notin AskSetters
      BY <1>2 DEF AskSetters
    <3>3. Leads(stream, held, queue, lagged, AskSetters, ClearingEvents, RequestsView,
                RequestsViews)
      BY <2>4 DEF CliInv, RequestsGo
    <3> QED BY <1>a, <1>b, <1>2, <3>1, <3>2, <3>3, LeadsDelivered DEF e
  <2> QED BY <1>b, <1>d, <2>1, <2>2, <2>3, <2>4, CliLeads
<1>3. ASSUME NEW u \in Updates,
             events' = Append(events, u),
             e.kind = "message" => /\ ~e.partial /\ u.kind = "message"
                                   /\ u.message = e.message /\ u.length = e.length,
             e.kind = "snapshot" =>
               /\ u.kind = "resumed" /\ u.text = e.text
               /\ u.ids = IF chat.resumed THEN Present(e.text) \ chat.baseline.ids
                          ELSE Present(e.text)
               /\ u.pending = IF chat.resumed THEN e.pending \ chat.baseline.permissions
                              ELSE e.pending,
             e.kind = "permission" => u.kind = "permission",
             e.kind \in {"closed", "status"} => u.kind = e.kind
      PROVE  CliInv'
  <2>0. events' \in Seq(Updates)
    BY <1>e, <1>3
  <2>1. ChatTypes'
    BY <1>a, <1>b, <1>f, <2>0 DEF ChatTypes
  <2>2. ChatShape' /\ BaselineShape'
    BY <1>a, <1>b, <1>d, <1>f, <1>g DEF ChatShape, BaselineShape
  <2>3. ASSUME NEW m \in Messages PROVE Unsaid(m)'
    <3>1. Unsaid(m) /\ ShowsMessage(m)' = ShowsMessage(m) /\ Says(m)' = Says(m)
      BY DEF CliInv, ShowsMessage, Says
    <3>2. ASSUME session.text[m] = 0
          PROVE  NoneOf(events', ShowsMessage(m))
      <4>1. e \notin Says(m) /\ NoneOf(events, ShowsMessage(m))
        BY <1>c, <3>1, <3>2 DEF Unsaid
      <4>2. u \notin ShowsMessage(m)
        <5>1. CASE e.kind = "message"
          BY <1>3, <1>c, <4>1, <5>1 DEF Says, ShowsMessage
        <5>2. CASE e.kind = "snapshot"
          <6>1. e.text[m] = 0
            BY <1>c, <4>1, <5>2 DEF Says
          <6>2. m \notin u.ids
            BY <1>3, <5>2, <6>1 DEF Present
          <6> QED BY <1>3, <5>2, <6>2 DEF ShowsMessage
        <5>3. CASE e.kind \in {"permission", "closed", "status"}
          BY <1>3, <5>3 DEF ShowsMessage
        <5> QED BY <1>c, <5>1, <5>2, <5>3, EventFacts
      <4> QED BY <1>e, <1>3, <4>1, <4>2, NoneAppended
    <3> QED BY <3>1, <3>2, <1>b, <1>d, SnapshotsAreEvents DEF Unsaid, NoneOf, Says
  <2>4. ASSUME NEW m \in Messages
        PROVE  Leads(stream', held', queue', lagged', ReplySetters(m), ReplyEvents(m),
                     ReplyView(m)', ReplyViews(m))
    <3> DEFINE S == ShowsMessage(m)
               G == ShowsRightly(m)
    <3>1. S' = S /\ G' = G
      BY <1>b DEF ShowsMessage, ShowsRightly
    <3>2. ASSUME Leads("open", Nothing, Append(events, u), FALSE, S, G, app.shown[m],
                       {session.text[m]})
          PROVE  ReplyShown(m)'
      BY <1>b, <1>3, <3>1, <3>2 DEF ReplyShown
    <3> HIDE DEF S, G
    <3>3. ASSUME e \in ReplySetters(m), e \in ReplyEvents(m), ~OwesReply(m)
          PROVE  ReplyShown(m)'
      <4>1. CASE e.kind = "message"
        <5>1. u \in S /\ u \in G
          BY <1>3, <3>3, <4>1 DEF S, G, ReplySetters, ReplyEvents, ShowsMessage, ShowsRightly
        <5> QED BY <1>e, <3>2, <5>1, LeadsTold
      <4>2. CASE e.kind = "snapshot" /\ e.missed
        BY <1>f, <4>2 DEF ReplyShown, Excused
      <4>3. CASE e.kind = "snapshot" /\ e.text[m] = session.text[m]
        <5>1. CASE m \in u.ids
          <6>1. u \in S /\ u \in G
            BY <1>3, <4>3, <5>1 DEF S, G, ShowsMessage, ShowsRightly
          <6> QED BY <1>e, <3>2, <6>1, LeadsTold
        <5>2. CASE m \notin u.ids
          <6>1. u \notin S
            BY <1>3, <4>3, <5>2 DEF S, ShowsMessage
          <6>2. CASE session.text[m] = 0
            <7>1. NoneOf(events, S) /\ app.shown[m] = 0
              BY <6>2 DEF CliInv, Unsaid, S
            <7>2. NoneOf(Append(events, u), S)
              BY <1>e, <6>1, <7>1, NoneAppended
            <7>3. app.shown[m] \in {session.text[m]}
              BY <6>2, <7>1
            <7> QED BY <3>2, <7>2, <7>3, LeadsUnset
          <6>3. CASE session.text[m] # 0
            <7>1. m \in Present(e.text)
              <8>1. e.text[m] \in 0 .. MaxText
                BY <1>c, <4>3, EventFacts
              <8> QED BY <4>3, <6>3, <8>1 DEF Present
            <7>2. chat.resumed /\ m \in chat.baseline.ids
              BY <1>3, <4>3, <5>2, <7>1
            <7>3. CASE Differs
              BY <1>f, <4>3, <7>2, <7>3 DEF ReplyShown, Excused
            <7>4. CASE ~Differs
              <8>1. app.shown[m] \in {session.text[m]}
                BY <4>3, <7>2, <7>4 DEF Differs
              <8>2. NoneOf(events, S)
                BY <1>a, <7>2 DEF ChatShape, NoneOf, S, ShowsMessage
              <8>3. NoneOf(Append(events, u), S)
                BY <1>e, <6>1, <8>2, NoneAppended
              <8> QED BY <3>2, <8>1, <8>3, LeadsUnset
            <7> QED BY <7>3, <7>4
          <6> QED BY <6>2, <6>3
        <5> QED BY <5>1, <5>2
      <4> QED BY <3>3, <4>1, <4>2, <4>3 DEF ReplySetters, ReplyEvents
    <3>4. ASSUME e \notin ReplySetters(m), ReplyShown(m) PROVE ReplyShown(m)'
      <4>1. u \notin S /\ e.kind # "snapshot"
        <5>1. e.kind # "snapshot" /\ (e.kind = "message" => e.message # m)
          BY <1>c, <1>3, <3>4 DEF ReplySetters
        <5>2. e.kind \in {"message", "permission", "closed", "status"}
          BY <1>c, <5>1, EventFacts
        <5> QED BY <1>3, <5>1, <5>2 DEF S, ShowsMessage
      <4>2. chat' = chat
        BY <1>f, <4>1
      <4>3. CASE Excused
        BY <4>2, <4>3 DEF ReplyShown, Excused
      <4>4. CASE ~Excused
        <5>1. Leads("open", Nothing, events, FALSE, S, G, app.shown[m], {session.text[m]})
          BY <3>4, <4>4 DEF ReplyShown, S, G
        <5> QED BY <1>e, <3>2, <4>1, <5>1, LeadsUntold
      <4> QED BY <4>3, <4>4
    <3>5. /\ e.kind = "snapshot" => e \in ReplySetters(m)
          /\ e \in ReplySetters(m) /\ e \in ReplyEvents(m) => ReplyView(m)' \in ReplyViews(m)
          /\ e \notin ReplySetters(m) /\ ReplyView(m) \in ReplyViews(m)
               => ReplyView(m)' \in ReplyViews(m)
      <4>1. e.kind = "snapshot" => e \in ReplySetters(m)
        BY <1>c DEF ReplySetters
      <4> QED BY <3>3, <3>4, <4>1 DEF ReplyView, ReplyViews
    <3>6. Leads(stream, held, queue, lagged, ReplySetters(m), ReplyEvents(m),
                ReplyView(m), ReplyViews(m))
      BY DEF CliInv, ReplyReaches
    <3> QED BY <1>a, <1>b, <3>5, <3>6, LeadsDelivered DEF e
  <2>5. ASSUME Finished
        PROVE  Leads(stream', held', queue', lagged', AskSetters, ClearingEvents,
                     RequestsView', RequestsViews)
    <3> DEFINE S == AskingUpdates
               G == ClearingUpdates
    <3>0. NothingRead' <=> NothingRead
      <4>1. u.kind # "refreshed"
        BY <1>c, <1>3, EventFacts
      <4> QED BY <1>e, <1>3, <4>1, NothingReadAppended
    <3>1. S' = S /\ G' = G /\ ClearView' = ClearView
      BY <1>b, <3>0 DEF AskingUpdates, ClearingUpdates, ClearView, Clear
    <3>2. ASSUME Leads("open", Nothing, Append(events, u), FALSE, S, G, ClearView, {"right"})
          PROVE  RequestsClear'
      BY <1>b, <1>3, <3>1, <3>2 DEF RequestsClear
    <3> HIDE DEF S, G
    <3>3. ASSUME e \in AskSetters, e \in ClearingEvents, ~OwesAnswer
          PROVE  RequestsClear'
      <4>1. CASE e.kind = "message"
        <5>1. u \in S /\ u \in G
          BY <1>3, <4>1 DEF S, G, AskingUpdates, ClearingUpdates
        <5> QED BY <1>e, <3>2, <5>1, LeadsTold
      <4>2. CASE e.kind = "snapshot" /\ e.missed
        BY <1>f, <4>2 DEF RequestsClear, Excused
      <4>3. CASE e.kind = "snapshot" /\ e.pending = {} /\ \A m \in Messages : e.text[m] # 0
        <5>1. u.pending = {} /\ u.kind = "resumed"
          BY <1>3, <4>3
        <5>2. CASE u.ids # {}
          <6>1. u \in S /\ u \in G
            BY <5>1, <5>2 DEF S, G, AskingUpdates, ClearingUpdates
          <6> QED BY <1>e, <3>2, <6>1, LeadsTold
        <5>3. CASE u.ids = {}
          <6>1. u \notin S
            BY <5>1, <5>3 DEF S, AskingUpdates
          <6>2. Present(e.text) = Messages /\ Messages # {}
            <7>1. e.text \in [Messages -> 0 .. MaxText]
              BY <1>c, <4>3, EventFacts
            <7>2. \A m \in Messages : e.text[m] \in 0 .. MaxText /\ e.text[m] > 0
              BY <4>3, <7>1
            <7>3. Messages # {}
              BY StreamAssumption DEF Messages
            <7> QED BY <7>2, <7>3 DEF Present
          <6>3. chat.resumed /\ chat.baseline.ids = Messages
            <7>1. chat.baseline.ids \subseteq Messages
              BY <1>e DEF Chats, Baselines
            <7> QED BY <1>3, <4>3, <5>3, <6>2, <7>1
          <6>4. CASE Differs
            BY <1>f, <4>3, <6>3, <6>4 DEF RequestsClear, Excused
          <6>5. CASE ~Differs
            <7>1. chat.baseline.permissions = {}
              BY <4>3, <6>5 DEF Differs
            <7>2. ClearView \in {"right"}
              BY <1>a, <6>3, <7>1 DEF BaselineShape, ClearView, Clear
            <7>3. NoneOf(events, S)
              BY <1>a, <6>3 DEF ChatShape, NoneOf, S, AskingUpdates
            <7>4. NoneOf(Append(events, u), S)
              BY <1>e, <6>1, <7>3, NoneAppended
            <7> QED BY <3>2, <7>2, <7>4, LeadsUnset
          <6> QED BY <6>4, <6>5
        <5> QED BY <5>2, <5>3
      <4> QED BY <3>3, <4>1, <4>2, <4>3 DEF ClearingEvents
    <3>4. ASSUME e \notin AskSetters, RequestsClear PROVE RequestsClear'
      <4>1. u \notin S /\ e.kind # "snapshot"
        <5>1. e.kind \in {"closed", "status"}
          BY <1>c, <1>3, <3>4, EventFacts DEF AskSetters
        <5> QED BY <1>3, <5>1 DEF S, AskingUpdates
      <4>2. chat' = chat
        BY <1>f, <4>1
      <4>3. CASE Excused
        BY <4>2, <4>3 DEF RequestsClear, Excused
      <4>4. CASE ~Excused
        <5>1. Leads("open", Nothing, events, FALSE, S, G, ClearView, {"right"})
          BY <3>4, <4>4 DEF RequestsClear, S, G
        <5> QED BY <1>e, <3>2, <4>1, <5>1, LeadsUntold
      <4> QED BY <4>3, <4>4
    <3>5. /\ e.kind = "snapshot" => e \in AskSetters
          /\ e \in AskSetters /\ e \in ClearingEvents => RequestsView' \in RequestsViews
          /\ e \notin AskSetters /\ RequestsView \in RequestsViews
               => RequestsView' \in RequestsViews
      <4>1. e.kind = "snapshot" => e \in AskSetters
        BY <1>c DEF AskSetters
      <4> QED BY <3>3, <3>4, <4>1 DEF RequestsView, RequestsViews
    <3>6. Leads(stream, held, queue, lagged, AskSetters, ClearingEvents, RequestsView,
                RequestsViews)
      BY <2>5 DEF CliInv, RequestsGo
    <3> QED BY <1>a, <1>b, <3>5, <3>6, LeadsDelivered DEF e
  <2> QED BY <1>b, <1>d, <2>1, <2>2, <2>3, <2>4, <2>5, CliLeads
<1> QED BY <1>1, <1>2, <1>3

-----------------------------------------------------------------------------
(* The terminal: the stream ends.                                          *)

LEMMA CliEnds ==
  ASSUME CliInv, StreamEnds, UNCHANGED sessionVars, outbox' = outbox,
         stream' = "ended", held' = Nothing, queue' = <<>>, lagged' = FALSE,
         commands' \in 0 .. MaxCommands, stream # "off"
  PROVE  CliInv'
<1> DEFINE u == [kind |-> "ended"]
<1>1. /\ u \in Updates /\ u.kind = "ended" /\ events \in Seq(Updates)
      /\ events' = Append(events, u)
      /\ chat' = chat /\ app' = app /\ refresh' = refresh /\ command' = command
      /\ session' = session
  BY UpdateFacts DEF StreamEnds, CliInv, ChatTypes, sessionVars
<1> HIDE DEF u
<1>2. events' \in Seq(Updates)
  BY <1>1
<1>3. ChatTypes'
  BY <1>1, <1>2 DEF CliInv, ChatTypes
<1>4. ASSUME chat.resumed PROVE \A i \in 1 .. Len(events') : events'[i].kind = "ended"
  <2> DEFINE S == {x \in Updates : x.kind # "ended"}
  <2>1. NoneOf(events, S) /\ u \notin S
    BY <1>1, <1>4 DEF CliInv, ChatShape, NoneOf
  <2>2. NoneOf(events', S)
    <3> HIDE DEF S
    <3> QED BY <1>1, <2>1, NoneAppended
  <2>3. \A i \in 1 .. Len(events') : events'[i] \in Updates
    BY <1>2
  <2> QED BY <2>2, <2>3 DEF NoneOf
<1>5. ChatShape'
  BY <1>1, <1>4 DEF CliInv, ChatShape
<1>6. BaselineShape'
  BY <1>1 DEF CliInv, BaselineShape
<1>7. ASSUME NEW m \in Messages, session.text[m] = 0
      PROVE  app'.shown[m] = 0 /\ NoneOf(events', ShowsMessage(m))
  <2>1. app.shown[m] = 0 /\ NoneOf(events, ShowsMessage(m)) /\ u \notin ShowsMessage(m)
    BY <1>1, <1>7 DEF CliInv, Unsaid, ShowsMessage
  <2> QED BY <1>1, <2>1, NoneAppended
<1> QED BY <1>3, <1>5, <1>6, <1>7, CliNowhere

LEMMA CliStreamEnds ==
  ASSUME CliInv, StreamBreaks \/ StreamRefused
  PROVE  CliInv'
<1>1. commands \in 0 .. MaxCommands
  BY DEF CliInv, ChatTypes
<1>2. CASE StreamBreaks
  <2>1. commands' \in 0 .. MaxCommands
    BY <1>1, <1>2, ChatAssumption DEF StreamBreaks
  <2> QED BY <1>2, <2>1, CliEnds DEF StreamBreaks, Disconnect, Unsubscribed
<1>3. CASE StreamRefused
  <2>1. /\ StreamEnds /\ UNCHANGED sessionVars /\ outbox' = outbox
        /\ stream' = "ended" /\ held' = Nothing /\ queue' = <<>> /\ lagged' = FALSE
        /\ stream # "off" /\ commands' = commands
    BY <1>3 DEF StreamRefused, Refused, CliInv, StreamShape, StreamTypes
  <2> QED BY <1>1, <2>1, CliEnds
<1> QED BY <1>2, <1>3

LEMMA CliQuit ==
  ASSUME CliInv, Quit
  PROVE  CliInv'
<1>1. /\ chat' = [chat EXCEPT !.phase = "over"] /\ chat.phase = "running"
      /\ app' = app /\ events' = events /\ refresh' = refresh /\ command' = command
      /\ commands' = commands /\ UNCHANGED sessionVars /\ outbox' = outbox
      /\ stream' = "ended" /\ held' = Nothing /\ queue' = <<>> /\ lagged' = FALSE
      /\ session' = session
  BY DEF Quit, UiIsFree, Unsubscribed, sessionVars
<1>2. /\ chat' \in Chats /\ chat'.phase = "over" /\ chat'.resumed = chat.resumed
      /\ chat'.baseline = chat.baseline
  BY <1>1 DEF CliInv, ChatTypes, Chats
<1>3. ChatTypes' /\ ChatShape' /\ BaselineShape'
  BY <1>1, <1>2 DEF CliInv, ChatTypes, ChatShape, BaselineShape
<1>4. \A m \in Messages :
        session.text[m] = 0 => app'.shown[m] = 0 /\ NoneOf(events', ShowsMessage(m))
  BY <1>1 DEF CliInv, Unsaid
<1> QED BY <1>1, <1>3, <1>4, CliNowhere

-----------------------------------------------------------------------------
(* The terminal: attaching.                                                *)

LEMMA CliNewChat ==
  ASSUME CliInv, NewChat
  PROVE  CliInv'
<1>1. /\ chat' = [chat EXCEPT !.phase = "running"] /\ chat.phase = "start"
      /\ app' = app /\ events' = events /\ refresh' = refresh /\ command' = command
      /\ commands' = commands /\ UNCHANGED sessionVars /\ outbox' = outbox
      /\ stream' = "down" /\ stream = "off" /\ session' = session
      /\ held' = Nothing /\ queue' = <<>> /\ lagged' = FALSE
  BY DEF NewChat, CliInv, ChatShape, StreamShape, StreamTypes, sessionVars
<1>2. /\ chat' \in Chats /\ chat'.phase = "running" /\ chat'.resumed = chat.resumed
      /\ chat'.baseline = chat.baseline
  BY <1>1 DEF CliInv, ChatTypes, Chats
<1>3. ChatTypes' /\ ChatShape' /\ BaselineShape'
  BY <1>1, <1>2 DEF CliInv, ChatTypes, ChatShape, BaselineShape
<1>4. \A m \in Messages :
        session.text[m] = 0 => app'.shown[m] = 0 /\ NoneOf(events', ShowsMessage(m))
  BY <1>1 DEF CliInv, Unsaid
<1> QED BY <1>1, <1>3, <1>4, CliNowhere

LEMMA CliGetSession ==
  ASSUME CliInv, GetSession
  PROVE  CliInv'
<1> DEFINE b == [ids |-> Present(session.text), permissions |-> session.pending]
<1>0. /\ session.text \in [Messages -> 0 .. MaxText] /\ session.pending \subseteq Permissions
      /\ session.closed \in BOOLEAN
  BY DEF CliInv, StreamTypes, Sessions
<1>1. /\ chat' = [chat EXCEPT !.phase = "history", !.closed = session.closed,
                    !.resumed = TRUE, !.baseline = b]
      /\ app' = [app EXCEPT !.shown = session.text, !.pending = session.pending]
      /\ chat.phase = "start" /\ UNCHANGED serverVars
      /\ events' = events /\ refresh' = refresh /\ command' = command
      /\ commands' = commands /\ session' = session
      /\ stream' = stream /\ stream = "off" /\ held' = held
      /\ events = <<>> /\ refresh = Idle /\ command = NoCommand
  BY DEF GetSession, CliInv, ChatShape, serverVars
<1>2. /\ b \in Baselines /\ b.permissions = session.pending
      /\ \A m \in b.ids : session.text[m] # 0
  BY <1>0 DEF Baselines, Present
<1> HIDE DEF b
<1>3. /\ chat' \in Chats /\ chat'.phase = "history" /\ chat'.resumed /\ chat'.baseline = b
  BY <1>0, <1>1, <1>2 DEF CliInv, ChatTypes, Chats
<1>4. app' \in Apps /\ app'.shown = session.text /\ app'.pending = session.pending
  BY <1>0, <1>1 DEF CliInv, ChatTypes, Apps
<1>5. ChatTypes'
  BY <1>1, <1>3, <1>4 DEF CliInv, ChatTypes
<1>6. Len(events') = 0
  BY <1>1
<1>7. ChatShape' /\ BaselineShape'
  <2>1. command.name = "none" /\ ~command.done
    BY <1>1 DEF NoCommand
  <2> QED BY <1>1, <1>2, <1>3, <1>4, <1>6, <2>1 DEF ChatShape, BaselineShape
<1>8. \A m \in Messages :
        session.text[m] = 0 => app'.shown[m] = 0 /\ NoneOf(events', ShowsMessage(m))
  BY <1>4, <1>6 DEF NoneOf
<1> QED BY <1>1, <1>5, <1>7, <1>8, CliClientMoves

LEMMA CliAttach ==
  ASSUME CliInv, NEW text \in [Messages -> 0 .. MaxText], Attach(text),
         \A m \in Messages : session.text[m] = 0 => text[m] = 0
  PROVE  CliInv'
<1>1. /\ app' = [app EXCEPT !.shown = text]
      /\ chat' = [chat EXCEPT !.phase = IF chat.closed THEN "readOnly" ELSE "running",
                              !.baseline.ids = Present(text)]
      /\ stream' = IF chat.closed THEN stream ELSE "down"
      /\ chat.phase = "history" /\ stream = "off"
      /\ events' = events /\ refresh' = refresh /\ command' = command
      /\ commands' = commands /\ UNCHANGED sessionVars /\ outbox' = outbox
      /\ held' = Nothing /\ queue' = <<>> /\ lagged' = FALSE /\ session' = session
      /\ events = <<>> /\ refresh = Idle /\ command = NoCommand /\ chat.resumed
      /\ app.pending = chat.baseline.permissions
  BY DEF Attach, CliInv, ChatShape, StreamShape, StreamTypes, sessionVars
<1>2. Present(text) \subseteq Messages /\ \A m \in Present(text) : session.text[m] # 0
  BY DEF Present
<1> DEFINE P == Present(text)
<1> HIDE DEF P
<1>3. /\ chat' \in Chats /\ chat'.phase \in {"readOnly", "running"}
      /\ chat'.phase = "readOnly" => stream' = stream
      /\ chat'.resumed = chat.resumed /\ chat'.baseline.ids = P
      /\ chat'.baseline.permissions = chat.baseline.permissions
  <2>1. P \subseteq Messages
    BY <1>2 DEF P
  <2> DEFINE B == [chat.baseline EXCEPT !.ids = P]
             next == IF chat.closed THEN "readOnly" ELSE "running"
  <2>2. chat.baseline \in Baselines /\ chat \in Chats
    BY DEF CliInv, ChatTypes, Chats
  <2>3. B \in Baselines /\ B.ids = P /\ B.permissions = chat.baseline.permissions
    BY <2>1, <2>2 DEF Baselines
  <2>4. chat' = [chat EXCEPT !.phase = next, !.baseline = B]
    BY <1>1, <2>2 DEF P, Chats
  <2>5. next \in {"readOnly", "running"} /\ (next = "readOnly" => stream' = stream)
    BY <1>1
  <2> HIDE DEF B, next
  <2> QED BY <2>2, <2>3, <2>4, <2>5 DEF Chats
<1>4. app' \in Apps /\ app'.shown = text /\ app'.pending = app.pending
  BY <1>1 DEF CliInv, ChatTypes, Apps
<1>5. ChatTypes'
  BY <1>1, <1>3, <1>4 DEF CliInv, ChatTypes
<1>6. Len(events') = 0 /\ command.name = "none" /\ ~command.done
  BY <1>1 DEF NoCommand
<1>7. ChatShape'
  BY <1>1, <1>3, <1>6 DEF ChatShape
<1>8. BaselineShape'
  BY <1>1, <1>2, <1>3, <1>4, <1>6 DEF BaselineShape, P
<1>9. \A m \in Messages :
        session.text[m] = 0 => app'.shown[m] = 0 /\ NoneOf(events', ShowsMessage(m))
  BY <1>4, <1>6 DEF NoneOf
<1>10. stream' \in {"off", "down", "ended"}
  BY <1>1
<1> QED BY <1>1, <1>5, <1>7, <1>8, <1>9, <1>10, CliNowhere

LEMMA CliAttaches ==
  ASSUME CliInv, GetSessionHistory \/ HistoryNotFound
  PROVE  CliInv'
<1>1. /\ session.text \in [Messages -> 0 .. MaxText]
      /\ app.shown \in [Messages -> 0 .. MaxText]
  BY DEF CliInv, StreamTypes, Sessions, ChatTypes, Apps
<1>2. \A m \in Messages : session.text[m] = 0 => app.shown[m] = 0
  BY DEF CliInv, Unsaid
<1> QED BY <1>1, <1>2, CliAttach DEF GetSessionHistory, HistoryNotFound

-----------------------------------------------------------------------------
(* The terminal: drawing.                                                  *)

LEMMA UpdateShape ==
  ASSUME NEW u \in Updates
  PROVE  /\ u.kind \in {"message", "permission", "resumed", "refreshed", "closed",
                        "status", "ended", "failed"}
         /\ u.kind = "message" => u.message \in Messages /\ u.length \in 0 .. MaxText
         /\ u.kind = "permission" => u.request \in Permissions
         /\ u.kind = "resumed" => /\ u.text \in [Messages -> 0 .. MaxText]
                                  /\ u.ids \subseteq Messages
                                  /\ u.pending \subseteq Permissions
         /\ u.kind = "refreshed" => u.pending \subseteq Permissions
BY DEF Updates

LEMMA AppliedFacts ==
  ASSUME app \in Apps, NEW u \in Updates
  PROVE  /\ Applied(u) \in Apps
         /\ \A m \in Messages :
              Applied(u).shown[m] =
                IF u.kind = "message" /\ u.message = m THEN u.length
                ELSE IF u.kind = "resumed" /\ m \in u.ids THEN u.text[m]
                ELSE app.shown[m]
         /\ u.kind = "permission" => Applied(u).pending = app.pending \cup {u.request}
         /\ u.kind = "resumed" => Applied(u).pending = app.pending \cup u.pending
         /\ u.kind = "refreshed" => /\ Applied(u).pending = u.pending
                                    /\ \/ u.pending \subseteq app.pending \cup session.pending
                                       \/ Applied(u).outdated
         /\ u.kind \notin {"permission", "resumed", "refreshed"}
              => Applied(u).pending = app.pending
         /\ u.kind = "failed" => Applied(u).stale
         /\ u.kind \notin {"refreshed", "failed"}
              => /\ (Applied(u).stale <=> app.stale)
                 /\ (Applied(u).outdated <=> app.outdated)
<1>0. /\ app.shown \in [Messages -> 0 .. MaxText] /\ app.pending \subseteq Permissions
      /\ app.stale \in BOOLEAN /\ app.outdated \in BOOLEAN
  BY DEF Apps
<1>1. CASE u.kind = "message"
  <2> DEFINE s == [app.shown EXCEPT ![u.message] = u.length]
  <2>1. /\ s \in [Messages -> 0 .. MaxText]
        /\ \A m \in Messages : s[m] = IF u.message = m THEN u.length ELSE app.shown[m]
    BY <1>0, <1>1, UpdateShape
  <2>2. Applied(u) = [app EXCEPT !.shown = s]
    BY <1>1 DEF Applied, Apps
  <2> HIDE DEF s
  <2>3. /\ Applied(u) \in Apps /\ Applied(u).shown = s /\ Applied(u).pending = app.pending
        /\ Applied(u).stale = app.stale /\ Applied(u).outdated = app.outdated
    BY <2>1, <2>2 DEF Apps
  <2> QED BY <1>1, <2>1, <2>3
<1>2. CASE u.kind = "permission"
  <2>1. Applied(u) = [app EXCEPT !.pending = @ \cup {u.request}]
    BY <1>2 DEF Applied
  <2>2. /\ Applied(u) \in Apps /\ Applied(u).shown = app.shown
        /\ Applied(u).pending = app.pending \cup {u.request}
        /\ Applied(u).stale = app.stale /\ Applied(u).outdated = app.outdated
    BY <1>2, <2>1, UpdateShape DEF Apps
  <2> QED BY <1>2, <2>2
<1>3. CASE u.kind = "resumed"
  <2> DEFINE s == [m \in Messages |-> IF m \in u.ids THEN u.text[m] ELSE app.shown[m]]
  <2>1. /\ s \in [Messages -> 0 .. MaxText]
        /\ \A m \in Messages : s[m] = IF m \in u.ids THEN u.text[m] ELSE app.shown[m]
    BY <1>0, <1>3, UpdateShape
  <2> DEFINE p == app.pending \cup u.pending
  <2>2. Applied(u) = [app EXCEPT !.shown = s, !.pending = p]
    BY <1>3 DEF Applied, Apps
  <2>3. p \in SUBSET Permissions
    BY <1>0, <1>3, UpdateShape
  <2> HIDE DEF s, p
  <2>4. /\ Applied(u) \in Apps /\ Applied(u).shown = s /\ Applied(u).pending = p
        /\ Applied(u).stale = app.stale /\ Applied(u).outdated = app.outdated
    BY <2>1, <2>2, <2>3 DEF Apps
  <2> QED BY <1>3, <2>1, <2>4 DEF p
<1>4. CASE u.kind = "refreshed"
  <2> DEFINE o == ~(u.pending \subseteq app.pending \cup session.pending)
  <2>1. Applied(u) = [app EXCEPT !.pending = u.pending, !.stale = FALSE, !.outdated = o]
    BY <1>4 DEF Applied
  <2>2. o \in BOOLEAN
    OBVIOUS
  <2> HIDE DEF o
  <2>3. /\ Applied(u) \in Apps /\ Applied(u).shown = app.shown
        /\ Applied(u).pending = u.pending /\ Applied(u).outdated = o
    BY <1>4, <2>1, <2>2, UpdateShape DEF Apps
  <2> QED BY <1>4, <2>3 DEF o
<1>5. CASE u.kind \in {"closed", "ended"}
  <2>1. \E c \in {"disconnected", "closed"} : Applied(u) = [app EXCEPT !.connection = c]
    BY <1>5 DEF Applied
  <2>2. /\ Applied(u) \in Apps /\ Applied(u).shown = app.shown
        /\ Applied(u).pending = app.pending
        /\ Applied(u).stale = app.stale /\ Applied(u).outdated = app.outdated
    BY <2>1 DEF Apps
  <2> QED BY <1>5, <2>2
<1>6. CASE u.kind = "status"
  <2>1. Applied(u) = app
    BY <1>6 DEF Applied
  <2> QED BY <1>6, <2>1
<1>7. CASE u.kind = "failed"
  <2>1. Applied(u) = [app EXCEPT !.stale = TRUE]
    BY <1>7 DEF Applied
  <2>2. /\ Applied(u) \in Apps /\ Applied(u).shown = app.shown
        /\ Applied(u).pending = app.pending /\ Applied(u).stale = TRUE
    BY <2>1 DEF Apps
  <2> QED BY <1>7, <2>2
<1> QED BY <1>1, <1>2, <1>3, <1>4, <1>5, <1>6, <1>7, UpdateShape

LEMMA CliDrain ==
  ASSUME CliInv, RefreshShape, DrainEvent
  PROVE  CliInv'
<1> DEFINE u == Head(events)
<1>1. /\ chat.phase \in {"running", "drawing"} /\ command = NoCommand /\ events # <<>>
      /\ app' = Applied(u)
      /\ refresh' = [refresh EXCEPT
                       !.state = IF u.kind \in {"refreshed", "failed"} THEN "idle" ELSE @,
                       !.queued = @ \/ ShouldRefresh(u)]
      /\ events' = Tail(events) /\ chat' = [chat EXCEPT !.phase = "drawing"]
      /\ command' = command /\ commands' = commands /\ UNCHANGED serverVars
      /\ session' = session /\ stream' = stream /\ held' = held
  BY DEF DrainEvent, serverVars
<1>2. events \in Seq(Updates) /\ app \in Apps
  BY DEF CliInv, ChatTypes
<1>3. /\ u \in Updates /\ events' \in Seq(Updates) /\ u = events[1] /\ 1 \in 1 .. Len(events)
      /\ \A i \in 1 .. Len(events') : events'[i] = events[i + 1] /\ i + 1 \in 1 .. Len(events)
  BY <1>1, <1>2
<1> HIDE DEF u
<1>4. /\ chat' \in Chats /\ chat'.phase = "drawing" /\ chat'.resumed = chat.resumed
      /\ chat'.baseline = chat.baseline /\ chat'.missed = chat.missed
      /\ chat'.skipped = chat.skipped
  BY <1>1 DEF CliInv, ChatTypes, Chats
<1>5. /\ app' \in Apps
      /\ \A m \in Messages :
           app'.shown[m] = IF u.kind = "message" /\ u.message = m THEN u.length
                           ELSE IF u.kind = "resumed" /\ m \in u.ids THEN u.text[m]
                           ELSE app.shown[m]
      /\ u.kind \notin {"permission", "resumed", "refreshed"} => app'.pending = app.pending
      /\ u.kind = "resumed" => app'.pending = app.pending \cup u.pending
      /\ u.kind = "refreshed" => /\ app'.pending = u.pending
                                 /\ \/ u.pending \subseteq app.pending \cup session.pending
                                    \/ app'.outdated
      /\ u.kind = "failed" => app'.stale
      /\ u.kind \notin {"refreshed", "failed"}
           => (app'.stale <=> app.stale) /\ (app'.outdated <=> app.outdated)
  BY <1>1, <1>2, <1>3, AppliedFacts
<1>6. /\ refresh' \in [state : {"idle", "asked", "read", "sent"},
                       pending : SUBSET Permissions, queued : BOOLEAN]
      /\ refresh'.pending = refresh.pending
      /\ (refresh'.queued <=> refresh.queued \/ ShouldRefresh(u))
      /\ refresh'.state = IF u.kind \in {"refreshed", "failed"} THEN "idle"
                          ELSE refresh.state
  <2>1. PICK b \in BOOLEAN : b <=> ShouldRefresh(u)
    OBVIOUS
  <2>2. refresh \in [state : {"idle", "asked", "read", "sent"},
                     pending : SUBSET Permissions, queued : BOOLEAN]
    BY DEF CliInv, ChatTypes
  <2>3. PICK d \in BOOLEAN : d <=> refresh.queued \/ ShouldRefresh(u)
    OBVIOUS
  <2> DEFINE s == IF u.kind \in {"refreshed", "failed"} THEN "idle" ELSE refresh.state
  <2>4. (refresh.queued \/ ShouldRefresh(u)) = d
    BY <2>3 DEF ShouldRefresh
  <2>5. refresh' = [refresh EXCEPT !.state = s, !.queued = d]
    BY <1>1, <2>2, <2>4
  <2>6. s \in {"idle", "asked", "read", "sent"}
    BY <2>2
  <2> HIDE DEF s
  <2>7. /\ refresh' \in [state : {"idle", "asked", "read", "sent"},
                         pending : SUBSET Permissions, queued : BOOLEAN]
        /\ refresh'.pending = refresh.pending /\ refresh'.queued = d /\ refresh'.state = s
    BY <2>2, <2>5, <2>6
  <2> QED BY <2>3, <2>7 DEF s
<1>7. ChatTypes'
  BY <1>1, <1>3, <1>4, <1>5, <1>6 DEF CliInv, ChatTypes
<1>8. chat.resumed => u.kind = "ended"
  BY <1>3 DEF CliInv, ChatShape
<1>9. chat.resumed => refresh' = Idle
  <2> SUFFICES ASSUME chat.resumed PROVE refresh' = Idle
    OBVIOUS
  <2>1. refresh = Idle /\ ~ShouldRefresh(u)
    BY <1>8 DEF CliInv, ChatShape, ShouldRefresh
  <2>2. refresh'.state = "idle" /\ refresh'.pending = {} /\ refresh'.queued = FALSE
    BY <1>6, <1>8, <2>1 DEF Idle
  <2> QED BY <1>6, <2>2 DEF Idle
<1>10. ChatShape'
  <2>1. command.name = "none" => ~command.done
    BY DEF CliInv, ChatShape
  <2>2. chat.resumed => \A i \in 1 .. Len(events') : events'[i].kind = "ended"
    BY <1>3 DEF CliInv, ChatShape
  <2>3. chat.resumed /\ stream' = "open" => held' # Nothing
    BY <1>1 DEF CliInv, ChatShape
  <2> QED BY <1>1, <1>4, <1>9, <2>1, <2>2, <2>3 DEF ChatShape
<1>11. BaselineShape'
  <2>1. chat.resumed => app'.pending = app.pending
    BY <1>5, <1>8
  <2> QED BY <1>1, <1>4, <2>1 DEF CliInv, BaselineShape
<1>12. ASSUME NEW m \in Messages, session.text[m] = 0
       PROVE  app'.shown[m] = 0 /\ NoneOf(events', ShowsMessage(m))
  <2>1. app.shown[m] = 0 /\ NoneOf(events, ShowsMessage(m))
    BY <1>12 DEF CliInv, Unsaid
  <2>2. u \notin ShowsMessage(m)
    BY <1>3, <2>1 DEF NoneOf
  <2>3. app'.shown[m] = 0
    BY <1>3, <1>5, <2>1, <2>2 DEF ShowsMessage
  <2> QED BY <1>3, <2>1, <2>3 DEF NoneOf
<1>13. ASSUME NEW m \in Messages, ReplyShown(m) PROVE ReplyShown(m)'
  <2> DEFINE S == ShowsMessage(m)
             G == ShowsRightly(m)
             K == {session.text[m]}
  <2>1. S' = S /\ G' = G /\ K' = K
    BY <1>1 DEF ShowsMessage, ShowsRightly
  <2>2. CASE Excused
    BY <1>4, <2>2 DEF ReplyShown, Excused
  <2>3. CASE ~Excused
    <3>1. Leads("open", Nothing, events, FALSE, S, G, app.shown[m], K)
      BY <1>13, <2>3 DEF ReplyShown
    <3>2. u \in S /\ u \in G => app'.shown[m] \in K
      BY <1>5 DEF ShowsMessage, ShowsRightly
    <3>3. u \notin S /\ app.shown[m] \in K => app'.shown[m] \in K
      BY <1>3, <1>5 DEF ShowsMessage
    <3> HIDE DEF S, G, K
    <3>4. Leads("open", Nothing, Tail(events), FALSE, S, G, app'.shown[m], K)
      BY <1>1, <1>2, <3>1, <3>2, <3>3, LeadsAfterHead DEF u
    <3> QED BY <1>1, <2>1, <3>4 DEF ReplyShown, S, G, K
  <2> QED BY <2>2, <2>3
<1>14. ASSUME Finished, RequestsClear PROVE RequestsClear'
  <2> DEFINE S == AskingUpdates
             G == ClearingUpdates
             K == {"right"}
  <2>0. session.pending = {}
    BY <1>14, FinishedPending DEF CliInv, StreamTypes
  <2>1. S' = S /\ G' = G
    BY DEF AskingUpdates, ClearingUpdates
  <2>2. CASE Excused
    BY <1>4, <2>2 DEF RequestsClear, Excused
  <2>3. CASE ~Excused
    <3>1. Leads("open", Nothing, events, FALSE, S, G, ClearView, K)
      BY <1>14, <2>3 DEF RequestsClear
    <3>2. ASSUME u \in S, u \in G PROVE Clear'
      <4>1. u.kind = "message" \/ (u.kind = "resumed" /\ u.ids # {} /\ u.pending = {})
        BY <3>2 DEF ClearingUpdates
      <4>2. app'.pending = app.pending
        BY <1>5, <4>1
      <4>3. app.pending # {} => ShouldRefresh(u)
        BY <4>1 DEF ShouldRefresh
      <4> QED BY <1>6, <4>2, <4>3 DEF Clear
    <3>3. ASSUME u \notin S, Clear PROVE Clear'
      <4>1. /\ u.kind \notin {"message", "permission"}
            /\ u.kind = "resumed" => u.pending = {}
        BY <1>3, <3>3 DEF AskingUpdates
      <4>2. CASE u.kind = "refreshed"
        <5>1. refresh.state = "sent"
          BY <1>3, <4>2 DEF RefreshShape, Answers
        <5>2. app.pending = {} \/ refresh.queued \/ NothingRead
          BY <3>3, <5>1 DEF Clear
        <5>3. NothingRead => u.pending = {}
          BY <1>3, <4>2 DEF NothingRead
        <5> QED BY <1>5, <1>6, <2>0, <4>2, <5>2, <5>3 DEF Clear
      <4>3. CASE u.kind = "failed"
        BY <1>5, <1>6, <4>3 DEF Clear
      <4>4. CASE u.kind \notin {"refreshed", "failed"}
        <5>1. app'.pending = app.pending
          BY <1>5, <4>1, <4>4
        <5>2. NothingRead => NothingRead'
          BY <1>3 DEF NothingRead
        <5> QED BY <1>5, <1>6, <3>3, <4>4, <5>1, <5>2 DEF Clear
      <4> QED BY <4>2, <4>3, <4>4
    <3>4. /\ u \in S /\ u \in G => ClearView' \in K
          /\ u \notin S /\ ClearView \in K => ClearView' \in K
      BY <3>2, <3>3 DEF ClearView
    <3> HIDE DEF S, G, K
    <3>5. Leads("open", Nothing, Tail(events), FALSE, S, G, ClearView', K)
      BY <1>1, <1>2, <3>1, <3>4, LeadsAfterHead DEF u
    <3> QED BY <1>1, <2>1, <3>5 DEF RequestsClear, S, G, K
  <2> QED BY <2>2, <2>3
<1> QED BY <1>1, <1>7, <1>10, <1>11, <1>12, <1>13, <1>14, CliClientMoves

(* Steps that change neither the channel nor what is shown of the          *)
(* messages.                                                               *)
LEMMA CliQuiet ==
  ASSUME CliInv, UNCHANGED serverVars, events' = events,
         ChatTypes', ChatShape', BaselineShape', app'.shown = app.shown,
         chat'.missed = chat.missed, chat'.skipped = chat.skipped,
         Finished /\ Clear => Clear'
  PROVE  CliInv'
<1>1. session' = session
  BY DEF serverVars
<1>2. \A m \in Messages :
        session.text[m] = 0 => app'.shown[m] = 0 /\ NoneOf(events', ShowsMessage(m))
  BY DEF CliInv, Unsaid
<1>3. \A m \in Messages : ReplyShown(m) => ReplyShown(m)'
  BY <1>1 DEF ReplyShown, Excused, ShowsMessage, ShowsRightly
<1>4. ASSUME Finished, RequestsClear PROVE RequestsClear'
  <2>1. AskingUpdates' = AskingUpdates /\ ClearingUpdates' = ClearingUpdates
    BY DEF AskingUpdates, ClearingUpdates
  <2>2. ClearView \in {"right"} => ClearView' \in {"right"}
    BY <1>4 DEF ClearView
  <2> QED BY <1>4, <2>1, <2>2 DEF RequestsClear, Excused, Leads
<1> QED BY <1>2, <1>3, <1>4, CliClientMoves

LEMMA CliLaunch ==
  ASSUME CliInv, LaunchRefresh
  PROVE  CliInv'
<1>1. /\ chat' = [chat EXCEPT !.phase = "running"] /\ chat.phase = "drawing"
      /\ refresh' = IF refresh.state = "idle" /\ refresh.queued
                      THEN [refresh EXCEPT !.state = "asked", !.queued = FALSE]
                      ELSE refresh
      /\ app' = app /\ events' = events /\ command' = command /\ commands' = commands
      /\ UNCHANGED serverVars /\ session' = session /\ stream' = stream /\ held' = held
  BY DEF LaunchRefresh, serverVars
<1>2. /\ chat' \in Chats /\ chat'.phase = "running" /\ chat'.resumed = chat.resumed
      /\ chat'.baseline = chat.baseline /\ chat'.missed = chat.missed
      /\ chat'.skipped = chat.skipped
  BY <1>1 DEF CliInv, ChatTypes, Chats
<1>3. /\ refresh' \in [state : {"idle", "asked", "read", "sent"},
                       pending : SUBSET Permissions, queued : BOOLEAN]
      /\ refresh' = refresh \/ (refresh'.state # "idle" /\ refresh.queued)
  BY <1>1 DEF CliInv, ChatTypes
<1>4. chat.resumed => refresh' = Idle
  BY <1>3 DEF CliInv, ChatShape, Idle
<1>5. ChatTypes' /\ BaselineShape'
  BY <1>1, <1>2, <1>3 DEF CliInv, ChatTypes, BaselineShape
<1>6. ChatShape'
  BY <1>1, <1>2, <1>4 DEF CliInv, ChatShape
<1>7. Clear => Clear'
  <2>1. CASE refresh.state = "idle" /\ refresh.queued
    <3>1. refresh'.state = "asked"
      BY <1>1, <2>1 DEF CliInv, ChatTypes
    <3> QED BY <3>1 DEF Clear
  <2>2. CASE ~(refresh.state = "idle" /\ refresh.queued)
    BY <1>1, <2>2 DEF Clear, NothingRead
  <2> QED BY <2>1, <2>2
<1> QED BY <1>1, <1>2, <1>5, <1>6, <1>7, CliQuiet

-----------------------------------------------------------------------------
(* The terminal: the refresh on its way.                                   *)

LEMMA CliRefreshReads ==
  ASSUME CliInv, RefreshReads
  PROVE  CliInv'
<1>1. /\ refresh.state = "asked" /\ chat' = chat
      /\ refresh' = [refresh EXCEPT !.state = "read", !.pending = session.pending]
      /\ app' = app /\ events' = events /\ command' = command /\ commands' = commands
      /\ UNCHANGED serverVars /\ session' = session /\ stream' = stream /\ held' = held
  BY DEF RefreshReads, serverVars
<1>2. /\ refresh' \in [state : {"idle", "asked", "read", "sent"},
                       pending : SUBSET Permissions, queued : BOOLEAN]
      /\ refresh'.state = "read" /\ refresh'.pending = session.pending
  BY <1>1 DEF CliInv, ChatTypes, StreamTypes, Sessions
<1>3. refresh # Idle
  BY <1>1 DEF Idle
<1>4. ChatTypes' /\ BaselineShape'
  BY <1>1, <1>2 DEF CliInv, ChatTypes, BaselineShape
<1>5. ChatShape'
  BY <1>1, <1>3 DEF CliInv, ChatShape
<1>6. Finished /\ Clear => Clear'
  BY <1>2, FinishedPending DEF Clear, CliInv, StreamTypes
<1> QED BY <1>1, <1>4, <1>5, <1>6, CliQuiet

LEMMA CliRefreshSends ==
  ASSUME CliInv, RefreshShape, UNCHANGED serverVars, NEW u \in Updates,
         u.kind \in {"refreshed", "failed"},
         u.kind = "refreshed" => refresh.state = "read" /\ u.pending = refresh.pending,
         refresh.state \in {"asked", "read"}, events' = Append(events, u),
         refresh' = [refresh EXCEPT !.state = "sent", !.pending = {}],
         chat' = chat, app' = app, command' = command, commands' \in 0 .. MaxCommands
  PROVE  CliInv'
<1>1. session' = session /\ stream' = stream /\ held' = held /\ events \in Seq(Updates)
  BY DEF serverVars, CliInv, ChatTypes
<1>2. /\ refresh' \in [state : {"idle", "asked", "read", "sent"},
                       pending : SUBSET Permissions, queued : BOOLEAN]
  BY DEF CliInv, ChatTypes
<1>3. refresh # Idle
  BY DEF Idle
<1>4. events' \in Seq(Updates)
  BY <1>1
<1>5. ChatTypes' /\ BaselineShape'
  BY <1>1, <1>2, <1>4 DEF CliInv, ChatTypes, BaselineShape
<1>6. ChatShape'
  BY <1>1, <1>3 DEF CliInv, ChatShape
<1>7. \A m \in Messages : u \notin ShowsMessage(m)
  BY DEF ShowsMessage
<1>8. ASSUME NEW m \in Messages, session.text[m] = 0
      PROVE  app'.shown[m] = 0 /\ NoneOf(events', ShowsMessage(m))
  <2>1. app.shown[m] = 0 /\ NoneOf(events, ShowsMessage(m))
    BY <1>8 DEF CliInv, Unsaid
  <2> QED BY <1>1, <1>7, <2>1, NoneAppended
<1>9. ASSUME NEW m \in Messages, ReplyShown(m) PROVE ReplyShown(m)'
  <2> DEFINE S == ShowsMessage(m)
             G == ShowsRightly(m)
             K == {session.text[m]}
  <2>1. S' = S /\ G' = G /\ K' = K /\ u \notin S
    BY <1>1, <1>7 DEF ShowsMessage, ShowsRightly
  <2>2. CASE Excused
    BY <2>2 DEF ReplyShown, Excused
  <2>3. CASE ~Excused
    <3>1. Leads("open", Nothing, events, FALSE, S, G, app.shown[m], K)
      BY <1>9, <2>3 DEF ReplyShown
    <3> HIDE DEF S, G, K
    <3>2. Leads("open", Nothing, events', FALSE, S, G, app.shown[m], K)
      BY <1>1, <2>1, <3>1, LeadsUntold
    <3> QED BY <2>1, <3>2 DEF ReplyShown, S, G, K
  <2> QED BY <2>2, <2>3
<1>10. ASSUME RequestsClear PROVE RequestsClear'
  <2> DEFINE S == AskingUpdates
             G == ClearingUpdates
             K == {"right"}
             v == ClearView'
  <2>1. S' = S /\ G' = G /\ u \notin S
    BY DEF AskingUpdates, ClearingUpdates
  <2>2. CASE Excused
    BY <2>2 DEF RequestsClear, Excused
  <2>3. CASE ~Excused
    <3>1. Leads("open", Nothing, events, FALSE, S, G, ClearView, K)
      BY <1>10, <2>3 DEF RequestsClear
    <3>2. NothingRead
      BY DEF RefreshShape, NothingRead, Answers
    <3>3. NothingRead' <=> (u.kind = "refreshed" => u.pending = {})
      BY <1>1, <3>2, NothingReadAppended
    <3>4. /\ refresh'.state = "sent" /\ refresh'.queued = refresh.queued
      BY DEF CliInv, ChatTypes
    <3>5. Clear => Clear'
      BY <3>3, <3>4 DEF Clear
    <3>6. ClearView \in K => v \in K
      BY <3>5 DEF ClearView
    <3> HIDE DEF S, G, K, v
    <3>7. Leads("open", Nothing, events', FALSE, S, G, ClearView, K)
      BY <1>1, <2>1, <3>1, LeadsUntold
    <3>8. Leads("open", Nothing, events', FALSE, S, G, v, K)
      BY <3>6, <3>7, LeadsGrows
    <3> QED BY <2>1, <3>8 DEF RequestsClear, S, G, K, v
  <2> QED BY <2>2, <2>3
<1> QED BY <1>5, <1>6, <1>8, <1>9, <1>10, CliClientMoves

LEMMA CliRefreshed ==
  ASSUME CliInv, RefreshShape, RefreshReturns \/ RefreshFails
  PROVE  CliInv'
<1>1. commands \in 0 .. MaxCommands /\ refresh.pending \subseteq Permissions
  BY DEF CliInv, ChatTypes
<1>2. CASE RefreshReturns
  <2> DEFINE u == [kind |-> "refreshed", pending |-> refresh.pending]
  <2>1. u \in Updates /\ u.kind = "refreshed" /\ u.pending = refresh.pending
    BY <1>1, UpdateFacts
  <2>2. /\ events' = Append(events, u) /\ UNCHANGED serverVars
        /\ refresh.state = "read"
        /\ refresh' = [refresh EXCEPT !.state = "sent", !.pending = {}]
        /\ chat' = chat /\ app' = app /\ command' = command
        /\ commands' \in 0 .. MaxCommands
    BY <1>1, <1>2 DEF RefreshReturns
  <2> HIDE DEF u
  <2> QED BY <2>1, <2>2, CliRefreshSends
<1>3. CASE RefreshFails
  <2> DEFINE u == [kind |-> "failed"]
  <2>1. u \in Updates /\ u.kind = "failed"
    BY UpdateFacts
  <2>2. commands' \in 0 .. MaxCommands
    BY <1>1, <1>3, ChatAssumption DEF RefreshFails
  <2>3. /\ events' = Append(events, u) /\ UNCHANGED serverVars
        /\ refresh.state \in {"asked", "read"}
        /\ refresh' = [refresh EXCEPT !.state = "sent", !.pending = {}]
        /\ chat' = chat /\ app' = app /\ command' = command
    BY <1>3 DEF RefreshFails
  <2> HIDE DEF u
  <2> QED BY <2>1, <2>2, <2>3, CliRefreshSends
<1> QED BY <1>2, <1>3

-----------------------------------------------------------------------------
(* The terminal: commands.                                                 *)

LEMMA CliGive ==
  ASSUME CliInv, NEW name \in {"prompt", "decide", "cancel"},
         NEW r \in Permissions \cup {0}, Give(name, r)
  PROVE  CliInv'
<1> DEFINE c == [name |-> name, request |-> r, done |-> FALSE]
<1>1. /\ chat' = chat /\ app' = app /\ events' = events /\ refresh' = refresh
      /\ command' = c /\ UNCHANGED serverVars /\ chat.phase = "running"
      /\ session' = session /\ stream' = stream /\ held' = held
  BY DEF Give, UiIsFree, serverVars
<1>2. commands' \in 0 .. MaxCommands
  BY ChatAssumption DEF Give, CliInv, ChatTypes
<1>3. /\ c \in [name : {"none", "prompt", "decide", "cancel"},
                request : Permissions \cup {0}, done : BOOLEAN]
      /\ c.name # "none" /\ ~c.done
  OBVIOUS
<1> HIDE DEF c
<1>4. ChatTypes' /\ BaselineShape' /\ ChatShape'
  BY <1>1, <1>2, <1>3 DEF CliInv, ChatTypes, BaselineShape, ChatShape
<1>5. Clear => Clear'
  BY <1>1 DEF Clear, NothingRead
<1> QED BY <1>1, <1>4, <1>5, CliQuiet

LEMMA CliGives ==
  ASSUME CliInv, GivePrompt \/ GiveCancel \/ \E r \in Permissions : GiveDecision(r)
  PROVE  CliInv'
BY CliGive DEF GivePrompt, GiveCancel, GiveDecision

LEMMA CommandShape ==
  ASSUME CliInv, command # NoCommand
  PROVE  chat.phase \notin {"start", "history", "readOnly"}
BY DEF CliInv, ChatShape

LEMMA CliAnswered ==
  ASSUME CliInv, CommandAnswered
  PROVE  CliInv'
<1>1. /\ command.done /\ command' = NoCommand
      /\ chat' = chat /\ events' = events /\ refresh' = refresh
      /\ commands' = commands /\ UNCHANGED serverVars
      /\ session' = session /\ stream' = stream /\ held' = held
  BY DEF CommandAnswered, serverVars
<1>2. /\ command.name \in {"prompt", "decide", "cancel"}
      /\ chat.phase \notin {"start", "history", "readOnly"}
  <2>1. command # NoCommand
    BY <1>1 DEF NoCommand
  <2> QED BY <1>1, <2>1, CommandShape DEF CliInv, ChatTypes, ChatShape
<1>3. \/ command.name = "prompt" /\ app' = app
      \/ command.name = "decide" /\ app' = [app EXCEPT !.pending = @ \ {command.request}]
      \/ /\ command.name = "cancel"
         /\ app' = [app EXCEPT !.pending = session.pending, !.stale = FALSE,
                               !.outdated = FALSE]
      \/ command.name = "cancel" /\ app' = [app EXCEPT !.stale = TRUE]
  BY <1>2 DEF CommandAnswered
<1>4. session.pending \subseteq Permissions /\ app \in Apps
  BY DEF CliInv, StreamTypes, Sessions, ChatTypes
<1>5. /\ app' \in Apps /\ app'.shown = app.shown
      /\ \/ app' = app
         \/ /\ app'.pending \subseteq app.pending
            /\ app'.stale = app.stale /\ app'.outdated = app.outdated
         \/ command.name = "cancel" /\ app'.pending = session.pending
         \/ app'.pending = app.pending /\ app'.stale = TRUE
  BY <1>3, <1>4 DEF Apps
<1>6. /\ NoCommand \in [name : {"none", "prompt", "decide", "cancel"},
                        request : Permissions \cup {0}, done : BOOLEAN]
      /\ NoCommand.name = "none" /\ ~NoCommand.done
  BY DEF NoCommand
<1>7. ChatTypes'
  BY <1>1, <1>5, <1>6 DEF CliInv, ChatTypes
<1>8. ChatShape'
  BY <1>1, <1>2, <1>6 DEF CliInv, ChatShape
<1>9. BaselineShape'
  <2> SUFFICES ASSUME chat.resumed, chat.baseline.ids = Messages,
                      chat.baseline.permissions = {}
               PROVE  app'.pending = {}
    BY <1>1, <1>6 DEF CliInv, BaselineShape
  <2>1. /\ app.pending = {}
        /\ command.name = "cancel" => session.turn = NoPrompt \/ session.cancelled
    BY <1>1 DEF CliInv, BaselineShape
  <2>2. command.name = "cancel" => session.pending = {}
    BY <2>1 DEF CliInv, TurnShape
  <2> QED BY <1>5, <2>1, <2>2
<1>10. Finished /\ Clear => Clear'
  <2>1. Finished => session.pending = {}
    BY FinishedPending DEF CliInv, StreamTypes
  <2>2. app'.pending \subseteq app.pending \/ app'.pending = session.pending
    BY <1>5
  <2>3. \/ app'.pending = session.pending
        \/ (app.stale \/ app.outdated) => (app'.stale \/ app'.outdated)
    BY <1>5
  <2> QED BY <1>1, <2>1, <2>2, <2>3 DEF Clear, NothingRead
<1> QED BY <1>1, <1>5, <1>7, <1>8, <1>9, <1>10, CliQuiet

LEMMA CliCommandFails ==
  ASSUME CliInv, CommandFails
  PROVE  CliInv'
<1>1. /\ command' = NoCommand /\ command # NoCommand
      /\ chat' = chat /\ app' = app /\ events' = events /\ refresh' = refresh
      /\ commands' = commands /\ UNCHANGED serverVars
      /\ session' = session /\ stream' = stream /\ held' = held
  BY DEF CommandFails, serverVars
<1>2. chat.phase \notin {"start", "history", "readOnly"}
  BY <1>1, CommandShape
<1>3. /\ NoCommand \in [name : {"none", "prompt", "decide", "cancel"},
                        request : Permissions \cup {0}, done : BOOLEAN]
      /\ NoCommand.name = "none" /\ ~NoCommand.done
  BY DEF NoCommand
<1>4. ChatTypes' /\ ChatShape' /\ BaselineShape'
  BY <1>1, <1>2, <1>3 DEF CliInv, ChatTypes, ChatShape, BaselineShape
<1>5. Clear => Clear'
  BY <1>1 DEF Clear, NothingRead
<1> QED BY <1>1, <1>4, <1>5, CliQuiet

(* The command is taken by the session.                                    *)
LEMMA CliTaken ==
  ASSUME CliInv, PromptTaken \/ DecisionSent \/ CancelSent
  PROVE  CliInv'
<1>1. /\ StreamTypes /\ OutboxShape /\ PendingShape /\ TurnShape
      /\ others \in 0 .. MaxOthers
  BY DEF CliInv, StreamTypes
<1>2. /\ chat' = chat /\ app' = app /\ events' = events /\ refresh' = refresh
      /\ commands' = commands /\ others' = others
      /\ command' = [command EXCEPT !.done = TRUE]
  BY DEF PromptTaken, DecisionSent, CancelSent, Done
<1>3. CASE PromptTaken
  <2>1. PICK p \in Prompts : SubmitPrompt(p)
    BY <1>3 DEF PromptTaken
  <2>2. Operated /\ Spoken
    BY <1>1, <1>2, <2>1, SubmitStep, SubmitSpoken
  <2>3. command.name = "prompt" /\ command # NoCommand
    BY <1>3 DEF PromptTaken, Waits, NoCommand
  <2> QED BY <1>2, <2>2, <2>3, CliOperated
<1>4. CASE DecisionSent
  <2>1. ResolvePermission("action", command.request)
    BY <1>4 DEF DecisionSent
  <2>2. Operated /\ Spoken
    BY <1>1, <1>2, <2>1, ResolveStep, ClientSpoken
  <2>3. command.name = "decide" /\ command # NoCommand
    BY <1>4 DEF DecisionSent, Waits, NoCommand
  <2> QED BY <1>2, <2>2, <2>3, CliOperated
<1>5. CASE CancelSent
  <2>1. CancelActiveTurn("action")
    BY <1>5 DEF CancelSent
  <2>2. Operated /\ Spoken
    BY <1>1, <1>2, <2>1, CancelStep, ClientSpoken
  <2>3. command.name = "cancel" /\ command # NoCommand
    BY <1>5 DEF CancelSent, Waits, NoCommand
  <2>4. session'.cancelled
    <3>1. /\ session' = [session EXCEPT !.pending = {}, !.cancelled = TRUE]
          /\ session \in Sessions
      BY <1>1, <2>1 DEF CancelActiveTurn, Write, StreamTypes
    <3> QED BY <3>1 DEF Sessions
  <2> QED BY <1>2, <2>2, <2>3, <2>4, CliOperated
<1> QED BY <1>3, <1>4, <1>5

-----------------------------------------------------------------------------
(* The terminal: its invariant and its properties.                         *)

LEMMA CliStarts ==
  ASSUME CliInit
  PROVE  CliInv
<1> DEFINE q == <<>>
           c == [phase |-> "start", baseline |-> NoBaseline, resumed |-> FALSE,
                 closed |-> FALSE, missed |-> FALSE, skipped |-> FALSE]
           a == [shown |-> [m \in Messages |-> 0], pending |-> {},
                 connection |-> "connected", outdated |-> FALSE, stale |-> FALSE]
<1>1. /\ session = NewSession /\ stage = [p \in Prompts |-> "new"] /\ asked = 0
      /\ outbox = [w \in Writers |-> q] /\ stream = "off" /\ held = Nothing
      /\ queue = q /\ lagged = FALSE /\ others = 0 /\ chat = c /\ app = a
      /\ events = q /\ refresh = Idle /\ command = NoCommand /\ commands = 0
  BY DEF CliInit, StreamInit
<1>2. q \in Seq(Events) /\ q \in Seq(Updates) /\ Len(q) = 0 /\ q = <<>>
  OBVIOUS
<1>3. 0 \in 0 .. MaxText /\ 0 \in 0 .. MaxOthers /\ 0 \in 0 .. MaxCommands /\ 0 <= Capacity
  BY StreamAssumption, ChatAssumption
<1>4. /\ NewSession \in Sessions /\ NewSession.pending = {} /\ NewSession.turn = NoPrompt
      /\ ~NewSession.closed /\ \A m \in Messages : NewSession.text[m] = 0
  BY <1>3 DEF NewSession, Sessions, NoPrompt
<1>5. c \in Chats /\ c.phase = "start" /\ ~c.resumed
  <2>1. NoBaseline \in Baselines
    BY DEF NoBaseline, Baselines
  <2> QED BY <2>1 DEF Chats
<1>6. a \in Apps /\ \A m \in Messages : a.shown[m] = 0
  <2> DEFINE s == [m \in Messages |-> 0]
  <2>1. s \in [Messages -> 0 .. MaxText] /\ \A m \in Messages : s[m] = 0
    BY <1>3
  <2> HIDE DEF s
  <2> QED BY <2>1 DEF Apps, s
<1>7. /\ Idle \in [state : {"idle", "asked", "read", "sent"},
                   pending : SUBSET Permissions, queued : BOOLEAN]
      /\ NoCommand \in [name : {"none", "prompt", "decide", "cancel"},
                        request : Permissions \cup {0}, done : BOOLEAN]
      /\ NoCommand.name = "none" /\ ~NoCommand.done
  BY DEF Idle, NoCommand
<1> HIDE DEF q, c, a
<1>8. StreamTypes
  <2>1. /\ queue \in Seq(Events) /\ Len(queue) <= Capacity
        /\ \A i \in 1 .. Len(queue) : queue[i].kind # "take"
    BY <1>1, <1>2, <1>3
  <2>2. outbox \in [Writers -> Seq(Events)]
    BY <1>1, <1>2
  <2> QED BY <1>1, <1>3, <1>4, <2>1, <2>2 DEF StreamTypes
<1>9. ChatTypes
  BY <1>1, <1>2, <1>3, <1>5, <1>6, <1>7 DEF ChatTypes
<1>10. \A w \in Writers : \A i \in 1 .. Len(outbox[w]) : FALSE
  <2>1. \A w \in Writers : Len(outbox[w]) = 0
    BY <1>1, <1>2
  <2> QED BY <2>1
<1>11. OutboxShape /\ \A G : SnapshotsIn(G)
  BY <1>10 DEF OutboxShape, SnapshotsIn, Writers
<1>12. StreamShape /\ PendingShape
  BY <1>1, <1>2, <1>4 DEF StreamShape, PendingShape
<1>13. TurnShape
  <2>1. \A p \in Prompts : stage[p] = "new"
    BY <1>1
  <2>2. \A i \in 1 .. Len(outbox["agent"]) : FALSE
    BY <1>10 DEF Writers
  <2> QED BY <1>1, <1>4, <2>1, <2>2 DEF TurnShape
<1>14. ChatShape /\ BaselineShape
  BY <1>1, <1>2, <1>5, <1>7 DEF ChatShape, BaselineShape
<1>15. ASSUME NEW m \in Messages PROVE Unsaid(m)
  <2>1. /\ \A S : NoneOf(events, S) /\ NoneOf(queue, S)
        /\ \A w \in Writers : \A S : NoneOf(outbox[w], S)
    BY <1>1, <1>2, <1>10 DEF NoneOf
  <2>2. held \notin Says(m)
    BY <1>1 DEF Says, Nothing
  <2> QED BY <1>1, <1>6, <2>1, <2>2 DEF Unsaid
<1>16. \A S, G, v, K : Leads(stream, held, queue, lagged, S, G, v, K)
  BY <1>1, <1>2, LeadsNowhere
<1> QED BY <1>8, <1>9, <1>11, <1>12, <1>13, <1>14, <1>15, <1>16
        DEF CliInv, ReplyReaches, RequestsGo

LEMMA CliOperations ==
  ASSUME CliInv, ChatWaits, SomeOperation
  PROVE  CliInv'
<1>1. /\ chat' = chat /\ app' = app /\ events' = events /\ refresh' = refresh
      /\ command' = command /\ commands' = commands
  BY DEF ChatWaits, chatVars
<1>2. StreamTypes /\ OutboxShape /\ PendingShape /\ TurnShape
  BY DEF CliInv
<1>3. OtherClientActs => others' \in 0 .. MaxOthers
  BY <1>2, StreamAssumption DEF OtherClientActs, StreamTypes
<1>4. Operated /\ Spoken
  <2>1. ASSUME NEW p \in Prompts, StartTurn(p) PROVE Operated /\ Spoken
    BY <1>2, <2>1, StartTurnStep, StartTurnSpoken
  <2>2. ASSUME NEW p \in Prompts, StreamAssistantChunk(p) PROVE Operated /\ Spoken
    BY <1>2, <2>2, ChunkStep, ChunkSpoken
  <2>3. ASSUME NEW p \in Prompts, RegisterPermissionRequest(p) PROVE Operated /\ Spoken
    BY <1>2, <2>3, RegisterStep, RegisterSpoken
  <2>4. ASSUME NEW p \in Prompts, NEW n \in 1 .. MaxText, CompleteWithReply(p, n)
        PROVE  Operated /\ Spoken
    BY <1>2, <2>4, ReplyStep, ReplySpoken
  <2>5. ASSUME NEW p \in Prompts, CompleteWithStatus(p) PROVE Operated /\ Spoken
    BY <1>2, <2>5, StatusStep, StatusSpoken
  <2>6. ASSUME NEW p \in Prompts, CompleteWithoutOutput(p) PROVE Operated /\ Spoken
    BY <1>2, <2>6, SilentStep, SilentSpoken
  <2>7. ASSUME NEW p \in Prompts, OtherSubmits(p) PROVE Operated /\ Spoken
    BY <1>2, <1>3, <2>7, SubmitStep, SubmitSpoken DEF OtherSubmits
  <2>8. ASSUME NEW r \in Permissions, OtherResolves(r) PROVE Operated /\ Spoken
    BY <1>2, <1>3, <2>8, ResolveStep, ClientSpoken DEF OtherResolves
  <2>9. CASE OtherCancels
    BY <1>2, <1>3, <2>9, CancelStep, ClientSpoken DEF OtherCancels
  <2>10. CASE CloseSession
    BY <1>2, <2>10, CloseStep, ClientSpoken
  <2>11. ASSUME NEW w \in Writers, TakeSnapshot(w) PROVE Operated /\ Spoken
    BY <1>2, <2>11, TakeSnapshotStep, ClientSpoken
  <2> QED BY <2>1, <2>2, <2>3, <2>4, <2>5, <2>6, <2>7, <2>8, <2>9, <2>10, <2>11
          DEF SomeOperation
<1> QED BY <1>1, <1>4, CliOperated

LEMMA CliStutters ==
  ASSUME CliInv, UNCHANGED cliVars
  PROVE  CliInv'
<1>1. /\ UNCHANGED serverVars /\ session' = session /\ stream' = stream /\ held' = held
      /\ chat' = chat /\ app' = app /\ events' = events /\ refresh' = refresh
      /\ command' = command /\ commands' = commands
  BY DEF cliVars, serverVars
<1>2. ChatTypes' /\ ChatShape' /\ BaselineShape'
  BY <1>1 DEF CliInv, ChatTypes, ChatShape, BaselineShape
<1>3. Clear => Clear'
  BY <1>1 DEF Clear, NothingRead
<1> QED BY <1>1, <1>2, <1>3, CliQuiet

(* Only the task of the refresh sends what it read.                        *)
LEMMA AnswerAppended ==
  ASSUME RefreshShape, events \in Seq(Updates), NEW u \in Updates, events' = Append(events, u),
         \/ u.kind \notin Answers /\ refresh'.state = refresh.state
         \/ refresh.state # "sent" /\ refresh'.state = "sent"
  PROVE  RefreshShape'
<1>1. /\ Len(events') = Len(events) + 1 /\ Len(events) \in Nat
      /\ events'[Len(events')] = u /\ \A i \in 1 .. Len(events) : events'[i] = events[i]
  OBVIOUS
<1>2. CASE u.kind \notin Answers /\ refresh'.state = refresh.state
  <2>1. \A i \in 1 .. Len(events') : events'[i].kind \in Answers => i \in 1 .. Len(events)
    BY <1>1, <1>2
  <2> QED BY <1>1, <1>2, <2>1 DEF RefreshShape, Answers
<1>3. CASE refresh.state # "sent" /\ refresh'.state = "sent"
  <2>1. \A i \in 1 .. Len(events) : events[i].kind \notin Answers
    BY <1>3 DEF RefreshShape
  <2>2. \A i \in 1 .. Len(events') : events'[i].kind \in Answers => i = Len(events')
    BY <1>1, <2>1
  <2> QED BY <1>3, <2>2 DEF RefreshShape, Answers
<1> QED BY <1>2, <1>3

LEMMA RefreshStep ==
  ASSUME CliInv, RefreshShape, [CliNext]_cliVars
  PROVE  RefreshShape'
<1>1. /\ events \in Seq(Updates) /\ chat \in Chats
      /\ refresh \in [state : {"idle", "asked", "read", "sent"},
                      pending : SUBSET Permissions, queued : BOOLEAN]
  BY DEF CliInv, ChatTypes
<1>2. ASSUME events' = events,
             \/ refresh' = refresh
             \/ refresh.state # "sent" /\ refresh'.state # "sent"
      PROVE  RefreshShape'
  BY <1>2 DEF RefreshShape
<1>3. CASE UNCHANGED cliVars \/ ChatWaits
  BY <1>2, <1>3 DEF cliVars, ChatWaits, chatVars
<1>4. CASE NewChat \/ GetSession \/ GetSessionHistory \/ HistoryNotFound \/ Quit
  BY <1>2, <1>4 DEF NewChat, GetSession, GetSessionHistory, HistoryNotFound, Attach, Quit
<1>5. CASE ReceiveEvent
  <2>1. Item \in Events /\ Item.kind # "take"
    BY <1>5, ItemFacts DEF ReceiveEvent, CliInv
  <2>2. events' = events \o EventUpdates(Item) /\ refresh' = refresh
    BY <1>5 DEF ReceiveEvent
  <2>3. CASE EventUpdates(Item) = <<>>
    <3>1. events' = events
      BY <1>1, <2>2, <2>3
    <3> QED BY <1>2, <2>2, <3>1
  <2>4. ASSUME NEW u \in Updates, EventUpdates(Item) = <<u>>, u.kind \notin Answers
        PROVE  RefreshShape'
    <3>1. events' = Append(events, u)
      BY <1>1, <2>2, <2>4
    <3> QED BY <1>1, <2>2, <2>4, <3>1, AnswerAppended
  <2> DEFINE e == Item
  <2>5. e.kind \in {"snapshot", "message", "permission", "closed", "status"}
    BY <2>1, EventFacts
  <2>6. \/ EventUpdates(e) = <<>>
        \/ \E u \in Updates : EventUpdates(e) = <<u>> /\ u.kind \notin Answers
    <3> HIDE DEF e
    <3>1. e \in Events /\ e.kind # "take"
      BY <2>1 DEF e
    <3> QED BY <1>1, <2>5, <3>1, ItemUpdates DEF Answers
  <2> QED BY <2>3, <2>4, <2>6
<1>6. CASE StreamBreaks \/ StreamRefused
  <2> DEFINE u == [kind |-> "ended"]
  <2>1. u \in Updates /\ u.kind \notin Answers
    BY UpdateFacts DEF Answers
  <2>2. events' = Append(events, u) /\ refresh' = refresh
    BY <1>6 DEF StreamBreaks, StreamRefused, StreamEnds
  <2> HIDE DEF u
  <2> QED BY <1>1, <2>1, <2>2, AnswerAppended
<1>7. CASE DrainEvent
  <2> DEFINE u == Head(events)
             s == IF u.kind \in Answers THEN "idle" ELSE refresh.state
  <2>1. /\ events # <<>> /\ events' = Tail(events) /\ u = events[1]
        /\ refresh' = [refresh EXCEPT !.state = s, !.queued = @ \/ ShouldRefresh(u)]
    BY <1>1, <1>7 DEF DrainEvent, Answers
  <2>2. /\ 1 \in 1 .. Len(events)
        /\ \A i \in 1 .. Len(events') : /\ events'[i] = events[i + 1]
                                        /\ i \in Int /\ i + 1 \in 1 .. Len(events) /\ i + 1 # 1
    BY <1>1, <2>1
  <2>3. refresh'.state = s
    <3> HIDE DEF s, u
    <3> QED BY <1>1, <2>1
  <2> HIDE DEF u
  <2>4. \A i \in 1 .. Len(events') :
          events'[i].kind \in Answers => refresh'.state = "sent"
    BY <2>1, <2>2, <2>3 DEF RefreshShape
  <2>5. \A i, j \in 1 .. Len(events') :
          events'[i].kind \in Answers /\ events'[j].kind \in Answers => i = j
    <3> SUFFICES ASSUME NEW i \in 1 .. Len(events'), NEW j \in 1 .. Len(events'),
                        events'[i].kind \in Answers, events'[j].kind \in Answers
                 PROVE  i = j
      OBVIOUS
    <3>1. i + 1 = j + 1
      BY <2>2 DEF RefreshShape
    <3> QED BY <3>1, <2>2
  <2> QED BY <2>4, <2>5 DEF RefreshShape, Answers
<1>8. CASE LaunchRefresh \/ RefreshReads
  BY <1>1, <1>2, <1>8 DEF LaunchRefresh, RefreshReads
<1>9. CASE RefreshReturns
  <2> DEFINE u == [kind |-> "refreshed", pending |-> refresh.pending]
  <2>1. u \in Updates
    BY <1>1, UpdateFacts
  <2>2. events' = Append(events, u) /\ refresh.state # "sent" /\ refresh'.state = "sent"
    BY <1>1, <1>9 DEF RefreshReturns
  <2> HIDE DEF u
  <2> QED BY <1>1, <2>1, <2>2, AnswerAppended
<1>10. CASE RefreshFails
  <2> DEFINE u == [kind |-> "failed"]
  <2>1. u \in Updates
    BY UpdateFacts
  <2>2. events' = Append(events, u) /\ refresh.state # "sent" /\ refresh'.state = "sent"
    BY <1>1, <1>10 DEF RefreshFails
  <2> HIDE DEF u
  <2> QED BY <1>1, <2>1, <2>2, AnswerAppended
<1>11. CASE \/ GivePrompt \/ GiveCancel \/ \E r \in Permissions : GiveDecision(r)
            \/ PromptTaken \/ DecisionSent \/ CancelSent
            \/ CommandAnswered \/ CommandFails
  BY <1>2, <1>11 DEF GivePrompt, GiveCancel, GiveDecision, Give, PromptTaken, DecisionSent,
       CancelSent, CommandAnswered, CommandFails
<1> QED BY <1>3, <1>4, <1>5, <1>6, <1>7, <1>8, <1>9, <1>10, <1>11 DEF CliNext

LEMMA CliStep ==
  ASSUME CliInv, RefreshShape, [CliNext]_cliVars
  PROVE  CliInv'
<1>1. CASE UNCHANGED cliVars
  BY <1>1, CliStutters
<1>2. CASE SomeOperation /\ ChatWaits
  BY <1>2, CliOperations
<1>3. ASSUME NEW w \in Writers, Publish(w), ChatWaits PROVE CliInv'
  BY <1>3, CliPublish
<1>4. CASE Connect /\ ChatWaits
  BY <1>4, CliConnect
<1>5. CASE Subscribe /\ ChatWaits
  BY <1>5, CliSubscribe
<1>6. CASE Resync /\ ChatWaits
  BY <1>6, CliResync
<1>7. CASE NewChat
  BY <1>7, CliNewChat
<1>8. CASE GetSession
  BY <1>8, CliGetSession
<1>9. CASE GetSessionHistory \/ HistoryNotFound
  BY <1>9, CliAttaches
<1>10. CASE ReceiveEvent
  BY <1>10, CliReceive
<1>11. CASE StreamBreaks \/ StreamRefused
  BY <1>11, CliStreamEnds
<1>12. CASE DrainEvent
  BY <1>12, CliDrain
<1>13. CASE LaunchRefresh
  BY <1>13, CliLaunch
<1>14. CASE RefreshReads
  BY <1>14, CliRefreshReads
<1>15. CASE RefreshReturns \/ RefreshFails
  BY <1>15, CliRefreshed
<1>16. CASE GivePrompt \/ GiveCancel \/ \E r \in Permissions : GiveDecision(r)
  BY <1>16, CliGives
<1>17. CASE PromptTaken \/ DecisionSent \/ CancelSent
  BY <1>17, CliTaken
<1>18. CASE CommandAnswered
  BY <1>18, CliAnswered
<1>19. CASE CommandFails
  BY <1>19, CliCommandFails
<1>20. CASE Quit
  BY <1>20, CliQuit
<1> QED BY <1>1, <1>2, <1>3, <1>4, <1>5, <1>6, <1>7, <1>8, <1>9, <1>10, <1>11, <1>12,
           <1>13, <1>14, <1>15, <1>16, <1>17, <1>18, <1>19, <1>20
        DEF CliNext, SomeOperation

THEOREM CliInvariant == CliSpec => [](CliInv /\ RefreshShape)
<1>1. CliInit => RefreshShape
  BY DEF CliInit, RefreshShape
<1>2. CliInit => CliInv /\ RefreshShape
  BY <1>1, CliStarts
<1>3. CliInv /\ RefreshShape /\ [CliNext]_cliVars => CliInv' /\ RefreshShape'
  BY CliStep, RefreshStep
<1> QED BY <1>2, <1>3, PTL DEF CliSpec

(* Every event on its way to the command line client, every update on its  *)
(* way to the terminal (TuiEvent, tui/mod.rs), and what the chat and the   *)
(* terminal keep, have their types (CliTypeOK, in the words of the runs).  *)
THEOREM ChatTypesHold == CliSpec => []CliTypeOK
<1>1. ASSUME CliInv PROVE CliTypeOK
  <2>1. StreamTypeOK
    BY <1>1 DEF CliInv, StreamTypes, StreamTypeOK
  <2>2. \A i \in 1 .. Len(events) : events[i] \in Updates
    BY <1>1 DEF CliInv, ChatTypes
  <2> QED BY <1>1, <2>1, <2>2 DEF CliInv, ChatTypes, CliTypeOK
<1> QED BY <1>1, CliInvariant, PTL

(* In a settled chat there is nothing left that could set what is shown.   *)
LEMMA SettledChannels ==
  ASSUME CliInv, Settled
  PROVE  /\ stream = "open" /\ held = Nothing /\ ~lagged
         /\ \A S : NoneOf(queue, S) /\ NoneOf(events, S)
         /\ \A m : ~OwesText(m)
         /\ ~OwesAnswer
<1>1. /\ stream = "open" /\ held = Nothing /\ queue = <<>> /\ ~lagged
      /\ outbox["agent"] = <<>> /\ events = <<>>
  BY DEF Settled, Delivered, Writers
<1>2. Len(queue) = 0 /\ Len(events) = 0 /\ Len(outbox["agent"]) = 0
  BY <1>1
<1> QED BY <1>1, <1>2 DEF NoneOf, OwesText, OwesAnswer

(* Every answer the session has given is in the terminal's transcript as   *)
(* it was given: a message is only shown when it is complete (events.rs),  *)
(* a snapshot shows everything again, and the channel to the terminal      *)
(* keeps the order, also when the session's channel lost events and the    *)
(* stream started anew from a snapshot (server/session_api/stream.rs).     *)
THEOREM RepliesAreShown == CliSpec => []EveryReplyIsShown
<1>1. ASSUME CliInv, Settled, ~chat.skipped, NEW p \in Prompts, stage[p] = "done"
      PROVE  app.shown[p] = session.text[p]
  <2>1. ~chat.missed
    BY <1>1 DEF Settled
  <2>2. ~OwesReply(p)
    BY <1>1, SettledChannels DEF OwesReply
  <2>3. ReplyView(p) \in ReplyViews(p)
    BY <1>1, SettledChannels DEF CliInv, ReplyReaches, Leads, Messages
  <2>4. ReplyShown(p)
    BY <2>2, <2>3 DEF ReplyView, ReplyViews
  <2> QED BY <1>1, <2>1, <2>4, SettledChannels DEF ReplyShown, Excused, Leads
<1>2. CliInv => EveryReplyIsShown
  BY <1>1 DEF EveryReplyIsShown
<1> QED BY <1>2, CliInvariant, PTL

(* Once all prompts are answered no request stays on the screen.  Requests *)
(* are only taken off it by reading the session again: the refresh that a  *)
(* message or a status queues (permissions.rs) is not lost when another    *)
(* refresh is on its way, and what it reads is no older than the answer.   *)
THEOREM RequestsLeaveTheScreen == CliSpec => []AnsweredRequestsGo
<1>1. ASSUME CliInv, Settled, ~chat.skipped, ~app.stale, ~app.outdated,
             \A p \in Prompts : stage[p] = "done" /\ session.text[p] > 0
      PROVE  app.pending = {}
  <2>1. Finished
    BY <1>1 DEF Finished, Messages
  <2>2. ~chat.missed /\ refresh.state = "idle" /\ ~refresh.queued
    BY <1>1 DEF Settled, Idle
  <2>3. RequestsView \in RequestsViews /\ ~OwesAnswer
    BY <1>1, <2>1, SettledChannels DEF CliInv, RequestsGo, Leads
  <2>4. RequestsClear
    BY <2>3 DEF RequestsView, RequestsViews
  <2>5. ClearView = "right"
    BY <1>1, <2>2, <2>4, SettledChannels DEF RequestsClear, Excused, Leads
  <2> QED BY <1>1, <2>2, <2>5 DEF ClearView, Clear
<1>2. CliInv => AnsweredRequestsGo
  BY <1>1 DEF AnsweredRequestsGo
<1> QED BY <1>2, CliInvariant, PTL
=============================================================================
