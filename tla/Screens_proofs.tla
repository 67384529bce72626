--------------------------- MODULE Screens_proofs ---------------------------
(***************************************************************************)
(* What the screens of the clients show once everything is answered.       *)
(*                                                                         *)
(* The cards of the workspaces page and the rows of the session page's     *)
(* sidebar are copies of a list at the server that the pages change on     *)
(* their own when they hear of a change, and read anew at other times; the *)
(* invariants say where what is wrong with the copy will be told: by a     *)
(* list under way, or by an answer that has yet to be heard.  The line     *)
(* that is written in a chat is the user's, recalled lines are not.        *)
(***************************************************************************)
EXTENDS Workspaces, SessionSidebar, Composer, FiniteSetTheorems, TLAPS

-----------------------------------------------------------------------------
(* What the cards of the workspaces show                                   *)

Named == [Workspaces -> Names \cup {"none"}]
RequestKinds == {"list", "create", "update", "delete", "branches", "start"}
MaybeWorkspaces == Workspaces \cup {Nobody}

(* A change names the workspace it is of.                                  *)
RequestRecords ==
  {q \in [stage : {"idle", "sent", "unheard", "answered"}, kind : RequestKinds,
          on : MaybeWorkspaces, text : Names \cup {"none"}, of : MaybeWorkspaces,
          ok : BOOLEAN, list : Named] :
     /\ q.kind \in {"update", "delete"} => q.on \in Workspaces
     /\ q.kind \in {"create", "update"} => q.text \in Names}

PageRecords ==
  [open : BOOLEAN, loading : BOOLEAN, list : Named, card : Named,
   editing : MaybeWorkspaces, draft : Names \cup {"none"},
   saving : MaybeWorkspaces, deleting : MaybeWorkspaces,
   opening : MaybeWorkspaces, creating : BOOLEAN, modal : MaybeWorkspaces,
   branch : MaybeWorkspaces]

WorkspacesTypeOK ==
  /\ row \in [Workspaces -> Names \cup {"free", "deleted"}]
  /\ request \in [Requests -> RequestRecords]
  /\ page \in PageRecords
  /\ overtaken \in BOOLEAN

(* The branch of the dialog is one of its workspace, and so is the one a   *)
(* chat was started with.                                                  *)
BranchesMatch ==
  /\ page.branch # Nobody => page.branch = page.modal
  /\ ChatsStartOnTheirOwnBranch

(* A change was made and will be heard of: the page reloads then.          *)
ChangeIsTold ==
  \E r \in Requests :
    /\ request[r].stage = "answered" /\ request[r].ok
    /\ request[r].kind \in {"create", "update", "delete"}

(* A reload that no other overtook finds the dashboard gone, and brings    *)
(* the rows as they are, or as they were before a change that is yet to be *)
(* heard of.                                                               *)
ReloadsStandAlone ==
  ~overtaken => \A r \in Requests : Reloading(r) =>
    /\ page.card = NoRows
    /\ request[r].stage = "answered" =>
         request[r].ok /\ (request[r].list = Rows \/ ChangeIsTold)
    /\ \A q \in Requests : Reloading(q) => q = r

CardsAreTold ==
  ~overtaken /\ page.open
    => \/ \E r \in Requests : Reloading(r)
       \/ page.card = Rows
       \/ ChangeIsTold

WorkspacesInv ==
  /\ WorkspacesTypeOK
  /\ BranchesMatch
  /\ ReloadsStandAlone
  /\ CardsAreTold

(* The requests of the page, and none, are records of the type.            *)
LEMMA RequestsAreRecords ==
  /\ NoRequest \in RequestRecords
  /\ Sent("list", Nobody) \in RequestRecords
  /\ \A w \in Workspaces : /\ Sent("delete", w) \in RequestRecords
                           /\ Sent("branches", w) \in RequestRecords
  /\ \A n \in Names : /\ [Sent("create", Nobody) EXCEPT !.text = n] \in RequestRecords
                      /\ \A w \in Workspaces :
                           [Sent("update", w) EXCEPT !.text = n] \in RequestRecords
  /\ \A w, b \in MaybeWorkspaces : [Sent("start", w) EXCEPT !.of = b] \in RequestRecords
  BY DEF RequestRecords, RequestKinds, MaybeWorkspaces, Named, NoRequest, NoRows, Sent

(* What happens to a request on its way keeps it one.                      *)
LEMMA RequestsStayRecords ==
  ASSUME NEW q \in RequestRecords
  PROVE  /\ [q EXCEPT !.stage = "unheard"] \in RequestRecords
         /\ [q EXCEPT !.ok = FALSE] \in RequestRecords
         /\ \A ok \in BOOLEAN, list \in Named :
              [q EXCEPT !.stage = "answered", !.ok = ok, !.list = list] \in RequestRecords
  BY DEF RequestRecords

(* The page when it is opened and when it is left.                         *)
LEMMA PagesAreRecords ==
  /\ NewPage \in PageRecords
  /\ [NewPage EXCEPT !.open = FALSE, !.loading = FALSE] \in PageRecords
  BY DEF PageRecords, MaybeWorkspaces, Named, NewPage, NoRows

(* Every list is one of names.                                             *)
LEMMA ListsAreNamed ==
  ASSUME WorkspacesTypeOK
  PROVE  /\ NoRows \in Named /\ Rows \in Named
         /\ page.card \in Named /\ page.list \in Named
         /\ \A r \in Requests : request[r] \in RequestRecords /\ request[r].list \in Named
         /\ \A list \in Named : Cards(page, list) \in Named
  BY DEF WorkspacesTypeOK, NoRows, Rows, Named, Cards, PageRecords, RequestRecords

(* An answer keeps the requests records.                                   *)
LEMMA AnswersAreRecords ==
  ASSUME WorkspacesTypeOK, NEW r \in Requests, NEW ok \in BOOLEAN, NEW list \in Named,
         Answer(r, ok, list)
  PROVE  request' \in [Requests -> RequestRecords]
  BY RequestsAreRecords, RequestsStayRecords, ListsAreNamed DEF Answer, WorkspacesTypeOK

(* So does leaving the page.                                               *)
LEMMA LeavingKeepsTypes ==
  ASSUME WorkspacesTypeOK, Leave
  PROVE  WorkspacesTypeOK'
  <1>1. request' \in [Requests -> RequestRecords]
    BY RequestsAreRecords, RequestsStayRecords, ListsAreNamed DEF Leave
  <1>. QED
    BY <1>1, PagesAreRecords DEF Leave, WorkspacesTypeOK

(* Every step keeps the types.                                             *)
LEMMA WorkspacesTypes ==
  ASSUME WorkspacesTypeOK, [WorkspacesNext]_workspacesVars
  PROVE  WorkspacesTypeOK'
  <1>. USE DEF WorkspacesTypeOK
  <1>1. CASE UNCHANGED workspacesVars
    BY <1>1 DEF workspacesVars
  <1>2. CASE Leave
    BY <1>2, LeavingKeepsTypes
  <1>3. CASE CancelChat
    BY <1>3 DEF CancelChat, CloseModal, PageOnly, PageRecords, MaybeWorkspaces
  <1>4. ASSUME NEW r \in Requests, Visit(r)
        PROVE  WorkspacesTypeOK'
    BY <1>4, RequestsAreRecords, PagesAreRecords, ListsAreNamed
       DEF Visit, Reload, PageRecords, MaybeWorkspaces
  <1>5. ASSUME NEW r \in Requests, NEW n \in Names, CreateWorkspace(r, n)
        PROVE  WorkspacesTypeOK'
    BY <1>5, RequestsAreRecords DEF CreateWorkspace, Ask, PageRecords, MaybeWorkspaces
  <1>6. ASSUME NEW r \in Requests, NEW w \in Workspaces, Save(r, w)
        PROVE  WorkspacesTypeOK'
    BY <1>6, RequestsAreRecords DEF Save, Ask, PageRecords, MaybeWorkspaces
  <1>7. ASSUME NEW r \in Requests, NEW w \in Workspaces, Delete(r, w)
        PROVE  WorkspacesTypeOK'
    BY <1>7, RequestsAreRecords DEF Delete, Ask, PageRecords, MaybeWorkspaces
  <1>8. ASSUME NEW r \in Requests, NEW w \in Workspaces, OpenChat(r, w)
        PROVE  WorkspacesTypeOK'
    BY <1>8, RequestsAreRecords DEF OpenChat, Ask, PageRecords, MaybeWorkspaces
  <1>9. ASSUME NEW r \in Requests, StartChat(r)
        PROVE  WorkspacesTypeOK'
    BY <1>9, RequestsAreRecords DEF StartChat, Ask, PageRecords, MaybeWorkspaces
  <1>10. ASSUME NEW r \in Requests, ServeList(r)
        PROVE  WorkspacesTypeOK'
    BY <1>10, AnswersAreRecords, ListsAreNamed DEF ServeList
  <1>11. ASSUME NEW r \in Requests, ServeUpdate(r)
        PROVE  WorkspacesTypeOK'
    <2>1. request' \in [Requests -> RequestRecords]
      BY <1>11, AnswersAreRecords, ListsAreNamed DEF ServeUpdate
    <2>2. request[r].on \in Workspaces /\ request[r].text \in Names
      BY <1>11 DEF ServeUpdate, AtServer, RequestRecords
    <2>. QED
      BY <1>11, <2>1, <2>2 DEF ServeUpdate, Noticed
  <1>12. ASSUME NEW r \in Requests, ServeDelete(r)
        PROVE  WorkspacesTypeOK'
    <2>1. request' \in [Requests -> RequestRecords]
      BY <1>12, AnswersAreRecords, ListsAreNamed DEF ServeDelete
    <2>2. request[r].on \in Workspaces
      BY <1>12 DEF ServeDelete, AtServer, RequestRecords
    <2>. QED
      BY <1>12, <2>1, <2>2 DEF ServeDelete, Noticed
  <1>13. ASSUME NEW r \in Requests, NEW w \in Workspaces, ServeCreate(r, w)
        PROVE  WorkspacesTypeOK'
    <2>1. request' \in [Requests -> RequestRecords]
      BY <1>13, AnswersAreRecords, ListsAreNamed DEF ServeCreate
    <2>2. request[r].text \in Names
      BY <1>13 DEF ServeCreate, AtServer, RequestRecords
    <2>. QED
      BY <1>13, <2>1, <2>2 DEF ServeCreate, Noticed
  <1>14. ASSUME NEW r \in Requests, ServeBranches(r)
        PROVE  WorkspacesTypeOK'
    BY <1>14, AnswersAreRecords, ListsAreNamed DEF ServeBranches
  <1>15. ASSUME NEW r \in Requests, ServeStart(r)
        PROVE  WorkspacesTypeOK'
    BY <1>15, AnswersAreRecords, ListsAreNamed DEF ServeStart
  <1>16. ASSUME NEW r \in Requests, Refuse(r)
        PROVE  WorkspacesTypeOK'
    BY <1>16, AnswersAreRecords, ListsAreNamed DEF Refuse
  <1>17. ASSUME NEW r \in Requests, LoseAnswer(r)
        PROVE  WorkspacesTypeOK'
    BY <1>17, RequestsStayRecords, ListsAreNamed DEF LoseAnswer
  <1>18. ASSUME NEW r \in Requests, FinishReload(r)
        PROVE  WorkspacesTypeOK'
    BY <1>18, RequestsAreRecords, ListsAreNamed DEF FinishReload, Finished, PageRecords
  <1>19. ASSUME NEW r \in Requests, FailReload(r)
        PROVE  WorkspacesTypeOK'
    BY <1>19, RequestsAreRecords, ListsAreNamed DEF FailReload, Finished, PageRecords
  <1>20. ASSUME NEW r \in Requests, Created(r)
        PROVE  WorkspacesTypeOK'
    BY <1>20, RequestsAreRecords, ListsAreNamed DEF Created, Reload, PageRecords
  <1>21. ASSUME NEW r \in Requests, Saved(r)
        PROVE  WorkspacesTypeOK'
    BY <1>21, RequestsAreRecords, ListsAreNamed DEF Saved, Reload, PageRecords, MaybeWorkspaces
  <1>22. ASSUME NEW r \in Requests, Deleted(r)
        PROVE  WorkspacesTypeOK'
    BY <1>22, RequestsAreRecords, ListsAreNamed DEF Deleted, Reload, PageRecords, MaybeWorkspaces
  <1>23. ASSUME NEW r \in Requests, ChangeFailed(r)
        PROVE  WorkspacesTypeOK'
    BY ZenonT(40), <1>23, RequestsAreRecords DEF ChangeFailed, Finished, PageRecords, MaybeWorkspaces
  <1>24. ASSUME NEW r \in Requests, StoreBranches(r)
        PROVE  WorkspacesTypeOK'
    <2>1. request[r].on \in MaybeWorkspaces
      BY ListsAreNamed DEF RequestRecords
    <2>. QED
      BY <1>24, <2>1, RequestsAreRecords DEF StoreBranches, Finished, PageRecords
  <1>25. ASSUME NEW r \in Requests, BranchesFailed(r)
        PROVE  WorkspacesTypeOK'
    BY <1>25, RequestsAreRecords DEF BranchesFailed, Finished
  <1>26. ASSUME NEW r \in Requests, OpenStarted(r)
        PROVE  WorkspacesTypeOK'
    BY <1>26, LeavingKeepsTypes, RequestsAreRecords
       DEF OpenStarted, Finished, PageRecords, MaybeWorkspaces
  <1>27. ASSUME NEW w \in Workspaces, Edit(w)
        PROVE  WorkspacesTypeOK'
    BY <1>27 DEF Edit, PageOnly, PageRecords, MaybeWorkspaces, Named
  <1>28. ASSUME NEW w \in Workspaces, NEW n \in Names, TypeName(w, n)
        PROVE  WorkspacesTypeOK'
    BY <1>28 DEF TypeName, PageOnly, PageRecords, MaybeWorkspaces
  <1>29. ASSUME NEW w \in Workspaces, CancelEdit(w)
        PROVE  WorkspacesTypeOK'
    BY <1>29 DEF CancelEdit, PageOnly, PageRecords, MaybeWorkspaces
  <1>30. ASSUME NEW w \in Workspaces, Elsewhere(w)
        PROVE  WorkspacesTypeOK'
    BY <1>30 DEF Elsewhere
  <1>. QED
    BY <1>1, <1>2, <1>3, <1>4, <1>5, <1>6, <1>7, <1>8, <1>9, <1>10, <1>11,
       <1>12, <1>13, <1>14, <1>15, <1>16, <1>17, <1>18, <1>19, <1>20, <1>21,
       <1>22, <1>23, <1>24, <1>25, <1>26, <1>27, <1>28, <1>29, <1>30
       DEF WorkspacesNext

(* Cards that were not there are built with what the list says.            *)
LEMMA CardsOfNothing ==
  ASSUME WorkspacesTypeOK, page.card = NoRows, NEW list \in Named
  PROVE  Cards(page, list) = list
  BY DEF NoRows, Named, Cards

(* What the type says of a request.                                        *)
LEMMA RequestFields ==
  ASSUME WorkspacesTypeOK, NEW r \in Requests
  PROVE  /\ request[r].stage \in {"idle", "sent", "unheard", "answered"}
         /\ request[r].kind \in RequestKinds
         /\ request[r].ok \in BOOLEAN
         /\ request[r].list \in Named
         /\ request[r] \in RequestRecords
  BY DEF WorkspacesTypeOK, RequestRecords

(* A change that somebody waits for is told.                               *)
LEMMA ChangesAreTold ==
  ASSUME WorkspacesTypeOK, NEW r \in Requests, request[r].stage # "unheard",
         request[r].kind \in {"create", "update", "delete"}, Answer(r, TRUE, NoRows)
  PROVE  /\ ChangeIsTold'
         /\ \A q \in Requests \ {r} : request'[q] = request[q]
         /\ request'[r].kind = request[r].kind
  BY DEF WorkspacesTypeOK, RequestRecords, Answer, ChangeIsTold

(* The branch of the dialog stays one of its workspace.                    *)
LEMMA BranchesStayMatched ==
  ASSUME WorkspacesInv, [WorkspacesNext]_workspacesVars
  PROVE  BranchesMatch'
  <1>. USE WorkspacesAssumption, RequestFields DEF WorkspacesInv, WorkspacesTypeOK, PageRecords, BranchesMatch, ChatsStartOnTheirOwnBranch
  <1>1. CASE UNCHANGED workspacesVars
    BY <1>1 DEF workspacesVars, Rows, Active
  <1>2. CASE Leave
    BY <1>2 DEF Leave, NewPage, NoRequest
  <1>3. CASE CancelChat
    BY <1>3 DEF CancelChat, CloseModal, PageOnly
  <1>4. ASSUME NEW r \in Requests, Visit(r)
        PROVE  BranchesMatch'
    BY <1>4 DEF Visit, Idle, Reload, Sent, NoRequest, NewPage
  <1>5. ASSUME NEW r \in Requests, NEW n \in Names, CreateWorkspace(r, n)
        PROVE  BranchesMatch'
    BY <1>5 DEF CreateWorkspace, Ask, Sent, NoRequest, Idle
  <1>6. ASSUME NEW r \in Requests, NEW w \in Workspaces, Save(r, w)
        PROVE  BranchesMatch'
    BY <1>6 DEF Save, Ask, Sent, NoRequest, Idle
  <1>7. ASSUME NEW r \in Requests, NEW w \in Workspaces, Delete(r, w)
        PROVE  BranchesMatch'
    BY <1>7 DEF Delete, Ask, Sent, NoRequest, Idle
  <1>8. ASSUME NEW r \in Requests, NEW w \in Workspaces, OpenChat(r, w)
        PROVE  BranchesMatch'
    BY <1>8 DEF OpenChat, Ask, Sent, NoRequest, Idle
  <1>9. ASSUME NEW r \in Requests, StartChat(r)
        PROVE  BranchesMatch'
    BY <1>9 DEF StartChat, Ask, Sent, NoRequest, Idle
  <1>10. ASSUME NEW r \in Requests, ServeList(r)
        PROVE  BranchesMatch'
    BY <1>10 DEF ServeList, Answer, AtServer, NoRequest
  <1>11. ASSUME NEW r \in Requests, ServeUpdate(r)
        PROVE  BranchesMatch'
    BY <1>11 DEF ServeUpdate, Answer, AtServer, NoRequest, Noticed
  <1>12. ASSUME NEW r \in Requests, ServeDelete(r)
        PROVE  BranchesMatch'
    BY <1>12 DEF ServeDelete, Answer, AtServer, NoRequest, Noticed
  <1>13. ASSUME NEW r \in Requests, NEW w \in Workspaces, ServeCreate(r, w)
        PROVE  BranchesMatch'
    BY <1>13 DEF ServeCreate, Answer, AtServer, NoRequest, Noticed
  <1>14. ASSUME NEW r \in Requests, ServeBranches(r)
        PROVE  BranchesMatch'
    BY <1>14 DEF ServeBranches, Answer, AtServer, NoRequest
  <1>15. ASSUME NEW r \in Requests, ServeStart(r)
        PROVE  BranchesMatch'
    BY <1>15 DEF ServeStart, Answer, AtServer, NoRequest
  <1>16. ASSUME NEW r \in Requests, Refuse(r)
        PROVE  BranchesMatch'
    BY <1>16 DEF Refuse, Answer, NoRequest
  <1>17. ASSUME NEW r \in Requests, LoseAnswer(r)
        PROVE  BranchesMatch'
    BY <1>17 DEF LoseAnswer
  <1>18. ASSUME NEW r \in Requests, FinishReload(r)
        PROVE  BranchesMatch'
    BY <1>18, CardsOfNothing DEF FinishReload, Answered, Finished, NoRequest
  <1>19. ASSUME NEW r \in Requests, FailReload(r)
        PROVE  BranchesMatch'
    BY <1>19, CardsOfNothing DEF FailReload, Answered, Finished, NoRequest
  <1>20. ASSUME NEW r \in Requests, Created(r)
        PROVE  BranchesMatch'
    BY <1>20 DEF Created, Answered, Reload, Sent, NoRequest
  <1>21. ASSUME NEW r \in Requests, Saved(r)
        PROVE  BranchesMatch'
    BY <1>21 DEF Saved, Answered, Reload, Sent, NoRequest
  <1>22. ASSUME NEW r \in Requests, Deleted(r)
        PROVE  BranchesMatch'
    BY <1>22 DEF Deleted, Answered, Reload, Sent, NoRequest
  <1>23. ASSUME NEW r \in Requests, ChangeFailed(r)
        PROVE  BranchesMatch'
    BY <1>23 DEF ChangeFailed, Answered, Finished, NoRequest
  <1>24. ASSUME NEW r \in Requests, StoreBranches(r)
        PROVE  BranchesMatch'
    BY <1>24 DEF StoreBranches, Answered, Finished, NoRequest
  <1>25. ASSUME NEW r \in Requests, BranchesFailed(r)
        PROVE  BranchesMatch'
    BY <1>25 DEF BranchesFailed, Answered, Finished, NoRequest
  <1>26. ASSUME NEW r \in Requests, OpenStarted(r)
        PROVE  BranchesMatch'
    <2>1. CASE Leave
      BY <1>2, <2>1
    <2>2. CASE page' = [page EXCEPT !.opening = Nobody] /\ Finished(r)
      BY <1>26, <2>2 DEF OpenStarted, Answered, Finished, NoRequest
    <2>. QED
      BY <1>26, <2>1, <2>2 DEF OpenStarted
  <1>27. ASSUME NEW w \in Workspaces, Edit(w)
        PROVE  BranchesMatch'
    BY <1>27 DEF Edit, PageOnly
  <1>28. ASSUME NEW w \in Workspaces, NEW n \in Names, TypeName(w, n)
        PROVE  BranchesMatch'
    BY <1>28 DEF TypeName, PageOnly
  <1>29. ASSUME NEW w \in Workspaces, CancelEdit(w)
        PROVE  BranchesMatch'
    BY <1>29 DEF CancelEdit, PageOnly
  <1>30. ASSUME NEW w \in Workspaces, Elsewhere(w)
        PROVE  BranchesMatch'
    BY <1>30 DEF Elsewhere
  <1>. QED
    BY <1>1, <1>2, <1>3, <1>4, <1>5, <1>6, <1>7, <1>8, <1>9, <1>10, <1>11,
       <1>12, <1>13, <1>14, <1>15, <1>16, <1>17, <1>18, <1>19, <1>20, <1>21,
       <1>22, <1>23, <1>24, <1>25, <1>26, <1>27, <1>28, <1>29, <1>30
       DEF WorkspacesNext

(* A reload stays alone, or is overtaken.                                  *)
LEMMA ReloadsStayAlone ==
  ASSUME WorkspacesInv, [WorkspacesNext]_workspacesVars
  PROVE  ReloadsStandAlone'
  <1>. USE WorkspacesAssumption, RequestFields DEF WorkspacesInv, WorkspacesTypeOK, PageRecords, ReloadsStandAlone, Reloading, ChangeIsTold
  <1>1. CASE UNCHANGED workspacesVars
    BY <1>1 DEF workspacesVars, Rows, Active
  <1>2. CASE Leave
    BY <1>2 DEF Leave, NewPage, NoRequest, Rows, Active
  <1>3. CASE CancelChat
    BY <1>3 DEF CancelChat, CloseModal, PageOnly, Rows, Active
  <1>4. ASSUME NEW r \in Requests, Visit(r)
        PROVE  ReloadsStandAlone'
    BY <1>4 DEF Visit, Idle, Reload, Sent, NoRequest, NewPage, Rows, Active
  <1>5. ASSUME NEW r \in Requests, NEW n \in Names, CreateWorkspace(r, n)
        PROVE  ReloadsStandAlone'
    BY <1>5 DEF CreateWorkspace, Ask, Sent, NoRequest, Idle, Rows, Active
  <1>6. ASSUME NEW r \in Requests, NEW w \in Workspaces, Save(r, w)
        PROVE  ReloadsStandAlone'
    BY <1>6 DEF Save, Ask, Sent, NoRequest, Idle, Rows, Active
  <1>7. ASSUME NEW r \in Requests, NEW w \in Workspaces, Delete(r, w)
        PROVE  ReloadsStandAlone'
    BY <1>7 DEF Delete, Ask, Sent, NoRequest, Idle, Rows, Active
  <1>8. ASSUME NEW r \in Requests, NEW w \in Workspaces, OpenChat(r, w)
        PROVE  ReloadsStandAlone'
    BY <1>8 DEF OpenChat, Ask, Sent, NoRequest, Idle, Rows, Active
  <1>9. ASSUME NEW r \in Requests, StartChat(r)
        PROVE  ReloadsStandAlone'
    BY <1>9 DEF StartChat, Ask, Sent, NoRequest, Idle, Rows, Active
  <1>10. ASSUME NEW r \in Requests, ServeList(r)
        PROVE  ReloadsStandAlone'
    BY <1>10 DEF ServeList, Answer, AtServer, NoRequest, Rows, Active
  <1>11. ASSUME NEW r \in Requests, ServeUpdate(r)
        PROVE  ReloadsStandAlone'
    <2>1. CASE request[r].stage = "unheard"
      BY <1>11, <2>1 DEF ServeUpdate, Noticed
    <2>2. CASE request[r].stage # "unheard"
      <3>1. /\ ChangeIsTold'
            /\ \A q \in Requests \ {r} : request'[q] = request[q]
            /\ request'[r].kind # "list"
            /\ UNCHANGED <<page, overtaken>>
        BY <1>11, <2>2, ChangesAreTold DEF ServeUpdate, Noticed, AtServer
      <3>. QED
        BY <3>1
    <2>. QED
      BY <2>1, <2>2
  <1>12. ASSUME NEW r \in Requests, ServeDelete(r)
        PROVE  ReloadsStandAlone'
    <2>1. CASE request[r].stage = "unheard"
      BY <1>12, <2>1 DEF ServeDelete, Noticed
    <2>2. CASE request[r].stage # "unheard"
      <3>1. /\ ChangeIsTold'
            /\ \A q \in Requests \ {r} : request'[q] = request[q]
            /\ request'[r].kind # "list"
            /\ UNCHANGED <<page, overtaken>>
        BY <1>12, <2>2, ChangesAreTold DEF ServeDelete, Noticed, AtServer
      <3>. QED
        BY <3>1
    <2>. QED
      BY <2>1, <2>2
  <1>13. ASSUME NEW r \in Requests, NEW w \in Workspaces, ServeCreate(r, w)
        PROVE  ReloadsStandAlone'
    <2>1. CASE request[r].stage = "unheard"
      BY <1>13, <2>1 DEF ServeCreate, Noticed
    <2>2. CASE request[r].stage # "unheard"
      <3>1. /\ ChangeIsTold'
            /\ \A q \in Requests \ {r} : request'[q] = request[q]
            /\ request'[r].kind # "list"
            /\ UNCHANGED <<page, overtaken>>
        BY <1>13, <2>2, ChangesAreTold DEF ServeCreate, Noticed, AtServer
      <3>. QED
        BY <3>1
    <2>. QED
      BY <2>1, <2>2
  <1>14. ASSUME NEW r \in Requests, ServeBranches(r)
        PROVE  ReloadsStandAlone'
    BY <1>14 DEF ServeBranches, Answer, AtServer, NoRequest, Rows, Active
  <1>15. ASSUME NEW r \in Requests, ServeStart(r)
        PROVE  ReloadsStandAlone'
    BY <1>15 DEF ServeStart, Answer, AtServer, NoRequest, Rows, Active
  <1>16. ASSUME NEW r \in Requests, Refuse(r)
        PROVE  ReloadsStandAlone'
    BY <1>16 DEF Refuse, Answer, NoRequest, Rows, Active
  <1>17. ASSUME NEW r \in Requests, LoseAnswer(r)
        PROVE  ReloadsStandAlone'
    BY <1>17 DEF LoseAnswer, Rows, Active
  <1>18. ASSUME NEW r \in Requests, FinishReload(r)
        PROVE  ReloadsStandAlone'
    BY <1>18, CardsOfNothing DEF FinishReload, Answered, Finished, NoRequest, Rows, Active
  <1>19. ASSUME NEW r \in Requests, FailReload(r)
        PROVE  ReloadsStandAlone'
    BY <1>19, CardsOfNothing DEF FailReload, Answered, Finished, NoRequest, Rows, Active
  <1>20. ASSUME NEW r \in Requests, Created(r)
        PROVE  ReloadsStandAlone'
    BY <1>20 DEF Created, Answered, Reload, Sent, NoRequest, Rows, Active
  <1>21. ASSUME NEW r \in Requests, Saved(r)
        PROVE  ReloadsStandAlone'
    BY <1>21 DEF Saved, Answered, Reload, Sent, NoRequest, Rows, Active
  <1>22. ASSUME NEW r \in Requests, Deleted(r)
        PROVE  ReloadsStandAlone'
    BY <1>22 DEF Deleted, Answered, Reload, Sent, NoRequest, Rows, Active
  <1>23. ASSUME NEW r \in Requests, ChangeFailed(r)
        PROVE  ReloadsStandAlone'
    BY <1>23 DEF ChangeFailed, Answered, Finished, NoRequest, Rows, Active
  <1>24. ASSUME NEW r \in Requests, StoreBranches(r)
        PROVE  ReloadsStandAlone'
    BY <1>24 DEF StoreBranches, Answered, Finished, NoRequest, Rows, Active
  <1>25. ASSUME NEW r \in Requests, BranchesFailed(r)
        PROVE  ReloadsStandAlone'
    BY <1>25 DEF BranchesFailed, Answered, Finished, NoRequest, Rows, Active
  <1>26. ASSUME NEW r \in Requests, OpenStarted(r)
        PROVE  ReloadsStandAlone'
    <2>1. CASE Leave
      BY <1>2, <2>1
    <2>2. CASE page' = [page EXCEPT !.opening = Nobody] /\ Finished(r)
      BY <1>26, <2>2 DEF OpenStarted, Answered, Finished, NoRequest, Rows, Active
    <2>. QED
      BY <1>26, <2>1, <2>2 DEF OpenStarted
  <1>27. ASSUME NEW w \in Workspaces, Edit(w)
        PROVE  ReloadsStandAlone'
    BY <1>27 DEF Edit, PageOnly, Rows, Active
  <1>28. ASSUME NEW w \in Workspaces, NEW n \in Names, TypeName(w, n)
        PROVE  ReloadsStandAlone'
    BY <1>28 DEF TypeName, PageOnly, Rows, Active
  <1>29. ASSUME NEW w \in Workspaces, CancelEdit(w)
        PROVE  ReloadsStandAlone'
    BY <1>29 DEF CancelEdit, PageOnly, Rows, Active
  <1>30. ASSUME NEW w \in Workspaces, Elsewhere(w)
        PROVE  ReloadsStandAlone'
    BY <1>30 DEF Elsewhere, Rows, Active
  <1>. QED
    BY <1>1, <1>2, <1>3, <1>4, <1>5, <1>6, <1>7, <1>8, <1>9, <1>10, <1>11,
       <1>12, <1>13, <1>14, <1>15, <1>16, <1>17, <1>18, <1>19, <1>20, <1>21,
       <1>22, <1>23, <1>24, <1>25, <1>26, <1>27, <1>28, <1>29, <1>30
       DEF WorkspacesNext

(* A wrong card stays told of.                                             *)
LEMMA CardsStayTold ==
  ASSUME WorkspacesInv, [WorkspacesNext]_workspacesVars
  PROVE  CardsAreTold'
  <1>. USE WorkspacesAssumption, RequestFields DEF WorkspacesInv, WorkspacesTypeOK, PageRecords, CardsAreTold, Reloading, ChangeIsTold
  <1>. USE DEF ReloadsStandAlone
  <1>1. CASE UNCHANGED workspacesVars
    BY <1>1 DEF workspacesVars, Rows, Active
  <1>2. CASE Leave
    BY <1>2 DEF Leave, NewPage, NoRequest, Rows, Active
  <1>3. CASE CancelChat
    BY <1>3 DEF CancelChat, CloseModal, PageOnly, Rows, Active
  <1>4. ASSUME NEW r \in Requests, Visit(r)
        PROVE  CardsAreTold'
    BY <1>4 DEF Visit, Idle, Reload, Sent, NoRequest, NewPage, Rows, Active
  <1>5. ASSUME NEW r \in Requests, NEW n \in Names, CreateWorkspace(r, n)
        PROVE  CardsAreTold'
    BY <1>5 DEF CreateWorkspace, Ask, Sent, NoRequest, Idle, Rows, Active
  <1>6. ASSUME NEW r \in Requests, NEW w \in Workspaces, Save(r, w)
        PROVE  CardsAreTold'
    BY <1>6 DEF Save, Ask, Sent, NoRequest, Idle, Rows, Active
  <1>7. ASSUME NEW r \in Requests, NEW w \in Workspaces, Delete(r, w)
        PROVE  CardsAreTold'
    BY <1>7 DEF Delete, Ask, Sent, NoRequest, Idle, Rows, Active
  <1>8. ASSUME NEW r \in Requests, NEW w \in Workspaces, OpenChat(r, w)
        PROVE  CardsAreTold'
    BY <1>8 DEF OpenChat, Ask, Sent, NoRequest, Idle, Rows, Active
  <1>9. ASSUME NEW r \in Requests, StartChat(r)
        PROVE  CardsAreTold'
    BY <1>9 DEF StartChat, Ask, Sent, NoRequest, Idle, Rows, Active
  <1>10. ASSUME NEW r \in Requests, ServeList(r)
        PROVE  CardsAreTold'
    BY <1>10 DEF ServeList, Answer, AtServer, NoRequest, Rows, Active
  <1>11. ASSUME NEW r \in Requests, ServeUpdate(r)
        PROVE  CardsAreTold'
    BY <1>11 DEF ServeUpdate, Answer, AtServer, NoRequest, Noticed, Rows, Active
  <1>12. ASSUME NEW r \in Requests, ServeDelete(r)
        PROVE  CardsAreTold'
    BY <1>12 DEF ServeDelete, Answer, AtServer, NoRequest, Noticed, Rows, Active
  <1>13. ASSUME NEW r \in Requests, NEW w \in Workspaces, ServeCreate(r, w)
        PROVE  CardsAreTold'
    BY <1>13 DEF ServeCreate, Answer, AtServer, NoRequest, Noticed, Rows, Active
  <1>14. ASSUME NEW r \in Requests, ServeBranches(r)
        PROVE  CardsAreTold'
    BY <1>14 DEF ServeBranches, Answer, AtServer, NoRequest, Rows, Active
  <1>15. ASSUME NEW r \in Requests, ServeStart(r)
        PROVE  CardsAreTold'
    BY <1>15 DEF ServeStart, Answer, AtServer, NoRequest, Rows, Active
  <1>16. ASSUME NEW r \in Requests, Refuse(r)
        PROVE  CardsAreTold'
    BY <1>16 DEF Refuse, Answer, NoRequest, Rows, Active
  <1>17. ASSUME NEW r \in Requests, LoseAnswer(r)
        PROVE  CardsAreTold'
    BY <1>17 DEF LoseAnswer, Rows, Active
  <1>18. ASSUME NEW r \in Requests, FinishReload(r)
        PROVE  CardsAreTold'
    BY <1>18, CardsOfNothing DEF FinishReload, Answered, Finished, NoRequest, Rows, Active
  <1>19. ASSUME NEW r \in Requests, FailReload(r)
        PROVE  CardsAreTold'
    BY <1>19, CardsOfNothing DEF FailReload, Answered, Finished, NoRequest, Rows, Active
  <1>20. ASSUME NEW r \in Requests, Created(r)
        PROVE  CardsAreTold'
    BY <1>20 DEF Created, Answered, Reload, Sent, NoRequest, Rows, Active
  <1>21. ASSUME NEW r \in Requests, Saved(r)
        PROVE  CardsAreTold'
    BY <1>21 DEF Saved, Answered, Reload, Sent, NoRequest, Rows, Active
  <1>22. ASSUME NEW r \in Requests, Deleted(r)
        PROVE  CardsAreTold'
    BY <1>22 DEF Deleted, Answered, Reload, Sent, NoRequest, Rows, Active
  <1>23. ASSUME NEW r \in Requests, ChangeFailed(r)
        PROVE  CardsAreTold'
    BY <1>23 DEF ChangeFailed, Answered, Finished, NoRequest, Rows, Active
  <1>24. ASSUME NEW r \in Requests, StoreBranches(r)
        PROVE  CardsAreTold'
    BY <1>24 DEF StoreBranches, Answered, Finished, NoRequest, Rows, Active
  <1>25. ASSUME NEW r \in Requests, BranchesFailed(r)
        PROVE  CardsAreTold'
    BY <1>25 DEF BranchesFailed, Answered, Finished, NoRequest, Rows, Active
  <1>26. ASSUME NEW r \in Requests, OpenStarted(r)
        PROVE  CardsAreTold'
    <2>1. CASE Leave
      BY <1>2, <2>1
    <2>2. CASE page' = [page EXCEPT !.opening = Nobody] /\ Finished(r)
      BY <1>26, <2>2 DEF OpenStarted, Answered, Finished, NoRequest, Rows, Active
    <2>. QED
      BY <1>26, <2>1, <2>2 DEF OpenStarted
  <1>27. ASSUME NEW w \in Workspaces, Edit(w)
        PROVE  CardsAreTold'
    BY <1>27 DEF Edit, PageOnly, Rows, Active
  <1>28. ASSUME NEW w \in Workspaces, NEW n \in Names, TypeName(w, n)
        PROVE  CardsAreTold'
    BY <1>28 DEF TypeName, PageOnly, Rows, Active
  <1>29. ASSUME NEW w \in Workspaces, CancelEdit(w)
        PROVE  CardsAreTold'
    BY <1>29 DEF CancelEdit, PageOnly, Rows, Active
  <1>30. ASSUME NEW w \in Workspaces, Elsewhere(w)
        PROVE  CardsAreTold'
    BY <1>30 DEF Elsewhere, Rows, Active
  <1>. QED
    BY <1>1, <1>2, <1>3, <1>4, <1>5, <1>6, <1>7, <1>8, <1>9, <1>10, <1>11,
       <1>12, <1>13, <1>14, <1>15, <1>16, <1>17, <1>18, <1>19, <1>20, <1>21,
       <1>22, <1>23, <1>24, <1>25, <1>26, <1>27, <1>28, <1>29, <1>30
       DEF WorkspacesNext

LEMMA WorkspacesInvariant == WorkspacesSpec => []WorkspacesInv
  <1>1. WorkspacesInit => WorkspacesInv
    <2>. SUFFICES ASSUME WorkspacesInit
                  PROVE  WorkspacesInv
      OBVIOUS
    <2>1. WorkspacesTypeOK
      BY RequestsAreRecords, PagesAreRecords DEF WorkspacesInit, WorkspacesTypeOK
    <2>. QED
      BY <2>1 DEF WorkspacesInit, WorkspacesInv, BranchesMatch, ChatsStartOnTheirOwnBranch,
                  ReloadsStandAlone, Reloading, CardsAreTold, NewPage, NoRequest
  <1>2. WorkspacesInv /\ [WorkspacesNext]_workspacesVars => WorkspacesInv'
    BY WorkspacesTypes, BranchesStayMatched, ReloadsStayAlone, CardsStayTold DEF WorkspacesInv
  <1>. QED
    BY <1>1, <1>2, PTL DEF WorkspacesSpec

(* Whatever order the branches of the dialogs come in, a chat is started   *)
(* on a branch of its own workspace: a dialog has branches of no other.    *)
THEOREM ChatsStartAtHome == WorkspacesSpec => []ChatsStartOnTheirOwnBranch
  <1>1. WorkspacesInv => ChatsStartOnTheirOwnBranch
    BY DEF WorkspacesInv, BranchesMatch
  <1>. QED
    BY <1>1, WorkspacesInvariant, PTL

(* With no request under way the cards show the workspaces as they are,    *)
(* unless something overtook the last reload: each change the page makes   *)
(* is followed by a reload that finds the cards gone.                      *)
THEOREM CardsAreCurrent == WorkspacesSpec => []RestingPageIsCurrent
  <1>1. WorkspacesInv => RestingPageIsCurrent
    BY DEF WorkspacesInv, CardsAreTold, ChangeIsTold, Reloading, RestingPageIsCurrent, AtRest, Idle
  <1>. QED
    BY <1>1, WorkspacesInvariant, PTL

-----------------------------------------------------------------------------
(* What the sidebar shows                                                  *)

Titled == [Chats -> Titles \cup {"none"}]
TaskKinds == {"list", "relist", "load", "rename", "delete", "branches", "create"}

(* A change names the session it is of.                                    *)
TaskRecords ==
  {q \in [stage : {"idle", "sent", "unheard", "answered"}, kind : TaskKinds,
          on : Chats \cup {NoSession}, text : Titles \cup Branches \cup {"none"},
          ok : BOOLEAN, items : Titled] :
     /\ q.kind \in {"rename", "delete", "relist"} => q.on \in Chats
     /\ q.kind = "rename" => q.text \in Titles}

BarRecords ==
  [open : BOOLEAN, workspace : BOOLEAN, busy : BOOLEAN, ended : BOOLEAN,
   loaded : BOOLEAN, items : Titled, deleting : Chats \cup {NoSession},
   renaming : Chats \cup {NoSession}, saving : Chats \cup {NoSession},
   draft : Titles \cup {"none"}, dialog : BOOLEAN, loading : BOOLEAN,
   offered : BOOLEAN, chosen : Branches \cup {"none"}, creating : BOOLEAN]

SidebarTypeOK ==
  /\ chat \in [Chats -> Titles \cup {"free", "deleted"}]
  /\ task \in [Tasks -> TaskRecords]
  /\ bar \in BarRecords
  /\ crossed \in BOOLEAN

(* The page renames one session at a time.                                 *)
RenameUnderWay(t) == task[t].kind = "rename" /\ task[t].stage \in {"sent", "answered"}
OneRename ==
  /\ bar.saving # NoSession => bar.renaming = bar.saving
  /\ \A t \in Tasks : RenameUnderWay(t) => bar.saving = task[t].on
  /\ \A t, u \in Tasks : RenameUnderWay(t) /\ RenameUnderWay(u) => t = u

(* What an answer tells is so, unless something crossed it.                *)
Tells(t, kind) == task[t].stage = "answered" /\ task[t].kind = kind /\ task[t].ok
AnswersAreTrue ==
  /\ \A t \in Tasks : Tells(t, "delete") => chat[task[t].on] = "deleted"
  /\ ~crossed => \A t \in Tasks :
       Tells(t, "rename") => chat[task[t].on] \in {task[t].text, "deleted"}

(* A list that nothing crossed is the present one, no other is under way,  *)
(* and no change waits to be told.                                         *)
ListsStandAlone ==
  ~crossed => \A t \in Tasks : ListUnderWay(t) =>
    /\ task[t].stage = "answered" /\ task[t].ok => task[t].items = Listing
    /\ \A u \in Tasks \ {t} :
         ~ListUnderWay(u) /\ ~Tells(u, "rename") /\ ~Tells(u, "delete")

(* With no list under way each row is right, or an answer will say so.     *)
RowIsTold(s) ==
  \/ bar.items[s] = Listing[s]
  \/ \E t \in Tasks : Tells(t, "delete") /\ task[t].on = s
  \/ /\ bar.items[s] # "none" /\ Alive(s)
     /\ \E t \in Tasks : Tells(t, "rename") /\ task[t].on = s

RowsAreTold ==
  ~crossed /\ bar.open /\ bar.loaded
    => SomeListUnderWay(Tasks) \/ \A s \in Chats : RowIsTold(s)

(* While no page is open nobody waits for an answer.                       *)
NobodyWaits ==
  ~bar.open => /\ bar = [NewSidebar EXCEPT !.open = FALSE]
               /\ \A t \in Tasks : task[t].stage \in {"idle", "unheard"}

SidebarInv ==
  /\ SidebarTypeOK
  /\ NobodyWaits
  /\ OneRename
  /\ AnswersAreTrue
  /\ ListsStandAlone
  /\ RowsAreTold

(* A task that takes no part in telling the rows.                          *)
Quiet(q) ==
  /\ ~(q.kind \in Listings /\ q.stage \in {"sent", "answered"})
  /\ ~(q.stage = "answered" /\ q.kind \in {"rename", "delete"} /\ q.ok)

(* A step that leaves the rows, and the tasks that matter to them, alone.   *)
QuietStep ==
  /\ chat' = chat /\ crossed' = crossed
  /\ bar'.open = bar.open /\ bar'.loaded = bar.loaded /\ bar'.items = bar.items
  /\ \A u \in Tasks : task'[u] = task[u] \/ (Quiet(task[u]) /\ Quiet(task'[u]))

(* The requests of the sidebar, and none, are records of the type.         *)
LEMMA TasksAreRecords ==
  /\ NoTask \in TaskRecords
  /\ Asked("load", Current) \in TaskRecords
  /\ \A kind \in {"list", "branches"} : Asked(kind, NoSession) \in TaskRecords
  /\ \A s \in Chats : /\ Asked("relist", s) \in TaskRecords
                      /\ Asked("delete", s) \in TaskRecords
                      /\ \A title \in Titles :
                           [Asked("rename", s) EXCEPT !.text = title] \in TaskRecords
  /\ \A b \in Branches : [Asked("create", NoSession) EXCEPT !.text = b] \in TaskRecords
  BY SidebarAssumption DEF TaskRecords, TaskKinds, Titled, Asked, NoTask, NoListing

(* What happens to a request on its way keeps it one.                      *)
LEMMA TasksStayRecords ==
  ASSUME NEW q \in TaskRecords
  PROVE  /\ [q EXCEPT !.stage = "unheard"] \in TaskRecords
         /\ [q EXCEPT !.ok = FALSE] \in TaskRecords
         /\ \A ok \in BOOLEAN, items \in Titled :
              [q EXCEPT !.stage = "answered", !.ok = ok, !.items = items] \in TaskRecords
  BY DEF TaskRecords

(* The sidebar when the page is opened and when it is left.                *)
LEMMA SidebarsAreRecords ==
  /\ NewSidebar \in BarRecords
  /\ [NewSidebar EXCEPT !.open = FALSE] \in BarRecords
  BY DEF BarRecords, Titled, NewSidebar, NoListing

(* Every list is one of titles.                                            *)
LEMMA ItemsAreTitled ==
  ASSUME SidebarTypeOK
  PROVE  /\ NoListing \in Titled /\ Listing \in Titled /\ bar.items \in Titled
         /\ \A t \in Tasks : task[t] \in TaskRecords /\ task[t].items \in Titled
  BY DEF SidebarTypeOK, NoListing, Listing, Titled, BarRecords, TaskRecords

(* What the type says of a task.                                           *)
LEMMA TaskFields ==
  ASSUME SidebarTypeOK, NEW t \in Tasks
  PROVE  /\ task[t].stage \in {"idle", "sent", "unheard", "answered"}
         /\ task[t].kind \in TaskKinds
         /\ task[t].ok \in BOOLEAN
         /\ task[t].items \in Titled
         /\ task[t].kind \in {"rename", "delete", "relist"} => task[t].on \in Chats
         /\ task[t].kind = "rename" => task[t].text \in Titles
  BY DEF SidebarTypeOK, TaskRecords

(* A reply keeps the tasks records.                                        *)
LEMMA RepliesAreRecords ==
  ASSUME SidebarTypeOK, NEW t \in Tasks, NEW ok \in BOOLEAN, NEW items \in Titled,
         Reply(t, ok, items)
  PROVE  task' \in [Tasks -> TaskRecords]
  BY TasksAreRecords, TasksStayRecords, ItemsAreTitled DEF Reply, SidebarTypeOK

(* So does reading the list again.                                         *)
LEMMA RefreshKeepsTypes ==
  ASSUME SidebarTypeOK, NEW t \in Tasks, NEW kind \in {"list", "relist"},
         NEW s \in Chats \cup {NoSession}, kind = "relist" <=> s \in Chats,
         NEW p \in BarRecords, Refresh(t, kind, s, p), UNCHANGED chat
  PROVE  SidebarTypeOK'
  BY TasksAreRecords, SidebarAssumption DEF Refresh, SidebarTypeOK

(* And so does leaving the page.                                           *)
LEMMA LeavingPageKeepsTypes ==
  ASSUME SidebarTypeOK, LeavePage
  PROVE  SidebarTypeOK'
  <1>1. task' \in [Tasks -> TaskRecords]
    BY TasksAreRecords, TasksStayRecords, ItemsAreTitled DEF LeavePage
  <1>. QED
    BY <1>1, SidebarsAreRecords DEF LeavePage, SidebarTypeOK

(* Every step keeps the types.                                             *)
LEMMA SidebarTypes ==
  ASSUME SidebarTypeOK, [SidebarNext]_sidebarVars
  PROVE  SidebarTypeOK'
  <1>. USE SidebarAssumption DEF SidebarTypeOK
  <1>1. CASE UNCHANGED sidebarVars
    BY <1>1 DEF sidebarVars
  <1>2. CASE LeavePage
    BY <1>2, LeavingPageKeepsTypes DEF LeavePage
  <1>3. CASE ChatBusy
    BY <1>3 DEF ChatBusy, OnPage, BarRecords
  <1>4. CASE ChatIdle
    BY <1>4 DEF ChatIdle, OnPage, BarRecords
  <1>5. CASE CancelNewChat
    BY <1>5 DEF CancelNewChat, OnPage, WithoutDialog, BarRecords
  <1>6. ASSUME NEW b \in Branches \cup {"none"}, ChooseBranch(b)
        PROVE  SidebarTypeOK'
    BY <1>6 DEF ChooseBranch, OnPage, BarRecords
  <1>7. ASSUME NEW s \in Chats, BeginRename(s)
        PROVE  SidebarTypeOK'
    BY <1>7 DEF BeginRename, OnPage, BarRecords, Titled
  <1>8. ASSUME NEW s \in Chats, NEW title \in Titles \cup {"none"}, TypeTitle(s, title)
        PROVE  SidebarTypeOK'
    BY <1>8 DEF TypeTitle, OnPage, BarRecords
  <1>9. ASSUME NEW s \in Chats, CancelRename(s)
        PROVE  SidebarTypeOK'
    BY <1>9 DEF CancelRename, OnPage, BarRecords
  <1>10. ASSUME NEW s \in Chats, ElsewhereChanged(s)
        PROVE  SidebarTypeOK'
    BY <1>10 DEF ElsewhereChanged
  <1>11. ASSUME NEW t \in Tasks, OpenPage(t)
        PROVE  SidebarTypeOK'
    BY <1>11, TasksAreRecords, SidebarsAreRecords DEF OpenPage
  <1>12. ASSUME NEW t \in Tasks, ChatActed(t)
        PROVE  SidebarTypeOK'
    BY <1>12, TasksAreRecords DEF ChatActed, Refresh, BarRecords
  <1>13. ASSUME NEW t \in Tasks, BeginNewChat(t)
        PROVE  SidebarTypeOK'
    BY <1>13, TasksAreRecords DEF BeginNewChat, Begin, WithDialog, BarRecords
  <1>14. ASSUME NEW t \in Tasks, SubmitNewChat(t)
        PROVE  SidebarTypeOK'
    BY <1>14, TasksAreRecords DEF SubmitNewChat, SubmitOffered, Begin, BarRecords
  <1>15. ASSUME NEW t \in Tasks, NEW s \in Chats, CommitRename(t, s)
        PROVE  SidebarTypeOK'
    BY <1>15, TasksAreRecords DEF CommitRename, Begin, OnPage, BarRecords
  <1>16. ASSUME NEW t \in Tasks, NEW s \in Chats, DeleteSession(t, s)
        PROVE  SidebarTypeOK'
    BY <1>16, TasksAreRecords DEF DeleteSession, Begin, BarRecords
  <1>17. ASSUME NEW t \in Tasks, NEW s \in Chats, ServeNewChat(t, s)
        PROVE  SidebarTypeOK'
    BY <1>17, RepliesAreRecords, ItemsAreTitled DEF ServeNewChat
  <1>18. ASSUME NEW t \in Tasks, ServeListing(t)
        PROVE  SidebarTypeOK'
    BY <1>18, RepliesAreRecords, ItemsAreTitled DEF ServeListing
  <1>19. ASSUME NEW t \in Tasks, ServeLoad(t)
        PROVE  SidebarTypeOK'
    <2>1. Alive(Current) \in BOOLEAN
      BY DEF Alive
    <2>. QED
      BY <1>19, <2>1, RepliesAreRecords, ItemsAreTitled DEF ServeLoad
  <1>20. ASSUME NEW t \in Tasks, ServeRename(t)
        PROVE  SidebarTypeOK'
    BY <1>20, RepliesAreRecords, ItemsAreTitled, TaskFields DEF ServeRename, Arrived, Crosses
  <1>21. ASSUME NEW t \in Tasks, ServeSessionDelete(t)
        PROVE  SidebarTypeOK'
    BY <1>21, RepliesAreRecords, ItemsAreTitled, TaskFields DEF ServeSessionDelete, Arrived, Crosses
  <1>22. ASSUME NEW t \in Tasks, ServeBranchList(t)
        PROVE  SidebarTypeOK'
    BY <1>22, RepliesAreRecords, ItemsAreTitled DEF ServeBranchList
  <1>23. ASSUME NEW t \in Tasks, RefuseTask(t)
        PROVE  SidebarTypeOK'
    BY <1>23, RepliesAreRecords, ItemsAreTitled DEF RefuseTask
  <1>24. ASSUME NEW t \in Tasks, LoseReply(t)
        PROVE  SidebarTypeOK'
    BY <1>24, TasksStayRecords, ItemsAreTitled DEF LoseReply
  <1>25. ASSUME NEW t \in Tasks, Loaded(t)
        PROVE  SidebarTypeOK'
    BY <1>25, TasksAreRecords DEF Loaded, Refresh, BarRecords
  <1>26. ASSUME NEW t \in Tasks, LoadFailed(t)
        PROVE  SidebarTypeOK'
    BY <1>26, TasksAreRecords, ItemsAreTitled DEF LoadFailed, Done, BarRecords
  <1>27. ASSUME NEW t \in Tasks, ListArrives(t)
        PROVE  SidebarTypeOK'
    BY <1>27, TasksAreRecords, ItemsAreTitled DEF ListArrives, Done, AfterList, BarRecords
  <1>28. ASSUME NEW t \in Tasks, ListFails(t)
        PROVE  SidebarTypeOK'
    BY <1>28, TasksAreRecords DEF ListFails, Done, AfterList, BarRecords
  <1>29. ASSUME NEW t \in Tasks, Renamed(t)
        PROVE  SidebarTypeOK'
    BY <1>29, TasksAreRecords, TaskFields DEF Renamed, Heard, Done, BarRecords, Titled
  <1>30. ASSUME NEW t \in Tasks, RenameFailed(t)
        PROVE  SidebarTypeOK'
    BY <1>30, TasksAreRecords, TaskFields DEF RenameFailed, Heard, Done, BarRecords
  <1>31. ASSUME NEW t \in Tasks, OtherDeleted(t)
        PROVE  SidebarTypeOK'
    BY <1>31, TasksAreRecords, TaskFields DEF OtherDeleted, Heard, Refresh, BarRecords, Titled
  <1>32. ASSUME NEW t \in Tasks, CurrentDeleted(t)
        PROVE  SidebarTypeOK'
    <2>1. CASE LeavePage
      BY <2>1, LeavingPageKeepsTypes
    <2>2. CASE /\ bar' = [bar EXCEPT !.items[Current] = "none", !.ended = TRUE,
                               !.busy = FALSE, !.deleting = NoSession]
               /\ Done(t)
               /\ crossed' = (crossed \/ SomeListUnderWay(Tasks \ {t}))
      BY <2>2, TasksAreRecords DEF Done, BarRecords, Titled
    <2>. QED
      BY <1>32, <2>1, <2>2 DEF CurrentDeleted
  <1>33. ASSUME NEW t \in Tasks, DeleteFailed(t)
        PROVE  SidebarTypeOK'
    BY <1>33, TasksAreRecords DEF DeleteFailed, Done, BarRecords
  <1>34. ASSUME NEW t \in Tasks, BranchesArrive(t)
        PROVE  SidebarTypeOK'
    BY ZenonT(40), <1>34, TasksAreRecords DEF BranchesArrive, Done, BarRecords, Branches
  <1>35. ASSUME NEW t \in Tasks, BranchesFail(t)
        PROVE  SidebarTypeOK'
    BY <1>35, TasksAreRecords DEF BranchesFail, Done, BarRecords
  <1>36. ASSUME NEW t \in Tasks, NewChatMade(t)
        PROVE  SidebarTypeOK'
    <2>1. CASE LeavePage
      BY <2>1, LeavingPageKeepsTypes
    <2>2. CASE /\ bar' = [bar EXCEPT !.creating = FALSE]
               /\ Done(t)
               /\ UNCHANGED crossed
      BY <2>2, TasksAreRecords DEF Done, BarRecords, Titled
    <2>. QED
      BY <1>36, <2>1, <2>2 DEF NewChatMade
  <1>37. ASSUME NEW t \in Tasks, NewChatFails(t)
        PROVE  SidebarTypeOK'
    BY <1>37, TasksAreRecords DEF NewChatFails, Done, BarRecords
  <1>. QED
    BY <1>1, <1>2, <1>3, <1>4, <1>5, <1>6, <1>7, <1>8, <1>9, <1>10, <1>11,
       <1>12, <1>13, <1>14, <1>15, <1>16, <1>17, <1>18, <1>19, <1>20, <1>21,
       <1>22, <1>23, <1>24, <1>25, <1>26, <1>27, <1>28, <1>29, <1>30, <1>31,
       <1>32, <1>33, <1>34, <1>35, <1>36, <1>37
       DEF SidebarNext, Answers

(* What a reply does to the tasks.                                         *)
LEMMA ReplyFields ==
  ASSUME SidebarTypeOK, NEW t \in Tasks, NEW ok, NEW items, Reply(t, ok, items),
         task[t].stage \in {"sent", "unheard"}
  PROVE  /\ \A u \in Tasks \ {t} : task'[u] = task[u]
         /\ task[t].stage = "unheard" => task'[t] = NoTask
         /\ task[t].stage = "sent" =>
              /\ task'[t].stage = "answered" /\ task'[t].kind = task[t].kind
              /\ task'[t].on = task[t].on /\ task'[t].text = task[t].text
              /\ task'[t].ok = ok /\ task'[t].items = items
  BY DEF Reply, SidebarTypeOK, TaskRecords

(* What a request asks.                                                    *)
LEMMA QuestionFields ==
  /\ NoTask.stage = "idle" /\ NoTask.kind = "list"
  /\ \A kind, s : Asked(kind, s).stage = "sent" /\ Asked(kind, s).kind = kind
                  /\ Asked(kind, s).on = s
  /\ \A kind, s, title :
       /\ [Asked(kind, s) EXCEPT !.text = title].stage = "sent"
       /\ [Asked(kind, s) EXCEPT !.text = title].kind = kind
       /\ [Asked(kind, s) EXCEPT !.text = title].on = s
  BY DEF NoTask, Asked

(* What the type says of the sidebar.                                      *)
LEMMA BarFields ==
  ASSUME SidebarTypeOK
  PROVE  /\ bar.open \in BOOLEAN /\ bar.loaded \in BOOLEAN /\ bar.items \in Titled
         /\ bar.saving \in Chats \cup {NoSession} /\ bar.renaming \in Chats \cup {NoSession}
  BY DEF SidebarTypeOK, BarRecords

(* Who leaves the page hears nothing any more.                             *)
LEMMA LeavingPageFields ==
  ASSUME LeavePage
  PROVE  /\ bar'.open = FALSE /\ bar'.saving = NoSession /\ bar'.loaded = FALSE
         /\ \A t \in Tasks : task'[t].stage \in {"idle", "unheard"}
         /\ chat' = chat /\ crossed' = crossed
  BY DEF LeavePage, NewSidebar, NoTask

(* The sidebar begins empty.                                               *)
LEMMA NewSidebarFields ==
  /\ NewSidebar.open = TRUE /\ NewSidebar.loaded = FALSE
  /\ NewSidebar.saving = NoSession
  /\ [NewSidebar EXCEPT !.open = FALSE].open = FALSE
  /\ [NewSidebar EXCEPT !.open = FALSE].busy = FALSE
  /\ [NewSidebar EXCEPT !.open = FALSE].dialog = FALSE
  /\ [NewSidebar EXCEPT !.open = FALSE].saving = NoSession
  BY DEF NewSidebar

LEMMA NobodyStillWaits ==
  ASSUME SidebarTypeOK, NobodyWaits, [SidebarNext]_sidebarVars
  PROVE  NobodyWaits'
  <1>1. CASE UNCHANGED sidebarVars
    BY <1>1 DEF sidebarVars, NobodyWaits
  <1>2. CASE LeavePage
    BY <1>2, LeavingPageFields DEF LeavePage, NobodyWaits
  <1>3. CASE ChatBusy
    BY <1>3, QuestionFields, NewSidebarFields, BarFields
       DEF ChatBusy, OnPage, SidebarTypeOK, BarRecords, NobodyWaits
  <1>4. CASE ChatIdle
    BY <1>4, QuestionFields, NewSidebarFields, BarFields
       DEF ChatIdle, OnPage, SidebarTypeOK, BarRecords, NobodyWaits
  <1>5. CASE CancelNewChat
    BY <1>5, QuestionFields, NewSidebarFields, BarFields
       DEF CancelNewChat, OnPage, WithoutDialog, SidebarTypeOK, BarRecords,
           NobodyWaits
  <1>6. ASSUME NEW b \in Branches \cup {"none"}, ChooseBranch(b)
        PROVE  NobodyWaits'
    BY <1>6, QuestionFields, NewSidebarFields, BarFields
       DEF ChooseBranch, OnPage, SidebarTypeOK, BarRecords, NobodyWaits
  <1>7. ASSUME NEW s \in Chats, BeginRename(s)
        PROVE  NobodyWaits'
    BY <1>7, QuestionFields, NewSidebarFields, BarFields
       DEF BeginRename, OnPage, ListShown, RowShown, Plain, RenameOffered,
           SidebarTypeOK, BarRecords, NobodyWaits
  <1>8. ASSUME NEW s \in Chats, NEW title \in Titles \cup {"none"}, TypeTitle(s, title)
        PROVE  NobodyWaits'
    BY <1>8, QuestionFields, NewSidebarFields, BarFields
       DEF TypeTitle, OnPage, ListShown, RowShown, Form, SidebarTypeOK,
           BarRecords, NobodyWaits
  <1>9. ASSUME NEW s \in Chats, CancelRename(s)
        PROVE  NobodyWaits'
    BY <1>9, QuestionFields, NewSidebarFields, BarFields
       DEF CancelRename, OnPage, ListShown, RowShown, Form, SidebarTypeOK,
           BarRecords, NobodyWaits
  <1>10. ASSUME NEW s \in Chats, ElsewhereChanged(s)
        PROVE  NobodyWaits'
    BY <1>10, QuestionFields, NewSidebarFields, BarFields
       DEF ElsewhereChanged, SidebarTypeOK, BarRecords, NobodyWaits
  <1>11. ASSUME NEW t \in Tasks, OpenPage(t)
        PROVE  NobodyWaits'
    BY <1>11, NewSidebarFields DEF OpenPage, NobodyWaits
  <1>12. ASSUME NEW t \in Tasks, ChatActed(t)
        PROVE  NobodyWaits'
    BY <1>12, QuestionFields, NewSidebarFields, BarFields
       DEF ChatActed, Refresh, IdleTask, SidebarTypeOK, BarRecords,
           NobodyWaits
  <1>13. ASSUME NEW t \in Tasks, BeginNewChat(t)
        PROVE  NobodyWaits'
    BY <1>13, QuestionFields, NewSidebarFields, BarFields
       DEF BeginNewChat, Begin, IdleTask, WithDialog, NewChatOffered,
           SidebarTypeOK, BarRecords, NobodyWaits
  <1>14. ASSUME NEW t \in Tasks, SubmitNewChat(t)
        PROVE  NobodyWaits'
    BY <1>14, QuestionFields, NewSidebarFields, BarFields
       DEF SubmitNewChat, Begin, IdleTask, SubmitOffered, SidebarTypeOK,
           BarRecords, NobodyWaits
  <1>15. ASSUME NEW t \in Tasks, NEW s \in Chats, CommitRename(t, s)
        PROVE  NobodyWaits'
    BY <1>15, QuestionFields, NewSidebarFields, BarFields
       DEF CommitRename, Begin, OnPage, IdleTask, ListShown, RowShown, Form,
           SidebarTypeOK, BarRecords, NobodyWaits
  <1>16. ASSUME NEW t \in Tasks, NEW s \in Chats, DeleteSession(t, s)
        PROVE  NobodyWaits'
    BY <1>16, QuestionFields, NewSidebarFields, BarFields
       DEF DeleteSession, Begin, IdleTask, ListShown, RowShown, Plain,
           DeleteOffered, SidebarTypeOK, BarRecords, NobodyWaits
  <1>17. ASSUME NEW t \in Tasks, NEW s \in Chats, ServeNewChat(t, s)
        PROVE  NobodyWaits'
    <2>1. /\ \A u \in Tasks \ {t} : task'[u] = task[u]
          /\ task[t].stage = "unheard" => task'[t].stage = "idle"
          /\ task[t].stage \in {"sent", "unheard"}
          /\ bar' = bar
      BY <1>17, ReplyFields, QuestionFields DEF ServeNewChat, Arrived
    <2>. QED
      BY <2>1 DEF NobodyWaits
  <1>18. ASSUME NEW t \in Tasks, ServeListing(t)
        PROVE  NobodyWaits'
    <2>1. /\ \A u \in Tasks \ {t} : task'[u] = task[u]
          /\ task[t].stage = "unheard" => task'[t].stage = "idle"
          /\ task[t].stage \in {"sent", "unheard"}
          /\ bar' = bar
      BY <1>18, ReplyFields, QuestionFields DEF ServeListing, Arrived
    <2>. QED
      BY <2>1 DEF NobodyWaits
  <1>19. ASSUME NEW t \in Tasks, ServeLoad(t)
        PROVE  NobodyWaits'
    <2>1. /\ \A u \in Tasks \ {t} : task'[u] = task[u]
          /\ task[t].stage = "unheard" => task'[t].stage = "idle"
          /\ task[t].stage \in {"sent", "unheard"}
          /\ bar' = bar
      BY <1>19, ReplyFields, QuestionFields DEF ServeLoad, Arrived
    <2>. QED
      BY <2>1 DEF NobodyWaits
  <1>20. ASSUME NEW t \in Tasks, ServeRename(t)
        PROVE  NobodyWaits'
    <2>1. /\ \A u \in Tasks \ {t} : task'[u] = task[u]
          /\ task[t].stage = "unheard" => task'[t].stage = "idle"
          /\ task[t].stage \in {"sent", "unheard"}
          /\ bar' = bar
      BY <1>20, ReplyFields, QuestionFields DEF ServeRename, Arrived
    <2>. QED
      BY <2>1 DEF NobodyWaits
  <1>21. ASSUME NEW t \in Tasks, ServeSessionDelete(t)
        PROVE  NobodyWaits'
    <2>1. /\ \A u \in Tasks \ {t} : task'[u] = task[u]
          /\ task[t].stage = "unheard" => task'[t].stage = "idle"
          /\ task[t].stage \in {"sent", "unheard"}
          /\ bar' = bar
      BY <1>21, ReplyFields, QuestionFields DEF ServeSessionDelete, Arrived
    <2>. QED
      BY <2>1 DEF NobodyWaits
  <1>22. ASSUME NEW t \in Tasks, ServeBranchList(t)
        PROVE  NobodyWaits'
    <2>1. /\ \A u \in Tasks \ {t} : task'[u] = task[u]
          /\ task[t].stage = "unheard" => task'[t].stage = "idle"
          /\ task[t].stage \in {"sent", "unheard"}
          /\ bar' = bar
      BY <1>22, ReplyFields, QuestionFields DEF ServeBranchList, Arrived
    <2>. QED
      BY <2>1 DEF NobodyWaits
  <1>23. ASSUME NEW t \in Tasks, RefuseTask(t)
        PROVE  NobodyWaits'
    <2>1. /\ \A u \in Tasks \ {t} : task'[u] = task[u]
          /\ task[t].stage = "unheard" => task'[t].stage = "idle"
          /\ task[t].stage \in {"sent", "unheard"}
          /\ bar' = bar
      BY <1>23, ReplyFields, QuestionFields DEF RefuseTask, Arrived
    <2>. QED
      BY <2>1 DEF NobodyWaits
  <1>24. ASSUME NEW t \in Tasks, LoseReply(t)
        PROVE  NobodyWaits'
    BY <1>24, QuestionFields, NewSidebarFields, BarFields
       DEF LoseReply, SidebarTypeOK, BarRecords, NobodyWaits
  <1>25. ASSUME NEW t \in Tasks, Loaded(t)
        PROVE  NobodyWaits'
    BY <1>25, QuestionFields, NewSidebarFields, BarFields
       DEF Loaded, Refresh, Heard, SidebarTypeOK, BarRecords, NobodyWaits
  <1>26. ASSUME NEW t \in Tasks, LoadFailed(t)
        PROVE  NobodyWaits'
    BY <1>26, QuestionFields, NewSidebarFields, BarFields
       DEF LoadFailed, Done, Heard, SidebarTypeOK, BarRecords, NobodyWaits
  <1>27. ASSUME NEW t \in Tasks, ListArrives(t)
        PROVE  NobodyWaits'
    BY <1>27, QuestionFields, NewSidebarFields, BarFields
       DEF ListArrives, Done, Heard, AfterList, SidebarTypeOK, BarRecords,
           NobodyWaits
  <1>28. ASSUME NEW t \in Tasks, ListFails(t)
        PROVE  NobodyWaits'
    BY <1>28, QuestionFields, NewSidebarFields, BarFields
       DEF ListFails, Done, Heard, AfterList, SidebarTypeOK, BarRecords,
           NobodyWaits
  <1>29. ASSUME NEW t \in Tasks, Renamed(t)
        PROVE  NobodyWaits'
    BY <1>29, QuestionFields, NewSidebarFields, BarFields
       DEF Renamed, Done, Heard, SidebarTypeOK, BarRecords, NobodyWaits
  <1>30. ASSUME NEW t \in Tasks, RenameFailed(t)
        PROVE  NobodyWaits'
    BY <1>30, QuestionFields, NewSidebarFields, BarFields
       DEF RenameFailed, Done, Heard, SidebarTypeOK, BarRecords, NobodyWaits
  <1>31. ASSUME NEW t \in Tasks, OtherDeleted(t)
        PROVE  NobodyWaits'
    BY <1>31, QuestionFields, NewSidebarFields, BarFields
       DEF OtherDeleted, Refresh, Heard, SidebarTypeOK, BarRecords,
           NobodyWaits
  <1>32. ASSUME NEW t \in Tasks, CurrentDeleted(t)
        PROVE  NobodyWaits'
    <2>1. CASE LeavePage
      BY <2>1, LeavingPageFields DEF LeavePage, NobodyWaits
    <2>2. CASE ~LeavePage
      BY <1>32, <2>2, BarFields, QuestionFields
         DEF CurrentDeleted, Heard, Done, SidebarTypeOK, BarRecords,
             NobodyWaits
    <2>. QED
      BY <2>1, <2>2
  <1>33. ASSUME NEW t \in Tasks, DeleteFailed(t)
        PROVE  NobodyWaits'
    BY <1>33, QuestionFields, NewSidebarFields, BarFields
       DEF DeleteFailed, Done, Heard, SidebarTypeOK, BarRecords, NobodyWaits
  <1>34. ASSUME NEW t \in Tasks, BranchesArrive(t)
        PROVE  NobodyWaits'
    BY <1>34, QuestionFields, NewSidebarFields, BarFields
       DEF BranchesArrive, Done, Heard, SidebarTypeOK, BarRecords, NobodyWaits
  <1>35. ASSUME NEW t \in Tasks, BranchesFail(t)
        PROVE  NobodyWaits'
    BY <1>35, QuestionFields, NewSidebarFields, BarFields
       DEF BranchesFail, Done, Heard, SidebarTypeOK, BarRecords, NobodyWaits
  <1>36. ASSUME NEW t \in Tasks, NewChatMade(t)
        PROVE  NobodyWaits'
    <2>1. CASE LeavePage
      BY <2>1, LeavingPageFields DEF LeavePage, NobodyWaits
    <2>2. CASE ~LeavePage
      BY <1>36, <2>2, BarFields, QuestionFields
         DEF NewChatMade, Heard, Done, SidebarTypeOK, BarRecords, NobodyWaits
    <2>. QED
      BY <2>1, <2>2
  <1>37. ASSUME NEW t \in Tasks, NewChatFails(t)
        PROVE  NobodyWaits'
    BY <1>37, QuestionFields, NewSidebarFields, BarFields
       DEF NewChatFails, Done, Heard, SidebarTypeOK, BarRecords, NobodyWaits
  <1>. QED
    BY <1>1, <1>2, <1>3, <1>4, <1>5, <1>6, <1>7, <1>8, <1>9, <1>10, <1>11,
       <1>12, <1>13, <1>14, <1>15, <1>16, <1>17, <1>18, <1>19, <1>20, <1>21,
       <1>22, <1>23, <1>24, <1>25, <1>26, <1>27, <1>28, <1>29, <1>30, <1>31,
       <1>32, <1>33, <1>34, <1>35, <1>36, <1>37
       DEF SidebarNext, Answers

(* The page goes on renaming one session at a time.                        *)
LEMMA OneRenameAtATime ==
  ASSUME SidebarTypeOK, NobodyWaits, OneRename, [SidebarNext]_sidebarVars
  PROVE  OneRename'
  <1>1. CASE UNCHANGED sidebarVars
    BY <1>1 DEF sidebarVars, OneRename, RenameUnderWay
  <1>2. CASE LeavePage
    BY <1>2, LeavingPageFields DEF OneRename, RenameUnderWay
  <1>3. CASE ChatBusy
    BY <1>3, QuestionFields, TaskFields, BarFields, SidebarAssumption
       DEF ChatBusy, OnPage, SidebarTypeOK, BarRecords, OneRename,
           RenameUnderWay
  <1>4. CASE ChatIdle
    BY <1>4, QuestionFields, TaskFields, BarFields, SidebarAssumption
       DEF ChatIdle, OnPage, SidebarTypeOK, BarRecords, OneRename,
           RenameUnderWay
  <1>5. CASE CancelNewChat
    BY <1>5, QuestionFields, TaskFields, BarFields, SidebarAssumption
       DEF CancelNewChat, OnPage, WithoutDialog, SidebarTypeOK, BarRecords,
           OneRename, RenameUnderWay
  <1>6. ASSUME NEW b \in Branches \cup {"none"}, ChooseBranch(b)
        PROVE  OneRename'
    BY <1>6, QuestionFields, TaskFields, BarFields, SidebarAssumption
       DEF ChooseBranch, OnPage, SidebarTypeOK, BarRecords, OneRename,
           RenameUnderWay
  <1>7. ASSUME NEW s \in Chats, BeginRename(s)
        PROVE  OneRename'
    BY <1>7, QuestionFields, TaskFields, BarFields, SidebarAssumption
       DEF BeginRename, OnPage, ListShown, RowShown, Plain, RenameOffered,
           SidebarTypeOK, BarRecords, OneRename, RenameUnderWay
  <1>8. ASSUME NEW s \in Chats, NEW title \in Titles \cup {"none"}, TypeTitle(s, title)
        PROVE  OneRename'
    BY <1>8, QuestionFields, TaskFields, BarFields, SidebarAssumption
       DEF TypeTitle, OnPage, ListShown, RowShown, Form, SidebarTypeOK,
           BarRecords, OneRename, RenameUnderWay
  <1>9. ASSUME NEW s \in Chats, CancelRename(s)
        PROVE  OneRename'
    BY <1>9, QuestionFields, TaskFields, BarFields, SidebarAssumption
       DEF CancelRename, OnPage, ListShown, RowShown, Form, SidebarTypeOK,
           BarRecords, OneRename, RenameUnderWay
  <1>10. ASSUME NEW s \in Chats, ElsewhereChanged(s)
        PROVE  OneRename'
    BY <1>10, QuestionFields, TaskFields, BarFields, SidebarAssumption
       DEF ElsewhereChanged, SidebarTypeOK, BarRecords, OneRename,
           RenameUnderWay
  <1>11. ASSUME NEW t \in Tasks, OpenPage(t)
        PROVE  OneRename'
    BY <1>11, NewSidebarFields, QuestionFields
       DEF OpenPage, NobodyWaits, SidebarTypeOK, OneRename, RenameUnderWay
  <1>12. ASSUME NEW t \in Tasks, ChatActed(t)
        PROVE  OneRename'
    BY <1>12, QuestionFields, TaskFields, BarFields, SidebarAssumption
       DEF ChatActed, Refresh, IdleTask, SidebarTypeOK, BarRecords, OneRename,
           RenameUnderWay
  <1>13. ASSUME NEW t \in Tasks, BeginNewChat(t)
        PROVE  OneRename'
    BY <1>13, QuestionFields, TaskFields, BarFields, SidebarAssumption
       DEF BeginNewChat, Begin, IdleTask, WithDialog, NewChatOffered,
           SidebarTypeOK, BarRecords, OneRename, RenameUnderWay
  <1>14. ASSUME NEW t \in Tasks, SubmitNewChat(t)
        PROVE  OneRename'
    BY <1>14, QuestionFields, TaskFields, BarFields, SidebarAssumption
       DEF SubmitNewChat, Begin, IdleTask, SubmitOffered, SidebarTypeOK,
           BarRecords, OneRename, RenameUnderWay
  <1>15. ASSUME NEW t \in Tasks, NEW s \in Chats, CommitRename(t, s)
        PROVE  OneRename'
    <2>1. CASE bar.draft = "none"
      BY <1>15, <2>1
         DEF CommitRename, Form, OnPage, SidebarTypeOK, BarRecords, OneRename,
             RenameUnderWay
    <2>2. CASE bar.draft # "none"
      <3>1. task' = [task EXCEPT ![t] = [Asked("rename", s) EXCEPT !.text = bar.draft]]
        BY <1>15, <2>2 DEF CommitRename, Begin
      <3>2. /\ \A u \in Tasks \ {t} : task'[u] = task[u]
            /\ task'[t].stage = "sent" /\ task'[t].on = s
        BY <3>1 DEF Asked, NoTask, SidebarTypeOK
      <3>3. bar.renaming = s /\ bar.saving # s /\ bar' = [bar EXCEPT !.saving = s]
        BY <1>15, <2>2 DEF CommitRename, Form
      <3>4. bar'.saving = s /\ bar'.renaming = s
        BY <3>3 DEF SidebarTypeOK, BarRecords
      <3>5. \A u \in Tasks : ~RenameUnderWay(u)
        BY <3>3, TaskFields, SidebarAssumption DEF OneRename, RenameUnderWay
      <3>. QED
        BY <3>2, <3>4, <3>5 DEF OneRename, RenameUnderWay
    <2>. QED
      BY <2>1, <2>2
  <1>16. ASSUME NEW t \in Tasks, NEW s \in Chats, DeleteSession(t, s)
        PROVE  OneRename'
    BY <1>16, QuestionFields, TaskFields, BarFields, SidebarAssumption
       DEF DeleteSession, Begin, IdleTask, ListShown, RowShown, Plain,
           DeleteOffered, SidebarTypeOK, BarRecords, OneRename, RenameUnderWay
  <1>17. ASSUME NEW t \in Tasks, NEW s \in Chats, ServeNewChat(t, s)
        PROVE  OneRename'
    <2>1. /\ \A u \in Tasks \ {t} : task'[u] = task[u]
          /\ task'[t].stage = "idle" \/ (/\ task[t].stage = "sent" /\ task'[t].kind = task[t].kind
                                       /\ task'[t].on = task[t].on)
          /\ bar' = bar
      BY <1>17, ReplyFields, QuestionFields DEF ServeNewChat, Arrived
    <2>. QED
      BY <2>1 DEF OneRename, RenameUnderWay
  <1>18. ASSUME NEW t \in Tasks, ServeListing(t)
        PROVE  OneRename'
    <2>1. /\ \A u \in Tasks \ {t} : task'[u] = task[u]
          /\ task'[t].stage = "idle" \/ (/\ task[t].stage = "sent" /\ task'[t].kind = task[t].kind
                                       /\ task'[t].on = task[t].on)
          /\ bar' = bar
      BY <1>18, ReplyFields, QuestionFields DEF ServeListing, Arrived
    <2>. QED
      BY <2>1 DEF OneRename, RenameUnderWay
  <1>19. ASSUME NEW t \in Tasks, ServeLoad(t)
        PROVE  OneRename'
    <2>1. /\ \A u \in Tasks \ {t} : task'[u] = task[u]
          /\ task'[t].stage = "idle" \/ (/\ task[t].stage = "sent" /\ task'[t].kind = task[t].kind
                                       /\ task'[t].on = task[t].on)
          /\ bar' = bar
      BY <1>19, ReplyFields, QuestionFields DEF ServeLoad, Arrived
    <2>. QED
      BY <2>1 DEF OneRename, RenameUnderWay
  <1>20. ASSUME NEW t \in Tasks, ServeRename(t)
        PROVE  OneRename'
    <2>1. /\ \A u \in Tasks \ {t} : task'[u] = task[u]
          /\ task'[t].stage = "idle" \/ (/\ task[t].stage = "sent" /\ task'[t].kind = task[t].kind
                                       /\ task'[t].on = task[t].on)
          /\ bar' = bar
      BY <1>20, ReplyFields, QuestionFields DEF ServeRename, Arrived
    <2>. QED
      BY <2>1 DEF OneRename, RenameUnderWay
  <1>21. ASSUME NEW t \in Tasks, ServeSessionDelete(t)
        PROVE  OneRename'
    <2>1. /\ \A u \in Tasks \ {t} : task'[u] = task[u]
          /\ task'[t].stage = "idle" \/ (/\ task[t].stage = "sent" /\ task'[t].kind = task[t].kind
                                       /\ task'[t].on = task[t].on)
          /\ bar' = bar
      BY <1>21, ReplyFields, QuestionFields DEF ServeSessionDelete, Arrived
    <2>. QED
      BY <2>1 DEF OneRename, RenameUnderWay
  <1>22. ASSUME NEW t \in Tasks, ServeBranchList(t)
        PROVE  OneRename'
    <2>1. /\ \A u \in Tasks \ {t} : task'[u] = task[u]
          /\ task'[t].stage = "idle" \/ (/\ task[t].stage = "sent" /\ task'[t].kind = task[t].kind
                                       /\ task'[t].on = task[t].on)
          /\ bar' = bar
      BY <1>22, ReplyFields, QuestionFields DEF ServeBranchList, Arrived
    <2>. QED
      BY <2>1 DEF OneRename, RenameUnderWay
  <1>23. ASSUME NEW t \in Tasks, RefuseTask(t)
        PROVE  OneRename'
    <2>1. /\ \A u \in Tasks \ {t} : task'[u] = task[u]
          /\ task'[t].stage = "idle" \/ (/\ task[t].stage = "sent" /\ task'[t].kind = task[t].kind
                                       /\ task'[t].on = task[t].on)
          /\ bar' = bar
      BY <1>23, ReplyFields, QuestionFields DEF RefuseTask, Arrived
    <2>. QED
      BY <2>1 DEF OneRename, RenameUnderWay
  <1>24. ASSUME NEW t \in Tasks, LoseReply(t)
        PROVE  OneRename'
    BY <1>24, QuestionFields, TaskFields, BarFields, SidebarAssumption
       DEF LoseReply, SidebarTypeOK, BarRecords, OneRename, RenameUnderWay
  <1>25. ASSUME NEW t \in Tasks, Loaded(t)
        PROVE  OneRename'
    BY <1>25, QuestionFields, TaskFields, BarFields, SidebarAssumption
       DEF Loaded, Refresh, Heard, SidebarTypeOK, BarRecords, OneRename,
           RenameUnderWay
  <1>26. ASSUME NEW t \in Tasks, LoadFailed(t)
        PROVE  OneRename'
    BY <1>26, QuestionFields, TaskFields, BarFields, SidebarAssumption
       DEF LoadFailed, Done, Heard, SidebarTypeOK, BarRecords, OneRename,
           RenameUnderWay
  <1>27. ASSUME NEW t \in Tasks, ListArrives(t)
        PROVE  OneRename'
    BY <1>27, QuestionFields, TaskFields, BarFields, SidebarAssumption
       DEF ListArrives, Done, Heard, AfterList, SidebarTypeOK, BarRecords,
           OneRename, RenameUnderWay
  <1>28. ASSUME NEW t \in Tasks, ListFails(t)
        PROVE  OneRename'
    BY <1>28, QuestionFields, TaskFields, BarFields, SidebarAssumption
       DEF ListFails, Done, Heard, AfterList, SidebarTypeOK, BarRecords,
           OneRename, RenameUnderWay
  <1>29. ASSUME NEW t \in Tasks, Renamed(t)
        PROVE  OneRename'
    BY <1>29, QuestionFields, TaskFields, BarFields, SidebarAssumption
       DEF Renamed, Done, Heard, SidebarTypeOK, BarRecords, OneRename,
           RenameUnderWay
  <1>30. ASSUME NEW t \in Tasks, RenameFailed(t)
        PROVE  OneRename'
    BY <1>30, QuestionFields, TaskFields, BarFields, SidebarAssumption
       DEF RenameFailed, Done, Heard, SidebarTypeOK, BarRecords, OneRename,
           RenameUnderWay
  <1>31. ASSUME NEW t \in Tasks, OtherDeleted(t)
        PROVE  OneRename'
    BY <1>31, QuestionFields, TaskFields, BarFields, SidebarAssumption
       DEF OtherDeleted, Refresh, Heard, SidebarTypeOK, BarRecords, OneRename,
           RenameUnderWay
  <1>32. ASSUME NEW t \in Tasks, CurrentDeleted(t)
        PROVE  OneRename'
    <2>1. CASE LeavePage
      BY <2>1, LeavingPageFields DEF OneRename, RenameUnderWay
    <2>2. CASE /\ bar' = [bar EXCEPT !.items[Current] = "none", !.ended = TRUE,
                               !.busy = FALSE, !.deleting = NoSession]
               /\ Done(t)
               /\ crossed' = (crossed \/ SomeListUnderWay(Tasks \ {t}))
      BY <1>32, <2>2, QuestionFields
         DEF Done, Heard, CurrentDeleted, SidebarTypeOK, BarRecords,
             OneRename, RenameUnderWay
    <2>. QED
      BY <1>32, <2>1, <2>2 DEF CurrentDeleted
  <1>33. ASSUME NEW t \in Tasks, DeleteFailed(t)
        PROVE  OneRename'
    BY <1>33, QuestionFields, TaskFields, BarFields, SidebarAssumption
       DEF DeleteFailed, Done, Heard, SidebarTypeOK, BarRecords, OneRename,
           RenameUnderWay
  <1>34. ASSUME NEW t \in Tasks, BranchesArrive(t)
        PROVE  OneRename'
    BY <1>34, QuestionFields, TaskFields, BarFields, SidebarAssumption
       DEF BranchesArrive, Done, Heard, SidebarTypeOK, BarRecords, OneRename,
           RenameUnderWay
  <1>35. ASSUME NEW t \in Tasks, BranchesFail(t)
        PROVE  OneRename'
    BY <1>35, QuestionFields, TaskFields, BarFields, SidebarAssumption
       DEF BranchesFail, Done, Heard, SidebarTypeOK, BarRecords, OneRename,
           RenameUnderWay
  <1>36. ASSUME NEW t \in Tasks, NewChatMade(t)
        PROVE  OneRename'
    <2>1. CASE LeavePage
      BY <2>1, LeavingPageFields DEF OneRename, RenameUnderWay
    <2>2. CASE /\ bar' = [bar EXCEPT !.creating = FALSE]
               /\ Done(t)
               /\ UNCHANGED crossed
      BY <1>36, <2>2, QuestionFields
         DEF Done, Heard, NewChatMade, SidebarTypeOK, BarRecords, OneRename,
             RenameUnderWay
    <2>. QED
      BY <1>36, <2>1, <2>2 DEF NewChatMade
  <1>37. ASSUME NEW t \in Tasks, NewChatFails(t)
        PROVE  OneRename'
    BY <1>37, QuestionFields, TaskFields, BarFields, SidebarAssumption
       DEF NewChatFails, Done, Heard, SidebarTypeOK, BarRecords, OneRename,
           RenameUnderWay
  <1>. QED
    BY <1>1, <1>2, <1>3, <1>4, <1>5, <1>6, <1>7, <1>8, <1>9, <1>10, <1>11,
       <1>12, <1>13, <1>14, <1>15, <1>16, <1>17, <1>18, <1>19, <1>20, <1>21,
       <1>22, <1>23, <1>24, <1>25, <1>26, <1>27, <1>28, <1>29, <1>30, <1>31,
       <1>32, <1>33, <1>34, <1>35, <1>36, <1>37
       DEF SidebarNext, Answers

(* Quiet steps leave what the rows wait for as it is.                      *)
LEMMA QuietStepsTellNothing ==
  ASSUME SidebarInv, QuietStep
  PROVE  AnswersAreTrue' /\ ListsStandAlone' /\ RowsAreTold'
  <1>. USE DEF SidebarInv, QuietStep, Quiet, Tells, ListUnderWay
  <1>1. AnswersAreTrue'
    BY DEF AnswersAreTrue
  <1>2. ListsStandAlone'
    BY DEF ListsStandAlone, Listing
  <1>3. RowsAreTold'
    <2>1. ASSUME NEW s \in Chats, RowIsTold(s)
          PROVE  RowIsTold(s)'
      BY <2>1 DEF RowIsTold, Listing, Alive
    <2>. QED
      BY <2>1 DEF RowsAreTold, SomeListUnderWay
  <1>. QED
    BY <1>1, <1>2, <1>3

(* After a step that crosses a list only deletions are told.               *)
LEMMA CrossedStepsTellNothing ==
  ASSUME SidebarInv, crossed' = TRUE,
         \A s \in Chats : chat[s] = "deleted" => chat'[s] = "deleted",
         \A t \in Tasks : Tells(t, "delete")' => Tells(t, "delete") /\ task'[t].on = task[t].on
  PROVE  AnswersAreTrue' /\ ListsStandAlone' /\ RowsAreTold'
  BY TaskFields DEF SidebarInv, AnswersAreTrue, ListsStandAlone, RowsAreTold, Tells

(* Who reads the list again is told by the list.                           *)
LEMMA RefreshingTellsNothing ==
  ASSUME SidebarInv, NEW t \in Tasks, NEW kind \in Listings,
         NEW s \in Chats \cup {NoSession}, NEW p, Refresh(t, kind, s, p), UNCHANGED chat
  PROVE  AnswersAreTrue' /\ ListsStandAlone' /\ RowsAreTold'
  <1>1. /\ ListUnderWay(t)' /\ task'[t].stage = "sent"
        /\ \A u \in Tasks \ {t} : task'[u] = task[u]
        /\ ~crossed' => \A u \in Tasks \ {t} : task[u].stage = "idle"
    BY QuestionFields DEF SidebarInv, SidebarTypeOK, Refresh, ListUnderWay
  <1>. QED
    BY <1>1
       DEF SidebarInv, AnswersAreTrue, ListsStandAlone, RowsAreTold, Tells,
           ListUnderWay, SomeListUnderWay

(* A page that is gone is told nothing.                                    *)
LEMMA LeavingTellsNothing ==
  ASSUME LeavePage
  PROVE  AnswersAreTrue' /\ ListsStandAlone' /\ RowsAreTold'
  BY LeavingPageFields DEF AnswersAreTrue, ListsStandAlone, RowsAreTold, Tells, ListUnderWay

(* What will be told stays true, whatever happens.                         *)
LEMMA TellingsStayTrue ==
  ASSUME SidebarInv, [SidebarNext]_sidebarVars
  PROVE  AnswersAreTrue' /\ ListsStandAlone' /\ RowsAreTold'
  <1>1. CASE UNCHANGED sidebarVars
    BY <1>1, QuietStepsTellNothing DEF sidebarVars, QuietStep
  <1>2. CASE LeavePage
    BY <1>2, LeavingTellsNothing
  <1>3. CASE ChatBusy
    <2>1. QuietStep
      BY <1>3, QuestionFields, BarFields
         DEF ChatBusy, OnPage, SidebarInv, SidebarTypeOK, BarRecords,
             QuietStep, Quiet, Listings
    <2>. QED
      BY <2>1, QuietStepsTellNothing
  <1>4. CASE ChatIdle
    <2>1. QuietStep
      BY <1>4, QuestionFields, BarFields
         DEF ChatIdle, OnPage, SidebarInv, SidebarTypeOK, BarRecords,
             QuietStep, Quiet, Listings
    <2>. QED
      BY <2>1, QuietStepsTellNothing
  <1>5. CASE CancelNewChat
    <2>1. QuietStep
      BY <1>5, QuestionFields, BarFields
         DEF CancelNewChat, OnPage, WithoutDialog, SidebarInv, SidebarTypeOK,
             BarRecords, QuietStep, Quiet, Listings
    <2>. QED
      BY <2>1, QuietStepsTellNothing
  <1>6. ASSUME NEW b \in Branches \cup {"none"}, ChooseBranch(b)
        PROVE  AnswersAreTrue' /\ ListsStandAlone' /\ RowsAreTold'
    <2>1. QuietStep
      BY <1>6, QuestionFields, BarFields
         DEF ChooseBranch, OnPage, SidebarInv, SidebarTypeOK, BarRecords,
             QuietStep, Quiet, Listings
    <2>. QED
      BY <2>1, QuietStepsTellNothing
  <1>7. ASSUME NEW s \in Chats, BeginRename(s)
        PROVE  AnswersAreTrue' /\ ListsStandAlone' /\ RowsAreTold'
    <2>1. QuietStep
      BY <1>7, QuestionFields, BarFields
         DEF BeginRename, OnPage, ListShown, RowShown, Plain, RenameOffered,
             SidebarInv, SidebarTypeOK, BarRecords, QuietStep, Quiet, Listings
    <2>. QED
      BY <2>1, QuietStepsTellNothing
  <1>8. ASSUME NEW s \in Chats, NEW title \in Titles \cup {"none"}, TypeTitle(s, title)
        PROVE  AnswersAreTrue' /\ ListsStandAlone' /\ RowsAreTold'
    <2>1. QuietStep
      BY <1>8, QuestionFields, BarFields
         DEF TypeTitle, OnPage, ListShown, RowShown, Form, SidebarInv,
             SidebarTypeOK, BarRecords, QuietStep, Quiet, Listings
    <2>. QED
      BY <2>1, QuietStepsTellNothing
  <1>9. ASSUME NEW s \in Chats, CancelRename(s)
        PROVE  AnswersAreTrue' /\ ListsStandAlone' /\ RowsAreTold'
    <2>1. QuietStep
      BY <1>9, QuestionFields, BarFields
         DEF CancelRename, OnPage, ListShown, RowShown, Form, SidebarInv,
             SidebarTypeOK, BarRecords, QuietStep, Quiet, Listings
    <2>. QED
      BY <2>1, QuietStepsTellNothing
  <1>10. ASSUME NEW s \in Chats, ElsewhereChanged(s)
        PROVE  AnswersAreTrue' /\ ListsStandAlone' /\ RowsAreTold'
    <2>1. \A r \in Chats : chat[r] = "deleted" => chat'[r] = "deleted"
      BY <1>10, SidebarAssumption DEF ElsewhereChanged, Alive, SidebarInv, SidebarTypeOK
    <2>. QED
      BY <1>10, <2>1, CrossedStepsTellNothing DEF ElsewhereChanged, Tells
  <1>11. ASSUME NEW t \in Tasks, OpenPage(t)
        PROVE  AnswersAreTrue' /\ ListsStandAlone' /\ RowsAreTold'
    <2>1. /\ chat' = chat /\ crossed' = crossed
          /\ bar'.loaded = FALSE
          /\ \A u \in Tasks : ~ListUnderWay(u)' /\ task'[u].stage # "answered"
      BY <1>11, QuestionFields, NewSidebarFields
         DEF OpenPage, SidebarInv, SidebarTypeOK, NobodyWaits, ListUnderWay,
             Listings
    <2>. QED
      BY <2>1 DEF AnswersAreTrue, ListsStandAlone, RowsAreTold, Tells
  <1>12. ASSUME NEW t \in Tasks, ChatActed(t)
        PROVE  AnswersAreTrue' /\ ListsStandAlone' /\ RowsAreTold'
    BY <1>12, RefreshingTellsNothing DEF ChatActed, Listings
  <1>13. ASSUME NEW t \in Tasks, BeginNewChat(t)
        PROVE  AnswersAreTrue' /\ ListsStandAlone' /\ RowsAreTold'
    <2>1. /\ task[t].stage = "idle" /\ task'[t].stage = "sent" /\ task'[t].kind = "branches"
          /\ \A u \in Tasks \ {t} : task'[u] = task[u]
          /\ chat' = chat /\ crossed' = crossed
      BY <1>13, QuestionFields DEF BeginNewChat, Begin, IdleTask, SidebarInv, SidebarTypeOK
    <2>2. bar'.open = bar.open /\ bar'.loaded = bar.loaded /\ bar'.items = bar.items
      BY <1>13 DEF BeginNewChat, WithDialog, SidebarInv, SidebarTypeOK, BarRecords
    <2>3. QuietStep
      BY <2>1, <2>2 DEF QuietStep, Quiet, Listings
    <2>. QED
      BY <2>3, QuietStepsTellNothing
  <1>14. ASSUME NEW t \in Tasks, SubmitNewChat(t)
        PROVE  AnswersAreTrue' /\ ListsStandAlone' /\ RowsAreTold'
    <2>1. QuietStep
      BY <1>14, QuestionFields, BarFields
         DEF SubmitNewChat, Begin, IdleTask, SubmitOffered, SidebarInv,
             SidebarTypeOK, BarRecords, QuietStep, Quiet, Listings
    <2>. QED
      BY <2>1, QuietStepsTellNothing
  <1>15. ASSUME NEW t \in Tasks, NEW s \in Chats, CommitRename(t, s)
        PROVE  AnswersAreTrue' /\ ListsStandAlone' /\ RowsAreTold'
    <2>1. chat' = chat /\ crossed' = crossed
      BY <1>15 DEF CommitRename, Begin, OnPage
    <2>2. \A u \in Tasks : task'[u] = task[u] \/ (task[u].stage = "idle" /\ task'[u].stage = "sent" /\ task'[u].kind = "rename")
      BY ZenonT(40), <1>15 DEF CommitRename, Begin, OnPage, IdleTask, Asked, NoTask, SidebarInv, SidebarTypeOK
    <2>3. bar'.open = bar.open /\ bar'.loaded = bar.loaded /\ bar'.items = bar.items
      BY <1>15 DEF CommitRename, SidebarInv, SidebarTypeOK, BarRecords
    <2>4. QuietStep
      BY <2>1, <2>2, <2>3 DEF QuietStep, Quiet, Listings
    <2>. QED
      BY <2>4, QuietStepsTellNothing
  <1>16. ASSUME NEW t \in Tasks, NEW s \in Chats, DeleteSession(t, s)
        PROVE  AnswersAreTrue' /\ ListsStandAlone' /\ RowsAreTold'
    <2>1. /\ task[t].stage = "idle" /\ task'[t].stage = "sent" /\ task'[t].kind = "delete"
          /\ \A u \in Tasks \ {t} : task'[u] = task[u]
          /\ chat' = chat /\ crossed' = crossed
      BY <1>16, QuestionFields DEF DeleteSession, Begin, IdleTask, SidebarInv, SidebarTypeOK
    <2>2. bar'.open = bar.open /\ bar'.loaded = bar.loaded /\ bar'.items = bar.items
      BY <1>16 DEF DeleteSession, SidebarInv, SidebarTypeOK, BarRecords
    <2>3. QuietStep
      BY <2>1, <2>2 DEF QuietStep, Quiet, Listings
    <2>. QED
      BY <2>3, QuietStepsTellNothing
  <1>17. ASSUME NEW t \in Tasks, NEW s \in Chats, ServeNewChat(t, s)
        PROVE  AnswersAreTrue' /\ ListsStandAlone' /\ RowsAreTold'
    <2>1. \A r \in Chats : chat[r] = "deleted" => chat'[r] = "deleted"
      BY <1>17 DEF ServeNewChat, SidebarInv, SidebarTypeOK
    <2>2. /\ \A u \in Tasks \ {t} : task'[u] = task[u]
          /\ ~Tells(t, "delete")'
      BY <1>17, ReplyFields, QuestionFields DEF ServeNewChat, Arrived, SidebarInv, Tells
    <2>. QED
      BY <1>17, <2>1, <2>2, CrossedStepsTellNothing DEF ServeNewChat, Tells
  <1>18. ASSUME NEW t \in Tasks, ServeListing(t)
        PROVE  AnswersAreTrue' /\ ListsStandAlone' /\ RowsAreTold'
    <2>1. CASE task[t].stage = "unheard"
      <3>1. QuietStep
        BY <1>18, <2>1, ReplyFields, QuestionFields DEF ServeListing, SidebarInv, QuietStep, Quiet
      <3>. QED
        BY <3>1, QuietStepsTellNothing
    <2>2. CASE task[t].stage = "sent"
      <3>1. /\ ListUnderWay(t) /\ ListUnderWay(t)' /\ task'[t].items = Listing
            /\ task'[t].kind \notin {"rename", "delete"}
            /\ \A u \in Tasks \ {t} : task'[u] = task[u]
            /\ chat' = chat /\ crossed' = crossed /\ bar' = bar
        BY <1>18, <2>2, ReplyFields DEF ServeListing, SidebarInv, ListUnderWay, Listings
      <3>2. Listing' = Listing
        BY <3>1 DEF Listing
      <3>. QED
        BY <3>1, <3>2
           DEF SidebarInv, AnswersAreTrue, ListsStandAlone, RowsAreTold,
               Tells, ListUnderWay, SomeListUnderWay
    <2>. QED
      BY <1>18, <2>1, <2>2 DEF ServeListing
  <1>19. ASSUME NEW t \in Tasks, ServeLoad(t)
        PROVE  AnswersAreTrue' /\ ListsStandAlone' /\ RowsAreTold'
    <2>1. QuietStep
      BY <1>19, ReplyFields, QuestionFields
         DEF ServeLoad, Arrived, SidebarInv, QuietStep, Quiet, Listings
    <2>. QED
      BY <2>1, QuietStepsTellNothing
  <1>20. ASSUME NEW t \in Tasks, ServeRename(t)
        PROVE  AnswersAreTrue' /\ ListsStandAlone' /\ RowsAreTold'
    <2>1. PICK s \in Chats : s = task[t].on
      BY <1>20, TaskFields DEF ServeRename, Arrived, SidebarInv
    <2>2. /\ chat' = [chat EXCEPT ![s] = task[t].text] /\ chat[s] \in Titles /\ task[t].text \in Titles /\ bar' = bar
          /\ \A u \in Tasks \ {t} : task'[u] = task[u]
          /\ ~ListUnderWay(t) /\ ~ListUnderWay(t)' /\ ~Tells(t, "rename") /\ ~Tells(t, "delete")
      BY <1>20, <2>1, ReplyFields, QuestionFields, TaskFields
         DEF ServeRename, Arrived, Alive, SidebarInv, ListUnderWay, Listings,
             Tells
    <2>3. \/ /\ task[t].stage = "unheard" /\ task'[t].stage = "idle"
             /\ crossed' = TRUE
          \/ /\ task[t].stage = "sent" /\ task[t].kind = "rename" /\ task'[t].text = task[t].text
             /\ Tells(t, "rename")' /\ ~Tells(t, "delete")' /\ task'[t].on = s
             /\ ~crossed' => ~crossed /\ ~SomeListUnderWay(Tasks)
      BY <1>20, <2>1, <2>2, ReplyFields, QuestionFields
         DEF ServeRename, Arrived, Crosses, SomeListUnderWay, SidebarInv,
             Tells
    <2>4. \A r \in Chats : r # s => chat'[r] = chat[r] /\ Listing'[r] = Listing[r]
      BY <2>2 DEF Listing, SidebarInv, SidebarTypeOK
    <2>5. chat'[s] = task[t].text
      BY <2>2 DEF SidebarInv, SidebarTypeOK
    <2>6. AnswersAreTrue'
      BY <2>1, <2>2, <2>3, <2>4, <2>5, TaskFields, SidebarAssumption
         DEF SidebarInv, AnswersAreTrue, OneRename, RenameUnderWay, Tells
    <2>7. ListsStandAlone'
      BY <2>2, <2>3 DEF SidebarInv, ListsStandAlone, SomeListUnderWay, ListUnderWay
    <2>8. RowsAreTold'
      <3>1. SUFFICES ASSUME ~crossed', bar.open, bar.loaded
                     PROVE  \A r \in Chats : RowIsTold(r)'
        BY <2>2 DEF RowsAreTold
      <3>2. \A r \in Chats : RowIsTold(r)
        BY <2>3, <3>1 DEF SidebarInv, RowsAreTold
      <3>3. ASSUME NEW r \in Chats, r # s
            PROVE  RowIsTold(r)'
        BY <2>2, <2>4, <3>2, <3>3 DEF RowIsTold, Tells, Alive
      <3>4. RowIsTold(s)'
        BY <2>1, <2>2, <2>3, <2>5, <3>1, <3>2, SidebarAssumption
           DEF SidebarInv, AnswersAreTrue, RowIsTold, Tells, Alive, Listing
      <3>. QED
        BY <3>3, <3>4
    <2>. QED
      BY <2>6, <2>7, <2>8
  <1>21. ASSUME NEW t \in Tasks, ServeSessionDelete(t)
        PROVE  AnswersAreTrue' /\ ListsStandAlone' /\ RowsAreTold'
    <2>1. PICK s \in Chats : s = task[t].on
      BY <1>21, TaskFields DEF ServeSessionDelete, Arrived, SidebarInv
    <2>2. /\ chat' = [chat EXCEPT ![s] = "deleted"] /\ chat[s] \in Titles /\ bar' = bar
          /\ \A u \in Tasks \ {t} : task'[u] = task[u]
          /\ ~ListUnderWay(t) /\ ~ListUnderWay(t)' /\ ~Tells(t, "rename") /\ ~Tells(t, "delete")
      BY <1>21, <2>1, ReplyFields, QuestionFields, TaskFields
         DEF ServeSessionDelete, Arrived, Alive, SidebarInv, ListUnderWay,
             Listings, Tells
    <2>3. \/ /\ task[t].stage = "unheard" /\ task'[t].stage = "idle"
             /\ crossed' = TRUE
          \/ /\ task[t].stage = "sent" /\ task[t].kind = "delete" /\ task'[t].text = task[t].text
             /\ Tells(t, "delete")' /\ ~Tells(t, "rename")' /\ task'[t].on = s
             /\ ~crossed' => ~crossed /\ ~SomeListUnderWay(Tasks)
      BY <1>21, <2>1, <2>2, ReplyFields, QuestionFields
         DEF ServeSessionDelete, Arrived, Crosses, SomeListUnderWay,
             SidebarInv, Tells
    <2>4. \A r \in Chats : r # s => chat'[r] = chat[r] /\ Listing'[r] = Listing[r]
      BY <2>2 DEF Listing, SidebarInv, SidebarTypeOK
    <2>5. chat'[s] = "deleted"
      BY <2>2 DEF SidebarInv, SidebarTypeOK
    <2>6. AnswersAreTrue'
      BY <2>1, <2>2, <2>3, <2>4, <2>5, TaskFields, SidebarAssumption
         DEF SidebarInv, AnswersAreTrue, OneRename, RenameUnderWay, Tells
    <2>7. ListsStandAlone'
      BY <2>2, <2>3 DEF SidebarInv, ListsStandAlone, SomeListUnderWay, ListUnderWay
    <2>8. RowsAreTold'
      <3>1. SUFFICES ASSUME ~crossed', bar.open, bar.loaded
                     PROVE  \A r \in Chats : RowIsTold(r)'
        BY <2>2 DEF RowsAreTold
      <3>2. \A r \in Chats : RowIsTold(r)
        BY <2>3, <3>1 DEF SidebarInv, RowsAreTold
      <3>3. ASSUME NEW r \in Chats, r # s
            PROVE  RowIsTold(r)'
        BY <2>2, <2>4, <3>2, <3>3 DEF RowIsTold, Tells, Alive
      <3>4. RowIsTold(s)'
        BY <2>1, <2>2, <2>3, <2>5, <3>1, <3>2, SidebarAssumption
           DEF SidebarInv, AnswersAreTrue, RowIsTold, Tells, Alive, Listing
      <3>. QED
        BY <3>3, <3>4
    <2>. QED
      BY <2>6, <2>7, <2>8
  <1>22. ASSUME NEW t \in Tasks, ServeBranchList(t)
        PROVE  AnswersAreTrue' /\ ListsStandAlone' /\ RowsAreTold'
    <2>1. QuietStep
      BY ZenonT(40), <1>22, ReplyFields, QuestionFields
         DEF ServeBranchList, Arrived, SidebarInv, QuietStep, Quiet, Listings
    <2>. QED
      BY <2>1, QuietStepsTellNothing
  <1>23. ASSUME NEW t \in Tasks, RefuseTask(t)
        PROVE  AnswersAreTrue' /\ ListsStandAlone' /\ RowsAreTold'
    <2>1. CASE ListUnderWay(t)
      <3>1. /\ task[t].stage = "sent" /\ ListUnderWay(t)' /\ task'[t].ok = FALSE
            /\ \A u \in Tasks \ {t} : task'[u] = task[u]
        BY <1>23, <2>1, ReplyFields DEF RefuseTask, SidebarInv, ListUnderWay
      <3>. QED
        BY <1>23, <2>1, <3>1, TaskFields
           DEF RefuseTask, SidebarInv, AnswersAreTrue, ListsStandAlone,
               RowsAreTold,
           Tells, ListUnderWay, SomeListUnderWay, Listings
    <2>2. CASE ~ListUnderWay(t)
      <3>1. QuietStep
        BY ZenonT(40), <1>23, <2>2, ReplyFields, QuestionFields
           DEF RefuseTask, SidebarInv, ListUnderWay, Listings, QuietStep,
               Quiet
      <3>. QED
        BY <3>1, QuietStepsTellNothing
    <2>. QED
      BY <2>1, <2>2
  <1>24. ASSUME NEW t \in Tasks, LoseReply(t)
        PROVE  AnswersAreTrue' /\ ListsStandAlone' /\ RowsAreTold'
    <2>1. \A u \in Tasks : Tells(u, "delete")' => Tells(u, "delete") /\ task'[u].on = task[u].on
      BY <1>24 DEF LoseReply, SidebarInv, SidebarTypeOK, TaskRecords, Tells
    <2>. QED
      BY <1>24, <2>1, CrossedStepsTellNothing DEF LoseReply
  <1>25. ASSUME NEW t \in Tasks, Loaded(t)
        PROVE  AnswersAreTrue' /\ ListsStandAlone' /\ RowsAreTold'
    BY <1>25, RefreshingTellsNothing DEF Loaded, Listings
  <1>26. ASSUME NEW t \in Tasks, LoadFailed(t)
        PROVE  AnswersAreTrue' /\ ListsStandAlone' /\ RowsAreTold'
    <2>1. \A u \in Tasks : Tells(u, "delete")' => Tells(u, "delete") /\ task'[u].on = task[u].on
      BY <1>26, QuestionFields DEF LoadFailed, Done, SidebarInv, SidebarTypeOK, Tells
    <2>. QED
      BY <1>26, <2>1, CrossedStepsTellNothing DEF LoadFailed, Done
  <1>27. ASSUME NEW t \in Tasks, ListArrives(t)
        PROVE  AnswersAreTrue' /\ ListsStandAlone' /\ RowsAreTold'
    <2>1. /\ ListUnderWay(t) /\ task[t].stage = "answered" /\ task[t].ok
          /\ task'[t].stage = "idle"
          /\ \A u \in Tasks \ {t} : task'[u] = task[u]
          /\ bar'.items = task[t].items
          /\ chat' = chat /\ crossed' = crossed
      BY <1>27, QuestionFields
         DEF ListArrives, Heard, AfterList, Done, ListUnderWay, SidebarInv,
             SidebarTypeOK, BarRecords
    <2>2. Listing' = Listing
      BY <2>1 DEF Listing
    <2>. QED
      BY <2>1, <2>2
         DEF SidebarInv, AnswersAreTrue, ListsStandAlone, RowsAreTold,
             RowIsTold, Tells, ListUnderWay
  <1>28. ASSUME NEW t \in Tasks, ListFails(t)
        PROVE  AnswersAreTrue' /\ ListsStandAlone' /\ RowsAreTold'
    <2>1. \A u \in Tasks : Tells(u, "delete")' => Tells(u, "delete") /\ task'[u].on = task[u].on
      BY <1>28, QuestionFields DEF ListFails, Done, SidebarInv, SidebarTypeOK, Tells
    <2>. QED
      BY <1>28, <2>1, CrossedStepsTellNothing DEF ListFails, Done
  <1>29. ASSUME NEW t \in Tasks, Renamed(t)
        PROVE  AnswersAreTrue' /\ ListsStandAlone' /\ RowsAreTold'
    <2>1. PICK s \in Chats : s = task[t].on
      BY <1>29, TaskFields DEF Renamed, Heard, SidebarInv
    <2>2. /\ Tells(t, "rename") /\ ~ListUnderWay(t) /\ task'[t].stage = "idle"
          /\ \A u \in Tasks \ {t} : task'[u] = task[u]
          /\ chat' = chat /\ (~crossed' => ~crossed /\ ~SomeListUnderWay(Tasks))
          /\ bar'.open = bar.open /\ bar'.loaded = bar.loaded
      BY <1>29, QuestionFields, TaskFields
         DEF Renamed, Heard, Done, SidebarInv, SidebarTypeOK, BarRecords,
             Tells, ListUnderWay, SomeListUnderWay, Listings
    <2>3. /\ \A r \in Chats : r # s => bar'.items[r] = bar.items[r]
          /\ bar'.items[s] = IF bar.items[s] = "none" THEN "none" ELSE task[t].text
      BY <1>29, <2>1 DEF Renamed, SidebarInv, SidebarTypeOK, BarRecords, Titled
    <2>4. Listing' = Listing
      BY <2>2 DEF Listing
    <2>5. AnswersAreTrue' /\ ListsStandAlone'
      BY <2>2, <2>4 DEF SidebarInv, AnswersAreTrue, ListsStandAlone, Tells, ListUnderWay
    <2>6. RowsAreTold'
      <3>1. SUFFICES ASSUME ~crossed', bar.open, bar.loaded
                     PROVE  \A r \in Chats : RowIsTold(r)'
        BY <2>2 DEF RowsAreTold
      <3>2. \A r \in Chats : RowIsTold(r)
        BY <2>2, <3>1 DEF SidebarInv, RowsAreTold
      <3>3. ASSUME NEW r \in Chats, r # s
            PROVE  RowIsTold(r)'
        BY <2>1, <2>2, <2>3, <2>4, <3>2, <3>3 DEF RowIsTold, Tells, Alive
      <3>4. RowIsTold(s)'
        BY <2>1, <2>2, <2>3, <2>4, <3>1, <3>2, SidebarAssumption, TaskFields
           DEF SidebarInv, AnswersAreTrue, RowIsTold, Tells, Alive, Listing
      <3>. QED
        BY <3>3, <3>4
    <2>. QED
      BY <2>5, <2>6
  <1>30. ASSUME NEW t \in Tasks, RenameFailed(t)
        PROVE  AnswersAreTrue' /\ ListsStandAlone' /\ RowsAreTold'
    <2>1. QuietStep
      BY <1>30, QuestionFields, BarFields
         DEF RenameFailed, Done, Heard, SidebarInv, SidebarTypeOK, BarRecords,
             QuietStep, Quiet, Listings
    <2>. QED
      BY <2>1, QuietStepsTellNothing
  <1>31. ASSUME NEW t \in Tasks, OtherDeleted(t)
        PROVE  AnswersAreTrue' /\ ListsStandAlone' /\ RowsAreTold'
    BY <1>31, RefreshingTellsNothing, TaskFields DEF OtherDeleted, Heard, Listings, SidebarInv
  <1>32. ASSUME NEW t \in Tasks, CurrentDeleted(t)
        PROVE  AnswersAreTrue' /\ ListsStandAlone' /\ RowsAreTold'
    <2>1. CASE LeavePage
      BY <2>1, LeavingTellsNothing
    <2>2. CASE /\ bar' = [bar EXCEPT !.items[Current] = "none", !.ended = TRUE,
                               !.busy = FALSE, !.deleting = NoSession]
               /\ Done(t)
               /\ crossed' = (crossed \/ SomeListUnderWay(Tasks \ {t}))
      <3>1. Current \in Chats /\ task[t].on = Current
        BY <1>32, SidebarAssumption DEF CurrentDeleted, Heard, SidebarInv
      <3>2. /\ Tells(t, "delete") /\ ~ListUnderWay(t) /\ task'[t].stage = "idle"
            /\ \A u \in Tasks \ {t} : task'[u] = task[u]
            /\ chat' = chat /\ (~crossed' => ~crossed /\ ~SomeListUnderWay(Tasks))
            /\ bar'.open = bar.open /\ bar'.loaded = bar.loaded
        BY <1>32, <2>2, QuestionFields, TaskFields
           DEF CurrentDeleted, Heard, Done, SidebarInv, SidebarTypeOK,
               BarRecords, Tells, ListUnderWay, SomeListUnderWay, Listings
      <3>3. /\ \A r \in Chats : r # Current => bar'.items[r] = bar.items[r]
            /\ bar'.items[Current] = "none"
        BY <2>2, <3>1 DEF SidebarInv, SidebarTypeOK, BarRecords, Titled
      <3>4. Listing' = Listing
        BY <3>2 DEF Listing
      <3>5. AnswersAreTrue' /\ ListsStandAlone'
        BY <3>2, <3>4 DEF SidebarInv, AnswersAreTrue, ListsStandAlone, Tells, ListUnderWay
      <3>6. RowsAreTold'
        <4>1. SUFFICES ASSUME ~crossed', bar.open, bar.loaded
                       PROVE  \A r \in Chats : RowIsTold(r)'
          BY <3>2 DEF RowsAreTold
        <4>2. \A r \in Chats : RowIsTold(r)
          BY <3>2, <4>1 DEF SidebarInv, RowsAreTold
        <4>3. ASSUME NEW r \in Chats, r # Current
              PROVE  RowIsTold(r)'
          BY <3>1, <3>2, <3>3, <3>4, <4>2, <4>3 DEF RowIsTold, Tells, Alive
        <4>4. RowIsTold(Current)'
          BY <3>1, <3>2, <3>3, <3>4, <4>1, <4>2, SidebarAssumption, TaskFields
             DEF SidebarInv, AnswersAreTrue, RowIsTold, Tells, Alive, Listing
        <4>. QED
          BY <4>3, <4>4
      <3>. QED
        BY <3>5, <3>6
    <2>. QED
      BY <1>32, <2>1, <2>2 DEF CurrentDeleted
  <1>33. ASSUME NEW t \in Tasks, DeleteFailed(t)
        PROVE  AnswersAreTrue' /\ ListsStandAlone' /\ RowsAreTold'
    <2>1. QuietStep
      BY <1>33, QuestionFields, BarFields
         DEF DeleteFailed, Done, Heard, SidebarInv, SidebarTypeOK, BarRecords,
             QuietStep, Quiet, Listings
    <2>. QED
      BY <2>1, QuietStepsTellNothing
  <1>34. ASSUME NEW t \in Tasks, BranchesArrive(t)
        PROVE  AnswersAreTrue' /\ ListsStandAlone' /\ RowsAreTold'
    <2>1. QuietStep
      BY <1>34, QuestionFields, BarFields
         DEF BranchesArrive, Done, Heard, SidebarInv, SidebarTypeOK,
             BarRecords, QuietStep, Quiet, Listings
    <2>. QED
      BY <2>1, QuietStepsTellNothing
  <1>35. ASSUME NEW t \in Tasks, BranchesFail(t)
        PROVE  AnswersAreTrue' /\ ListsStandAlone' /\ RowsAreTold'
    <2>1. QuietStep
      BY <1>35, QuestionFields, BarFields
         DEF BranchesFail, Done, Heard, SidebarInv, SidebarTypeOK, BarRecords,
             QuietStep, Quiet, Listings
    <2>. QED
      BY <2>1, QuietStepsTellNothing
  <1>36. ASSUME NEW t \in Tasks, NewChatMade(t)
        PROVE  AnswersAreTrue' /\ ListsStandAlone' /\ RowsAreTold'
    <2>1. CASE LeavePage
      BY <2>1, LeavingTellsNothing
    <2>2. CASE /\ bar' = [bar EXCEPT !.creating = FALSE]
               /\ Done(t)
               /\ UNCHANGED crossed
      <3>1. QuietStep
        BY <1>36, <2>2, QuestionFields
           DEF NewChatMade, Heard, Done, SidebarInv, SidebarTypeOK,
               BarRecords, QuietStep, Quiet, Listings
      <3>. QED
        BY <3>1, QuietStepsTellNothing
    <2>. QED
      BY <1>36, <2>1, <2>2 DEF NewChatMade
  <1>37. ASSUME NEW t \in Tasks, NewChatFails(t)
        PROVE  AnswersAreTrue' /\ ListsStandAlone' /\ RowsAreTold'
    <2>1. QuietStep
      BY <1>37, QuestionFields, BarFields
         DEF NewChatFails, Done, Heard, SidebarInv, SidebarTypeOK, BarRecords,
             QuietStep, Quiet, Listings
    <2>. QED
      BY <2>1, QuietStepsTellNothing
  <1>. QED
    BY <1>1, <1>2, <1>3, <1>4, <1>5, <1>6, <1>7, <1>8, <1>9, <1>10, <1>11,
       <1>12, <1>13, <1>14, <1>15, <1>16, <1>17, <1>18, <1>19, <1>20, <1>21,
       <1>22, <1>23, <1>24, <1>25, <1>26, <1>27, <1>28, <1>29, <1>30, <1>31,
       <1>32, <1>33, <1>34, <1>35, <1>36, <1>37
       DEF SidebarNext, Answers

LEMMA SidebarInvariant == SidebarSpec => []SidebarInv
  <1>1. SidebarInit => SidebarInv
    <2>1. SUFFICES ASSUME SidebarInit
                   PROVE  SidebarInv
      OBVIOUS
    <2>2. SidebarTypeOK
      BY <2>1, TasksAreRecords, SidebarsAreRecords DEF SidebarInit, SidebarTypeOK
    <2>3. bar.open = FALSE /\ bar.saving = NoSession /\ \A t \in Tasks : task[t].stage = "idle"
      BY <2>1, NewSidebarFields, QuestionFields DEF SidebarInit
    <2>. QED
      BY <2>1, <2>2, <2>3 DEF SidebarInit, SidebarInv, NobodyWaits, OneRename, RenameUnderWay,
         AnswersAreTrue, ListsStandAlone, RowsAreTold, Tells, ListUnderWay
  <1>2. SidebarInv /\ [SidebarNext]_sidebarVars => SidebarInv'
    <2>1. SUFFICES ASSUME SidebarInv, [SidebarNext]_sidebarVars
                   PROVE  SidebarInv'
      OBVIOUS
    <2>. QED
      BY <2>1, SidebarTypes, NobodyStillWaits, OneRenameAtATime, TellingsStayTrue DEF SidebarInv
  <1>. QED
    BY <1>1, <1>2, PTL DEF SidebarSpec

(* Once everything is answered the sidebar of the page shows the sessions  *)
(* of the workspace as the server lists them: a renamed row gets the title *)
(* that was saved, a deleted one goes, and no list overwrites either,      *)
(* unless a change crossed a list or somebody else made it.                *)
THEOREM SidebarIsCurrent == SidebarSpec => []RestingSidebarIsCurrent
  <1>1. SidebarInv => RestingSidebarIsCurrent
    <2>1. SUFFICES ASSUME SidebarInv, Settled, bar.open, bar.loaded, ~crossed
                   PROVE  bar.items = Listing
      BY DEF RestingSidebarIsCurrent
    <2>2. ~SomeListUnderWay(Tasks) /\ \A t \in Tasks : task[t].stage # "answered"
      BY <2>1 DEF Settled, IdleTask, SomeListUnderWay, ListUnderWay
    <2>3. \A s \in Chats : bar.items[s] = Listing[s]
      BY <2>1, <2>2 DEF SidebarInv, RowsAreTold, RowIsTold, Tells
    <2>. QED
      BY <2>1, <2>3, ItemsAreTitled DEF SidebarInv, Titled
  <1>. QED
    BY <1>1, SidebarInvariant, PTL

-----------------------------------------------------------------------------
(* The line that is written                                                *)

(* Only the terminal recalls lines, and only the web page sends in the     *)
(* background; a recalled line is shown as it was submitted, and the draft *)
(* is kept as it was found.                                                *)
RecallInv ==
  /\ client \in {"terminal", "web", "left"}
  /\ recall = [history |-> recall.history, index |-> recall.index, draft |-> recall.draft]
  /\ Terminal => sending = 0
  /\ ~Terminal => recall.index = 0
  /\ recall.index # 0 =>
       /\ recall.draft = begun
       /\ text = recall.history[recall.index]

(* A step that forgets the recall is harmless, whatever it does to the line.*)
LEMMA ForgettingIsHarmless ==
  ASSUME RecallInv, ResetHistoryNavigation, client' \in {client, "left"},
         client' = client \/ Terminal, UNCHANGED webVars
  PROVE  RecallInv'
  BY DEF RecallInv, ResetHistoryNavigation, NoRecall, Terminal, webVars

(* So is one that leaves the recall and what it shows as they are.         *)
LEMMA LookingOnIsHarmless ==
  ASSUME RecallInv, UNCHANGED <<client, text, historyVars, sending>>
  PROVE  RecallInv'
  BY DEF RecallInv, historyVars, Terminal

(* And in the web page, which recalls nothing, everything that leaves it   *)
(* the web page.                                                           *)
LEMMA WebRecallsNothing ==
  ASSUME RecallInv, ~Terminal, UNCHANGED <<client, historyVars>>
  PROVE  RecallInv'
  BY DEF RecallInv, historyVars, Terminal

(* A step of the recall puts the line at its new place into the input, or  *)
(* the draft.                                                              *)
LEMMA RecallsAreKept ==
  ASSUME RecallInv, Terminal, NEW index, NEW draft, Recall(index, draft),
         UNCHANGED <<client, webVars>>, index # 0 => draft = begun'
  PROVE  RecallInv'
  <1>1. /\ recall'.history = recall.history /\ recall'.index = index /\ recall'.draft = draft
        /\ recall' = [history |-> recall.history, index |-> index, draft |-> draft]
        /\ index # 0 => text' = recall.history[index]
    <2>1. recall' = [recall EXCEPT !.index = index, !.draft = draft]
      BY DEF Recall
    <2>2. recall' = [history |-> recall.history, index |-> index, draft |-> draft]
      BY <2>1 DEF RecallInv
    <2>3. index # 0 => text' = recall.history[index]
      BY DEF Recall, ReplaceInput, SetLine
    <2>. QED
      BY <2>2, <2>3
  <1>. QED
    BY <1>1 DEF RecallInv, Terminal, webVars

LEMMA RecallInvariant == ComposerSpec => []RecallInv
  <1>1. ComposerInit => RecallInv
    <2>1. SUFFICES ASSUME ComposerInit
                   PROVE  RecallInv
      OBVIOUS
    <2>2. PICK history \in Earlier : recall = NoRecall(history)
      BY <2>1 DEF ComposerInit
    <2>. QED
      BY <2>1, <2>2 DEF ComposerInit, RecallInv, NoRecall
  <1>2. RecallInv /\ [ComposerNext]_composerVars => RecallInv'
    <2>1. SUFFICES ASSUME RecallInv, [ComposerNext]_composerVars
                   PROVE  RecallInv'
      OBVIOUS
    <2>. USE <2>1
    <2>2. CASE UNCHANGED composerVars
      BY <2>2, LookingOnIsHarmless DEF composerVars, lineVars, historyVars, webVars
    <2>3. ASSUME NEW ch \in Keys, InsertChar(ch)
          PROVE  RecallInv'
      BY <2>3, ForgettingIsHarmless DEF InsertChar, Unsent
    <2>4. CASE Backspace
      BY <2>4, ForgettingIsHarmless DEF Backspace, Unsent
    <2>5. CASE MoveCursor
      BY <2>5, LookingOnIsHarmless DEF MoveCursor, Unsent, webVars
    <2>6. CASE CycleMenu
      BY <2>6, LookingOnIsHarmless DEF CycleMenu, Unsent, webVars
    <2>7. CASE DismissMenu
      BY <2>7, LookingOnIsHarmless DEF DismissMenu, Unsent, webVars
    <2>8. CASE EnterCompletes
      <3>1. CASE Terminal /\ Complete(Selected)
        BY <2>8, <3>1, ForgettingIsHarmless DEF EnterCompletes, Complete, Unsent
      <3>2. CASE Web /\ ApplyToDraft
        BY <2>8, <3>2, WebRecallsNothing DEF EnterCompletes, ApplyToDraft, Unsent, Web, Terminal
      <3>. QED
        BY <2>8, <3>1, <3>2 DEF EnterCompletes
    <2>9. CASE AskForCompletions
      <3>1. Unsent
        BY <2>9 DEF AskForCompletions
      <3>2. CASE ResetHistoryNavigation
        BY <3>1, <3>2, ForgettingIsHarmless DEF Unsent
      <3>3. CASE UNCHANGED <<text, historyVars>>
        BY <3>1, <3>3, LookingOnIsHarmless DEF Unsent, webVars
      <3>. QED
        BY <2>9, <3>2, <3>3 DEF AskForCompletions, Complete
    <2>10. CASE SubmitCurrentInput
      <3>1. Terminal /\ UNCHANGED webVars
        BY <2>10 DEF SubmitCurrentInput
      <3>2. recall'.index = 0 /\ recall' = [history |-> recall'.history, index |-> recall'.index,
                                            draft |-> recall'.draft]
        BY <2>10 DEF SubmitCurrentInput, RecordSubmittedInput, NoRecall
      <3>3. client' = client \/ client' = "left"
        BY <2>10 DEF SubmitCurrentInput, RunCommand, SubmitPrompt
      <3>. QED
        BY <3>1, <3>2, <3>3 DEF RecallInv, Terminal, webVars
    <2>11. CASE RecallPreviousInput
      <3>1. Terminal /\ UNCHANGED <<client, webVars>>
        BY <2>11 DEF RecallPreviousInput, Unsent
      <3>2. CASE recall.index = 0
        BY <2>11, <3>1, <3>2, RecallsAreKept DEF RecallPreviousInput
      <3>3. CASE recall.index # 0
        <4>1. begun' = begun /\ recall.draft = begun
          BY <2>11, <3>3 DEF RecallPreviousInput, RecallInv
        <4>2. PICK index : Recall(index, recall.draft)
          BY <2>11, <3>3 DEF RecallPreviousInput
        <4>. QED
          BY <3>1, <4>1, <4>2, RecallsAreKept
      <3>. QED
        BY <3>2, <3>3
    <2>12. CASE RecallNextInput
      <3>1. Terminal /\ UNCHANGED <<client, webVars>> /\ recall.index # 0
        BY <2>12 DEF RecallNextInput, Unsent
      <3>2. CASE Recall(0, <<>>)
        BY <3>1, <3>2, RecallsAreKept
      <3>3. CASE Recall(recall.index + 1, recall.draft) /\ begun' = begun
        BY <3>1, <3>3, RecallsAreKept DEF RecallInv
      <3>. QED
        BY <2>12, <3>2, <3>3 DEF RecallNextInput
    <2>13. CASE PickCandidate
      BY <2>13, WebRecallsNothing DEF PickCandidate, ApplyToDraft, Unsent, Web, Terminal
    <2>14. CASE SubmitDraft
      BY <2>14, WebRecallsNothing DEF SubmitDraft, Web, Terminal
    <2>15. CASE PromptAccepted
      <3>1. ~Terminal
        BY <2>15 DEF PromptAccepted, RecallInv
      <3>. QED
        BY <2>15, <3>1, WebRecallsNothing DEF PromptAccepted
    <2>16. CASE PromptRefused
      <3>1. ~Terminal
        BY <2>16 DEF PromptRefused, RecallInv
      <3>. QED
        BY <2>16, <3>1, WebRecallsNothing DEF PromptRefused
    <2>17. CASE TurnEnds
      BY <2>17, WebRecallsNothing DEF TurnEnds, Web, Terminal
    <2>18. CASE ReloadPage
      BY <2>18, WebRecallsNothing DEF ReloadPage, Web, Terminal
    <2>19. CASE OthersChangeRequests
      BY <2>19, LookingOnIsHarmless DEF OthersChangeRequests, lineVars, webVars
    <2>. QED
      BY <2>2, <2>3, <2>4, <2>5, <2>6, <2>7, <2>8, <2>9, <2>10, <2>11, <2>12, <2>13,
         <2>14, <2>15, <2>16, <2>17, <2>18, <2>19
         DEF ComposerNext, TerminalStep, WebStep, EnterSubmits, PasteLineEnd
  <1>. QED
    BY <1>1, <1>2, PTL DEF ComposerSpec

(* The line a user was writing before stepping through the earlier ones is *)
(* kept as it was, and each of them is shown as it was submitted: whatever *)
(* changes the line in between ends the stepping.                          *)
THEOREM TheDraftSurvives == ComposerSpec => []DraftsSurviveRecall
  <1>1. RecallInv => DraftsSurviveRecall
    BY DEF RecallInv, DraftsSurviveRecall
  <1>. QED
    BY <1>1, RecallInvariant, PTL

-----------------------------------------------------------------------------
(* Completions do what they say                                            *)
(*                                                                         *)
(* What a line is read as depends on where its words are; so the first     *)
(* lemmas say which words a line has, the next what is offered for which   *)
(* line and what the line becomes, and the last that the menu goes with    *)
(* the line.                                                               *)

(* A set of numbers in its order holds every one in the place that counts  *)
(* those up to it.                                                         *)
LEMMA OrderedSets ==
  ASSUME NEW S, S \subseteq Nat, IsFiniteSet(S)
  PROVE  /\ Cardinality(S) \in Nat
         /\ InOrder(S) \in [1 .. Cardinality(S) -> S]
         /\ \A n \in 1 .. Cardinality(S) :
              Cardinality({j \in S : j <= InOrder(S)[n]}) = n
  <1>. DEFINE n == Cardinality(S)
              below(b) == {c \in S : c <= b}
              rank == [b \in S |-> Cardinality(below(b))]
  <1>0. n \in Nat
    BY FS_CardinalityType
  <1>1. ASSUME NEW b \in S
        PROVE  IsFiniteSet(below(b)) /\ rank[b] \in 1..n
    <2>1. IsFiniteSet(below(b)) /\ Cardinality(below(b)) <= n
      BY FS_Subset
    <2>2. Cardinality(below(b)) \in Nat /\ Cardinality(below(b)) # 0
      <3>1. b \in below(b)
        OBVIOUS
      <3>. QED
        BY <2>1, <3>1, FS_CardinalityType, FS_EmptySet
    <2>. QED
      BY <1>0, <2>1, <2>2
  <1>2. ASSUME NEW a \in S, NEW b \in S, a < b
        PROVE  rank[a] < rank[b]
    <2>0. a \in Nat /\ b \in Nat /\ S \subseteq Nat
      OBVIOUS
    <2>1. below(a) \in SUBSET below(b) /\ b \in below(b) /\ b \notin below(a)
      <3>1. \A c \in S : c \in Nat
        BY <2>0
      <3>2. \A c \in S : c <= a => c <= b
        BY <1>2, <2>0, <3>1
      <3>3. b <= b /\ ~(b <= a)
        BY <1>2, <2>0
      <3>. QED
        BY <3>2, <3>3
    <2>2. /\ Cardinality(below(a)) <= Cardinality(below(b))
          /\ Cardinality(below(a)) # Cardinality(below(b))
      <3>. HIDE DEF below
      <3>. QED
        BY <1>1, <2>1, FS_Subset
    <2>. QED
      BY <1>1, <2>2
  <1>3. rank \in Injection(S, 1..n)
    <2>. HIDE DEF rank
    <2>1. rank \in [S -> 1..n]
      BY <1>1 DEF rank
    <2>2. ASSUME NEW a \in S, NEW b \in S, rank[a] = rank[b]
          PROVE  a = b
      <3>1. ~(rank[a] < rank[b]) /\ ~(rank[b] < rank[a])
        <4>. HIDE DEF n, below
        <4>1. rank[a] \in 1..n
          BY <1>1
        <4>2. rank[a] \in Nat
          BY <1>0, <4>1
        <4>. QED
          BY <2>2, <4>2
      <3>2. ~(a < b) /\ ~(b < a)
        BY <1>2, <3>1
      <3>3. a \in Nat /\ b \in Nat
        OBVIOUS
      <3>. QED
        BY <3>2, <3>3
    <2>. QED
      BY <2>1, <2>2 DEF Injection, IsInjective
  <1>4. rank \in Surjection(S, 1..n)
    <2>1. IsFiniteSet(1..n) /\ Cardinality(1..n) = n
      BY <1>0, FS_Interval
    <2>. QED
      BY <1>3, <2>1, FS_Injection
  <1>5. ASSUME NEW i \in 1..n
        PROVE  InOrder(S)[i] \in S /\ Cardinality(below(InOrder(S)[i])) = i
    <2>1. \E b \in S : rank[b] = i
      <3>. HIDE DEF rank
      <3>. QED
        BY <1>4 DEF Surjection
    <2>2. \E b \in S : Cardinality({c \in S : c <= b}) = i
      BY <2>1
    <2>3. InOrder(S)[i] = CHOOSE b \in S : Cardinality({c \in S : c <= b}) = i
      BY DEF InOrder
    <2>. QED
      BY <2>2, <2>3
  <1>6. InOrder(S) \in [1..n -> S]
    <2>. DEFINE place(i) == CHOOSE b \in S : Cardinality({c \in S : c <= b}) = i
    <2>1. InOrder(S) = [i \in 1..n |-> place(i)]
      BY DEF InOrder
    <2>. HIDE DEF place
    <2>2. \A i \in 1..n : InOrder(S)[i] = place(i)
      BY <2>1
    <2>3. \A i \in 1..n : place(i) \in S
      BY <1>5, <2>2
    <2>. QED
      BY <2>1, <2>3
  <1>. QED
    BY <1>0, <1>5, <1>6

(* The first is the least.                                                 *)
LEMMA LeastFirst ==
  ASSUME NEW S, S \subseteq Nat, IsFiniteSet(S), NEW i \in S, \A j \in S : i <= j
  PROVE  1 \in DOMAIN InOrder(S) /\ InOrder(S)[1] = i
  <1>1. Cardinality(S) \in Nat \ {0}
    BY OrderedSets, FS_EmptySet
  <1>2. 1 \in 1 .. Cardinality(S)
    BY <1>1
  <1>3. DOMAIN InOrder(S) = 1 .. Cardinality(S)
    BY DEF InOrder
  <1>. DEFINE x == InOrder(S)[1]
              T == {j \in S : j <= x}
  <1>4. x \in S /\ Cardinality(T) = 1
    BY <1>2, OrderedSets
  <1>5. IsFiniteSet(T) /\ x \in T /\ i \in T
    <2>1. x \in Nat /\ i <= x
      BY <1>4
    <2>. QED
      BY <1>4, <2>1, FS_Subset
  <1>6. \E y : T = {y}
    BY <1>4, <1>5, FS_Singleton
  <1>. QED
    BY <1>2, <1>3, <1>5, <1>6

(* Of two, the second is the greater.                                      *)
LEMMA GreaterSecond ==
  ASSUME NEW i \in Nat, NEW k \in Nat, i < k
  PROVE  /\ DOMAIN InOrder({i, k}) = 1 .. 2
         /\ InOrder({i, k})[1] = i /\ InOrder({i, k})[2] = k
  <1>. DEFINE S == {i, k}
  <1>1. S \subseteq Nat /\ IsFiniteSet(S) /\ Cardinality(S) = 2
    <2>1. IsFiniteSet({i}) /\ Cardinality({i}) = 1 /\ k \notin {i}
      BY FS_Singleton
    <2>2. IsFiniteSet({i} \cup {k}) /\ Cardinality({i} \cup {k}) = 1 + 1
      BY <2>1, FS_AddElement
    <2>3. S = {i} \cup {k}
      OBVIOUS
    <2>. QED
      BY <2>2, <2>3
  <1>2. InOrder(S)[1] = i
    BY <1>1, LeastFirst
  <1>3. DOMAIN InOrder(S) = 1 .. 2
    BY <1>1 DEF InOrder
  <1>4. InOrder(S)[2] \in S /\ Cardinality({j \in S : j <= InOrder(S)[2]}) = 2
    <2>. HIDE DEF S
    <2>1. 2 \in 1 .. Cardinality(S)
      BY <1>1
    <2>. QED
      BY <1>1, <2>1, OrderedSets
  <1>5. {j \in S : j <= i} = {i}
    OBVIOUS
  <1>6. Cardinality({i}) = 1
    BY FS_Singleton
  <1>. QED
    BY <1>2, <1>3, <1>4, <1>5, <1>6

(* A number alone is the first.                                            *)
LEMMA AloneInOrder ==
  ASSUME NEW i \in Nat
  PROVE  DOMAIN InOrder({i}) = 1 .. 1 /\ InOrder({i})[1] = i
  <1>1. IsFiniteSet({i}) /\ Cardinality({i}) = 1
    BY FS_Singleton
  <1>. QED
    BY <1>1, LeastFirst DEF InOrder

(* Sets of places of a line have a least and a greatest.                   *)
LEMMA ExtremePlaces ==
  ASSUME NEW n \in Nat, NEW I, I \subseteq 1 .. n, I # {}
  PROVE  /\ Min(I) \in I /\ \A i \in I : Min(I) <= i
         /\ Max(I) \in I /\ \A i \in I : i <= Max(I)
  <1>0. I \subseteq Nat /\ IsFiniteSet(I)
    <2>1. IsFiniteSet(1..n) /\ I \in SUBSET (1..n)
      BY FS_Interval
    <2>2. IsFiniteSet(I)
      BY <2>1, FS_Subset
    <2>. QED
      BY <2>2
  <1>. DEFINE m == Cardinality(I)
  <1>1. m \in Nat \ {0}
    BY <1>0, FS_CardinalityType, FS_EmptySet
  <1>2. PICK least \in I : Cardinality({j \in I : j <= least}) = 1
    <2>1. 1 \in 1..m
      BY <1>1
    <2>. QED
      BY <1>0, <2>1, OrderedSets
  <1>3. PICK most \in I : Cardinality({j \in I : j <= most}) = m
    <2>1. m \in 1..m
      BY <1>1
    <2>. QED
      BY <1>0, <2>1, OrderedSets
  <1>4. \A i \in I : least <= i
    <2>. DEFINE T == {j \in I : j <= least}
    <2>1. IsFiniteSet(T) /\ least \in T
      BY <1>0, FS_Subset
    <2>2. PICK y : T = {y}
      BY <1>2, <2>1, FS_Singleton
    <2>3. \A j \in I : j <= least => j = least
      BY <2>1, <2>2
    <2>. QED
      BY <1>0, <2>3
  <1>5. \A i \in I : i <= most
    <2>. DEFINE T == {j \in I : j <= most}
    <2>1. T = I
      BY <1>0, <1>3, FS_Subset
    <2>. QED
      BY <2>1
  <1>6. Min(I) \in I /\ \A i \in I : Min(I) <= i
    BY <1>4 DEF Min
  <1>7. Max(I) \in I /\ \A i \in I : i <= Max(I)
    <2>1. \A i \in I : most >= i
      BY <1>0, <1>5
    <2>2. Max(I) \in I /\ \A i \in I : Max(I) >= i
      BY <2>1 DEF Max
    <2>. QED
      BY <1>0, <2>2
  <1>. QED
    BY <1>6, <1>7

(* The line begins with so many blanks.                                    *)
Led(line, k) ==
  /\ k \in 0 .. Len(line)
  /\ \A i \in 1 .. k : line[i] = Blank
  /\ k < Len(line) => line[k + 1] # Blank

(* Every line begins with so many blanks.                                  *)
LEMMA LinesAreLed ==
  ASSUME NEW S, NEW line \in Seq(S)
  PROVE  \E k \in 0 .. Len(line) : Led(line, k)
  <1>. DEFINE solid == {i \in 1 .. Len(line) : line[i] # Blank}
              n == Len(line)
  <1>0. n \in Nat
    OBVIOUS
  <1>1. CASE solid = {}
    <2>1. \A i \in 1 .. n : line[i] = Blank
      BY <1>1
    <2>2. Led(line, n)
      BY <1>0, <2>1 DEF Led
    <2>. QED
      BY <1>0, <2>2
  <1>2. CASE solid # {}
    <2>1. Min(solid) \in solid /\ \A i \in solid : Min(solid) <= i
      BY <1>0, <1>2, ExtremePlaces
    <2>2. PICK first \in solid : \A i \in solid : first <= i
      BY <2>1
    <2>. DEFINE k == first - 1
    <2>3. \A i \in 1 .. k : line[i] = Blank
      BY <1>0, <2>2
    <2>4. Led(line, k) /\ k \in 0 .. n
      BY <1>0, <2>2, <2>3 DEF Led
    <2>. QED
      BY <2>4
  <1>. QED
    BY <1>1, <1>2

(* They are what trimming the start of it takes away.                      *)
LEMMA TrimmingStart ==
  ASSUME NEW S, NEW line \in Seq(S), NEW k, Led(line, k)
  PROVE  TrimStart(line) = SubSeq(line, k + 1, Len(line))
  <1>. DEFINE solid == {i \in 1 .. Len(line) : ~IsBlank(line[i])}
              n == Len(line)
  <1>0. n \in Nat /\ k \in 0 .. n
    BY DEF Led
  <1>1. SelectInSeq(line, LAMBDA ch : ~IsBlank(ch)) = IF solid # {} THEN Min(solid) ELSE 0
    BY DEF SelectInSeq
  <1>2. CASE k = n
    <2>1. solid = {}
      BY <1>2 DEF Led, IsBlank
    <2>2. SubSeq(line, k + 1, n) = <<>>
      BY <1>0, <1>2
    <2>. QED
      BY <1>1, <2>1, <2>2 DEF TrimStart
  <1>3. CASE k < n
    <2>1. k + 1 \in solid /\ \A i \in solid : k + 1 <= i
      BY <1>0, <1>3 DEF Led, IsBlank
    <2>2. Min(solid) \in solid /\ \A i \in solid : Min(solid) <= i
      BY <1>0, <2>1, ExtremePlaces
    <2>3. Min(solid) = k + 1 /\ k + 1 # 0
      BY <1>0, <2>1, <2>2
    <2>. QED
      BY <1>1, <2>1, <2>3 DEF TrimStart
  <1>. QED
    BY <1>0, <1>2, <1>3

(* The last blank of a line, or none.                                      *)
LEMMA LastBlank ==
  ASSUME NEW S, NEW line \in Seq(S), NEW p, p = SelectLastInSeq(line, IsBlank)
  PROVE  /\ p \in 0 .. Len(line)
         /\ p > 0 => line[p] = Blank
         /\ \A i \in 1 .. Len(line) : i > p => line[i] # Blank
  <1>. DEFINE blanks == {i \in 1 .. Len(line) : IsBlank(line[i])}
              n == Len(line)
  <1>0. n \in Nat
    OBVIOUS
  <1>1. p = IF blanks # {} THEN Max(blanks) ELSE 0
    BY DEF SelectLastInSeq
  <1>2. CASE blanks = {}
    <2>1. p = 0
      BY <1>1, <1>2
    <2>2. \A i \in 1 .. n : line[i] # Blank
      BY <1>2 DEF IsBlank
    <2>. QED
      BY <1>0, <2>1, <2>2
  <1>3. CASE blanks # {}
    <2>1. p \in blanks /\ \A i \in blanks : i <= p
      BY <1>0, <1>1, <1>3, ExtremePlaces
    <2>2. p \in 1 .. n /\ line[p] = Blank
      BY <2>1 DEF IsBlank
    <2>3. \A i \in 1 .. n : line[i] = Blank => i <= p
      BY <2>1 DEF IsBlank
    <2>. HIDE DEF blanks, n
    <2>4. \A i \in 1 .. n : i > p => line[i] # Blank
      BY <1>0, <2>2, <2>3
    <2>. QED
      BY <1>0, <2>2, <2>4 DEF n
  <1>. QED
    BY <1>2, <1>3

(* Of a line that does not end with a blank nothing else is trimmed.       *)
LEMMA Trimming ==
  ASSUME NEW S, NEW line \in Seq(S), NEW k, Led(line, k), k < Len(line),
         line[Len(line)] # Blank
  PROVE  Trim(line) = SubSeq(line, k + 1, Len(line))
  <1>. DEFINE solid == {i \in 1 .. Len(line) : ~IsBlank(line[i])}
              n == Len(line)
  <1>0. n \in Nat /\ n # 0
    BY DEF Led
  <1>1. n \in solid
    BY <1>0 DEF IsBlank
  <1>2. SelectLastInSeq(line, LAMBDA ch : ~IsBlank(ch)) = Max(solid)
    BY <1>1 DEF SelectLastInSeq
  <1>3. Max(solid) \in solid /\ \A i \in solid : i <= Max(solid)
    BY <1>0, <1>1, ExtremePlaces
  <1>4. Max(solid) = n
    BY <1>0, <1>1, <1>3
  <1>5. SubSeq(line, 1, n) = line
    BY <1>0
  <1>6. Trim(line) = TrimStart(line)
    BY <1>2, <1>4, <1>5 DEF Trim
  <1>. QED
    BY <1>6, TrimmingStart

(* Where the words of a line begin.                                        *)
Starts(line) == {i \in DOMAIN line : ~IsBlank(line[i]) /\ (i = 1 \/ IsBlank(line[i - 1]))}

(* A word of two characters is at this place of the line.                  *)
WordAt(line, i) ==
  /\ i \in 1 .. Len(line) /\ i + 1 \in 1 .. Len(line)
  /\ line[i] # Blank /\ line[i + 1] # Blank
  /\ i + 1 < Len(line) => line[i + 2] = Blank

(* Two characters in a row.                                                *)
LEMMA Pairs ==
  ASSUME NEW S, NEW line \in Seq(S), NEW i \in 1 .. Len(line), i + 1 \in 1 .. Len(line)
  PROVE  SubSeq(line, i, i + 1) = <<line[i], line[i + 1]>>
  <1>. DEFINE s == SubSeq(line, i, i + 1)
  <1>1. s \in Seq(S) /\ Len(s) = 2 /\ s[1] = line[i] /\ s[2] = line[i + 1]
    OBVIOUS
  <1>. HIDE DEF s
  <1>2. s = <<s[1], s[2]>>
    BY <1>1
  <1>. QED
    BY <1>1, <1>2 DEF s

(* Where a word begins, and has two characters, it is these two.           *)
LEMMA WordsAt ==
  ASSUME NEW S, NEW line \in Seq(S), NEW n \in DOMAIN InOrder(Starts(line)), NEW i,
         i = InOrder(Starts(line))[n], WordAt(line, i)
  PROVE  n \in DOMAIN Words(line) /\ Words(line)[n] = <<line[i], line[i + 1]>>
  <1>. DEFINE End(at) == CHOOSE j \in at .. Len(line) :
                           /\ \A k \in at .. j : ~IsBlank(line[k])
                           /\ j = Len(line) \/ IsBlank(line[j + 1])
  <1>1. /\ n \in DOMAIN Words(line)
        /\ Words(line)[n] = SubSeq(line, i, End(i))
    BY DEF Words, Starts
  <1>2. End(i) = i + 1
    <2>0. i \in Nat /\ Len(line) \in Nat /\ i + 1 <= Len(line)
      BY DEF WordAt
    <2>1. /\ i + 1 \in i .. Len(line)
          /\ \A k \in i .. (i + 1) : ~IsBlank(line[k])
          /\ i + 1 = Len(line) \/ IsBlank(line[(i + 1) + 1])
      BY <2>0 DEF WordAt, IsBlank
    <2>2. ASSUME NEW j \in i .. Len(line),
                 \A k \in i .. j : ~IsBlank(line[k]),
                 j = Len(line) \/ IsBlank(line[j + 1])
          PROVE  j = i + 1
      <3>1. j # i
        <4>1. line[i + 1] # Blank
          BY DEF WordAt
        <4>. QED
          BY <2>0, <2>2, <4>1 DEF IsBlank
      <3>2. ~(j > i + 1)
        <4>1. CASE j > i + 1
          <5>1. i + 2 \in i .. j /\ i + 1 < Len(line)
            BY <2>0, <4>1
          <5>2. line[i + 2] = Blank
            BY <5>1 DEF WordAt
          <5>. QED
            BY <2>2, <5>1, <5>2 DEF IsBlank
        <4>. QED
          BY <4>1
      <3>. QED
        BY <2>0, <3>1, <3>2
    <2>. QED
      BY <2>1, <2>2
  <1>. QED
    BY <1>1, <1>2, Pairs DEF WordAt

(* The first word follows the blanks.                                      *)
LEMMA FirstWord ==
  ASSUME NEW S, NEW line \in Seq(S), NEW k, Led(line, k), WordAt(line, k + 1)
  PROVE  1 \in DOMAIN Words(line) /\ Words(line)[1] = <<line[k + 1], line[k + 2]>>
  <1>. DEFINE T == Starts(line)
              n == Len(line)
  <1>0. n \in Nat /\ k \in Nat /\ k + 1 \in 1 .. n
    BY DEF Led, WordAt
  <1>1. T \subseteq 1 .. n /\ T \subseteq Nat /\ IsFiniteSet(T)
    <2>0. IsFiniteSet(1 .. n)
      BY <1>0, FS_Interval
    <2>1. IsFiniteSet(1 .. n) /\ T \in SUBSET (1 .. n)
      BY <1>0, <2>0 DEF Starts
    <2>2. IsFiniteSet(T)
      BY <2>1, FS_Subset
    <2>. QED
      BY <2>1, <2>2
  <1>2. k + 1 \in T
    <2>1. line[k + 1] # Blank
      BY DEF WordAt
    <2>2. k + 1 = 1 \/ line[(k + 1) - 1] = Blank
      BY <1>0 DEF Led
    <2>. QED
      BY <1>0, <2>1, <2>2 DEF Starts, IsBlank
  <1>3. ASSUME NEW j \in T
        PROVE  k + 1 <= j
    <2>1. j \in 1 .. n /\ line[j] # Blank
      BY DEF Starts, IsBlank
    <2>. QED
      BY <1>0, <2>1 DEF Led
  <1>4. 1 \in DOMAIN InOrder(T) /\ InOrder(T)[1] = k + 1
    <2>. HIDE DEF T
    <2>. QED
      BY <1>1, <1>2, <1>3, LeastFirst
  <1>5. (k + 1) + 1 = k + 2
    BY <1>0
  <1>. QED
    BY <1>4, <1>5, WordsAt

(* Two characters are a word.                                              *)
LEMMA OneWord ==
  ASSUME NEW S, NEW line \in Seq(S), Len(line) = 2, line[1] # Blank, line[2] # Blank
  PROVE  Len(Words(line)) = 1 /\ Words(line)[1] = line
  <1>1. Starts(line) = {1}
    BY DEF Starts, IsBlank
  <1>2. DOMAIN InOrder(Starts(line)) = 1 .. 1 /\ InOrder(Starts(line))[1] = 1
    BY <1>1, AloneInOrder
  <1>3. WordAt(line, 1)
    BY DEF WordAt
  <1>4. Words(line)[1] = <<line[1], line[2]>>
    BY <1>2, <1>3, WordsAt
  <1>5. Words(line)[1] = line
    BY <1>4
  <1>6. Len(Words(line)) = 1
    BY <1>2 DEF Words, Starts
  <1>. QED
    BY <1>5, <1>6

(* Two characters, blanks, two characters: two words.                      *)
LEMMA TwoWords ==
  ASSUME NEW S, NEW line \in Seq(S), NEW m \in Nat, m >= 3, Len(line) = m + 2,
         line[1] # Blank, line[2] # Blank, \A i \in 3 .. m : line[i] = Blank,
         line[m + 1] # Blank, line[m + 2] # Blank
  PROVE  /\ Len(Words(line)) = 2
         /\ Words(line)[1] = <<line[1], line[2]>>
         /\ Words(line)[2] = <<line[m + 1], line[m + 2]>>
  <1>1. Starts(line) = {1, m + 1}
    <2>1. \A i \in Starts(line) : i \in {1, m + 1}
      <3>. SUFFICES ASSUME NEW i \in 1 .. (m + 2), line[i] # Blank,
                           i = 1 \/ line[i - 1] = Blank
                    PROVE  i \in {1, m + 1}
        BY DEF Starts, IsBlank
      <3>1. i \notin 3 .. m
        OBVIOUS
      <3>2. i # 2
        OBVIOUS
      <3>3. i # m + 2
        <4>1. (m + 2) - 1 = m + 1 /\ m + 2 # 1
          OBVIOUS
        <4>. QED
          BY <4>1
      <3>. QED
        BY <3>1, <3>2, <3>3
    <2>2. 1 \in Starts(line)
      BY DEF Starts, IsBlank
    <2>3. m + 1 \in Starts(line)
      <3>1. m + 1 \in DOMAIN line /\ (m + 1) - 1 = m /\ m \in 3 .. m
        OBVIOUS
      <3>2. line[(m + 1) - 1] = Blank
        BY <3>1
      <3>. QED
        BY <3>1, <3>2 DEF Starts, IsBlank
    <2>. QED
      BY <2>1, <2>2, <2>3
  <1>2. /\ DOMAIN InOrder(Starts(line)) = 1 .. 2
        /\ InOrder(Starts(line))[1] = 1 /\ InOrder(Starts(line))[2] = m + 1
    BY <1>1, GreaterSecond
  <1>3. WordAt(line, 1) /\ WordAt(line, m + 1)
    BY DEF WordAt
  <1>4. /\ Words(line)[1] = <<line[1], line[1 + 1]>>
        /\ Words(line)[2] = <<line[m + 1], line[(m + 1) + 1]>>
    BY <1>2, <1>3, WordsAt
  <1>5. Len(Words(line)) = 2
    BY <1>2 DEF Words, Starts
  <1>6. 1 + 1 = 2 /\ (m + 1) + 1 = m + 2
    OBVIOUS
  <1>. QED
    BY <1>4, <1>5, <1>6

(* The first blank of a line, or none.                                     *)
LEMMA FirstBlank ==
  ASSUME NEW S, NEW line \in Seq(S), NEW f, f = SelectInSeq(line, IsBlank)
  PROVE  /\ f \in 0 .. Len(line)
         /\ f > 0 => line[f] = Blank /\ \A i \in 1 .. f - 1 : line[i] # Blank
         /\ f = 0 => \A i \in 1 .. Len(line) : line[i] # Blank
  <1>. DEFINE blanks == {i \in 1 .. Len(line) : IsBlank(line[i])}
              n == Len(line)
  <1>0. n \in Nat
    OBVIOUS
  <1>1. f = IF blanks # {} THEN Min(blanks) ELSE 0
    BY DEF SelectInSeq
  <1>2. CASE blanks = {}
    <2>1. f = 0
      BY <1>1, <1>2
    <2>2. \A i \in 1 .. n : line[i] # Blank
      BY <1>2 DEF IsBlank
    <2>. QED
      BY <1>0, <2>1, <2>2
  <1>3. CASE blanks # {}
    <2>1. f \in blanks /\ \A i \in blanks : f <= i
      BY <1>0, <1>1, <1>3, ExtremePlaces
    <2>2. f \in 1 .. n /\ line[f] = Blank
      BY <2>1 DEF IsBlank
    <2>3. \A i \in 1 .. n : line[i] = Blank => f <= i
      BY <2>1 DEF IsBlank
    <2>. HIDE DEF blanks, n
    <2>4. \A i \in 1 .. f - 1 : line[i] # Blank
      BY <1>0, <2>2, <2>3
    <2>. QED
      BY <1>0, <2>2, <2>4 DEF n
  <1>. QED
    BY <1>2, <1>3

(* What of a line is left without the blanks it begins with.               *)
LEMMA Rests ==
  ASSUME NEW S, NEW line \in Seq(S), NEW k \in 0 .. Len(line)
  PROVE  LET rest == SubSeq(line, k + 1, Len(line))
         IN  /\ rest \in Seq(S) /\ Len(rest) = Len(line) - k
             /\ \A i \in 1 .. Len(line) - k : rest[i] = line[k + i]
  OBVIOUS

(* A command is offered for a slash and letters after blanks.              *)
LEMMA CommandQueries ==
  ASSUME NEW S, NEW line \in Seq(S),
         ClassifySlashCompletionPrefix(line).kind = "command"
  PROVE  \E k \in 0 .. Len(line) - 1 :
           /\ Led(line, k)
           /\ \A i \in k + 1 .. Len(line) : line[i] # Blank
           /\ ClassifySlashCompletionPrefix(line).prefix = SubSeq(line, k + 1, Len(line))
  <1>1. PICK k \in 0 .. Len(line) : Led(line, k)
    BY LinesAreLed
  <1>2. PICK rest : rest = SubSeq(line, k + 1, Len(line))
    OBVIOUS
  <1>3. /\ rest \in Seq(S) /\ Len(rest) = Len(line) - k
        /\ \A i \in 1 .. Len(line) - k : rest[i] = line[k + i]
    BY <1>2, Rests
  <1>4. TrimStart(line) = rest
    BY <1>1, <1>2, TrimmingStart
  <1>5. PICK space : space = SelectInSeq(rest, IsBlank)
    OBVIOUS
  <1>6. /\ StartsWithSlash(rest)
        /\ ~(space > 0)
        /\ ClassifySlashCompletionPrefix(line) = CommandQuery(rest)
    BY <1>4, <1>5
    DEF ClassifySlashCompletionPrefix, ArgumentQuery, NoQuery, RequestQuery
  <1>7. \A i \in 1 .. Len(rest) : rest[i] # Blank
    BY <1>3, <1>5, <1>6, FirstBlank
  <1>8. ASSUME NEW i \in k + 1 .. Len(line)
        PROVE  line[i] # Blank
    <2>1. i - k \in 1 .. Len(line) - k /\ k + (i - k) = i
      BY <1>1
    <2>. QED
      BY <1>3, <1>7, <2>1
  <1>9. k < Len(line)
    BY <1>1, <1>3, <1>6 DEF StartsWithSlash
  <1>10. ClassifySlashCompletionPrefix(line).prefix = rest
    BY <1>6 DEF CommandQuery
  <1>. QED
    BY <1>1, <1>2, <1>8, <1>9, <1>10

(* A request is offered for what comes after a command for requests.       *)
LEMMA RequestQueries ==
  ASSUME NEW S, NEW line \in Seq(S),
         ClassifySlashCompletionPrefix(line).kind = "request"
  PROVE  \E k \in 0 .. Len(line), p \in 0 .. Len(line), c \in {"approve", "deny"} :
           /\ Led(line, k) /\ p >= k + 3
           /\ WordAt(line, k + 1) /\ <<line[k + 1], line[k + 2]>> = Name[c]
           /\ \A i \in k + 3 .. p : line[i] = Blank
           /\ \A i \in p + 1 .. Len(line) : line[i] # Blank
  <1>1. PICK k \in 0 .. Len(line) : Led(line, k)
    BY LinesAreLed
  <1>2. PICK rest : rest = SubSeq(line, k + 1, Len(line))
    OBVIOUS
  <1>3. /\ rest \in Seq(S) /\ Len(rest) = Len(line) - k
        /\ \A i \in 1 .. Len(line) - k : rest[i] = line[k + i]
    BY <1>2, Rests
  <1>4. TrimStart(line) = rest
    BY <1>1, <1>2, TrimmingStart
  <1>5. PICK space : space = SelectInSeq(rest, IsBlank)
    OBVIOUS
  <1>5a. PICK name : name = SubSeq(rest, 1, space - 1)
    OBVIOUS
  <1>5b. PICK argument : argument = TrimStart(SubSeq(rest, space + 1, Len(rest)))
    OBVIOUS
  <1>6. /\ StartsWithSlash(rest)
        /\ space > 0
        /\ \E c \in ParseSlashCommand(name) : TakesRequestId(c)
        /\ \A i \in DOMAIN argument : argument[i] # Blank
    BY <1>4, <1>5, <1>5a, <1>5b
    DEF ClassifySlashCompletionPrefix, ArgumentQuery, NoQuery, CommandQuery, IsBlank
  <1>7. PICK c \in {"approve", "deny"} : Name[c] = name
    BY <1>6 DEF ParseSlashCommand, TakesRequestId
  <1>8. /\ space \in 1 .. Len(rest) /\ rest[space] = Blank
        /\ \A i \in 1 .. space - 1 : rest[i] # Blank
    <2>1. /\ space \in 0 .. Len(rest)
          /\ space > 0 => rest[space] = Blank /\ \A i \in 1 .. space - 1 : rest[i] # Blank
      BY <1>3, <1>5, FirstBlank
    <2>2. space \in 1 .. Len(rest)
      BY <1>6, <2>1
    <2>. QED
      BY <2>1, <2>2
  <1>9. Len(name) = 2 /\ name = <<name[1], name[2]>>
    <2>1. Name["approve"] = <<Slash, "a">> /\ Name["deny"] = <<Slash, "d">>
      BY DEF Name
    <2>2. name = <<Slash, "a">> \/ name = <<Slash, "d">>
      BY <1>7, <2>1
    <2>3. CASE name = <<Slash, "a">>
      BY <2>3
    <2>4. CASE name = <<Slash, "d">>
      BY <2>4
    <2>. QED
      BY <2>2, <2>3, <2>4
  <1>10. space = 3 /\ name[1] = rest[1] /\ name[2] = rest[2]
    <2>1. Len(name) = space - 1 /\ \A i \in 1 .. space - 1 : name[i] = rest[i]
      BY <1>3, <1>8, <1>5a
    <2>2. space = 3
      BY <1>8, <1>9, <2>1
    <2>. QED
      BY <2>1, <2>2
  <1>11. PICK tail : tail = SubSeq(rest, 4, Len(rest))
    OBVIOUS
  <1>12. /\ tail \in Seq(S) /\ Len(tail) = Len(rest) - 3
         /\ \A i \in 1 .. Len(rest) - 3 : tail[i] = rest[3 + i]
    <2>1. rest \in Seq(S) /\ 3 \in 0 .. Len(rest)
      BY <1>3, <1>8, <1>10
    <2>2. LET after == SubSeq(rest, 3 + 1, Len(rest))
          IN  /\ after \in Seq(S) /\ Len(after) = Len(rest) - 3
              /\ \A i \in 1 .. Len(rest) - 3 : after[i] = rest[3 + i]
      BY <2>1, Rests
    <2>3. tail = SubSeq(rest, 3 + 1, Len(rest))
      BY <1>11
    <2>. QED
      BY <2>2, <2>3
  <1>13. PICK b \in 0 .. Len(tail) : Led(tail, b)
    BY <1>12, LinesAreLed
  <1>14. argument = SubSeq(tail, b + 1, Len(tail))
    <2>1. space + 1 = 4
      BY <1>10
    <2>2. argument = TrimStart(tail)
      BY <1>5b, <1>11, <2>1
    <2>. QED
      BY <1>12, <1>13, <2>2, TrimmingStart
  <1>15. \A i \in b + 1 .. Len(tail) : tail[i] # Blank
    <2>1. /\ argument \in Seq(S) /\ Len(argument) = Len(tail) - b
          /\ \A i \in 1 .. Len(tail) - b : argument[i] = tail[b + i]
      <3>1. tail \in Seq(S) /\ b \in 0 .. Len(tail)
        BY <1>12, <1>13
      <3>. QED
        BY <1>14, <3>1, Rests
    <2>2. ASSUME NEW i \in b + 1 .. Len(tail)
          PROVE  tail[i] # Blank
      <3>1. i - b \in 1 .. Len(tail) - b /\ b + (i - b) = i
        BY <1>12, <1>13
      <3>2. i - b \in DOMAIN argument
        BY <2>1, <3>1
      <3>. QED
        BY <1>6, <2>1, <3>1, <3>2
    <2>. QED
      BY <2>2
  <1>. DEFINE p == k + 3 + b
  <1>16. p \in 0 .. Len(line) /\ p >= k + 3 /\ Len(tail) = Len(line) - k - 3
    BY <1>1, <1>3, <1>12, <1>13, <1>8, <1>10
  <1>17. \A i \in 1 .. Len(tail) : line[k + 3 + i] = tail[i]
    <2>1. ASSUME NEW i \in 1 .. Len(tail)
          PROVE  line[k + 3 + i] = tail[i]
      <3>1. 3 + i \in 1 .. Len(line) - k /\ k + (3 + i) = k + 3 + i
        BY <1>1, <1>16
      <3>2. tail[i] = rest[3 + i]
        BY <1>12
      <3>. QED
        BY <1>3, <3>1, <3>2
    <2>. QED
      BY <2>1
  <1>18. /\ line[k + 1] = rest[1] /\ line[k + 2] = rest[2] /\ line[k + 3] = Blank
    BY <1>1, <1>3, <1>8, <1>10
  <1>19. ASSUME NEW i \in k + 3 .. p
         PROVE  line[i] = Blank
    <2>1. CASE i = k + 3
      BY <1>18, <2>1
    <2>2. CASE i # k + 3
      <3>1. i - k - 3 \in 1 .. b /\ i - k - 3 \in 1 .. Len(tail) /\ k + 3 + (i - k - 3) = i
        BY <1>1, <1>13, <1>16, <2>2
      <3>2. tail[i - k - 3] = Blank
        BY <1>13, <3>1 DEF Led
      <3>. QED
        BY <1>17, <3>1, <3>2
    <2>. QED
      BY <2>1, <2>2
  <1>20. ASSUME NEW i \in p + 1 .. Len(line)
         PROVE  line[i] # Blank
    <2>1. i - k - 3 \in b + 1 .. Len(tail) /\ i - k - 3 \in 1 .. Len(tail)
          /\ k + 3 + (i - k - 3) = i
      BY <1>1, <1>13, <1>16
    <2>. QED
      BY <1>15, <1>17, <2>1
  <1>21. <<line[k + 1], line[k + 2]>> = Name[c]
    BY <1>7, <1>9, <1>10, <1>18
  <1>22. WordAt(line, k + 1)
    <2>1. k + 1 \in 1 .. Len(line) /\ k + 2 \in 1 .. Len(line) /\ (k + 1) + 1 = k + 2
          /\ (k + 1) + 2 = k + 3
      BY <1>1, <1>16
    <2>2. rest[1] # Blank /\ rest[2] # Blank
      BY <1>8, <1>10
    <2>. QED
      BY <1>18, <2>1, <2>2 DEF WordAt
  <1>. QED
    BY <1>1, <1>16, <1>19, <1>20, <1>21, <1>22

(* Places of a line are numbers, and finitely many.                        *)
LEMMA PlacesAreFinite ==
  ASSUME NEW n \in Nat, NEW I, I \subseteq 1 .. n
  PROVE  I \subseteq Nat /\ IsFiniteSet(I)
  <1>1. IsFiniteSet(1..n) /\ I \in SUBSET (1..n)
    BY FS_Interval
  <1>2. IsFiniteSet(I)
    BY <1>1, FS_Subset
  <1>. QED
    BY <1>2

(* A request is offered only for the id of one.                            *)
LEMMA RequestsOffered ==
  ASSUME NEW S, NEW line \in Seq(S), NEW waiting,
         ClassifySlashCompletionPrefix(line).kind = "request"
  PROVE  LET offered == ResolveSlashCompletions(line, waiting)
         IN \E n \in Nat : offered \in [1 .. n -> KnownRequests]
  <1>. DEFINE query == ClassifySlashCompletionPrefix(line)
              I == {i \in DOMAIN RequestIds : RequestIds[i] \in waiting
                                              /\ IsPrefix(query.prefix, RequestIds[i])}
              kept == InOrder(I)
  <1>1. ResolveSlashCompletions(line, waiting) = [n \in DOMAIN kept |-> RequestIds[kept[n]]]
    BY DEF ResolveSlashCompletions, Fitting
  <1>2. DOMAIN RequestIds = 1 .. 2
    BY DEF RequestIds
  <1>3. IsFiniteSet(I) /\ I \subseteq 1 .. 2 /\ I \subseteq Nat
    <2>1. I \subseteq 1 .. 2
      BY <1>2
    <2>. HIDE DEF I
    <2>. QED
      BY <2>1, PlacesAreFinite
  <1>4. Cardinality(I) \in Nat /\ kept \in [1 .. Cardinality(I) -> I]
    <2>. HIDE DEF I
    <2>. QED
      BY <1>3, OrderedSets
  <1>5. \A i \in I : RequestIds[i] \in KnownRequests
    BY DEF KnownRequests
  <1>. HIDE DEF I, kept
  <1>6. [n \in DOMAIN kept |-> RequestIds[kept[n]]] \in [1 .. Cardinality(I) -> KnownRequests]
    BY <1>4, <1>5
  <1>. QED
    BY <1>1, <1>4, <1>6

(* A command is offered with the text it is put in as.                     *)
InsertTexts == {InsertText(c) : c \in DOMAIN Name}

(* The commands that fit, in their order.                                  *)
LEMMA CommandsFitting ==
  ASSUME NEW I, I \subseteq DOMAIN Commands
  PROVE  LET kept == InOrder(I)
             fitting == [n \in DOMAIN kept |-> Commands[kept[n]]]
         IN \E n \in Nat : /\ fitting \in [1 .. n -> DOMAIN Name]
                           /\ \A m \in 1 .. n : \E i \in I : fitting[m] = Commands[i]
  <1>. DEFINE kept == InOrder(I)
  <1>1. DOMAIN Commands = 1 .. 5 /\ \A i \in 1 .. 5 : Commands[i] \in DOMAIN Name
    BY DEF Commands, Name
  <1>2. IsFiniteSet(I) /\ I \subseteq 1 .. 5 /\ I \subseteq Nat
    BY <1>1, PlacesAreFinite
  <1>3. Cardinality(I) \in Nat /\ kept \in [1 .. Cardinality(I) -> I]
    BY <1>2, OrderedSets
  <1>. HIDE DEF kept
  <1>4. [n \in DOMAIN kept |-> Commands[kept[n]]] \in [1 .. Cardinality(I) -> DOMAIN Name]
    BY <1>1, <1>2, <1>3
  <1>5. \A m \in 1 .. Cardinality(I) : \E i \in I :
          [n \in DOMAIN kept |-> Commands[kept[n]]][m] = Commands[i]
    BY <1>3
  <1>. QED
    BY <1>3, <1>4, <1>5 DEF kept

(* What completes a command is the text of one.                            *)
LEMMA CommandsOffered ==
  ASSUME NEW S, NEW line \in Seq(S), NEW waiting,
         ClassifySlashCompletionPrefix(line).kind = "command"
  PROVE  LET offered == ResolveSlashCompletions(line, waiting)
         IN \E n \in Nat : offered \in [1 .. n -> InsertTexts]
  <1>. DEFINE prefix == ClassifySlashCompletionPrefix(line).prefix
              I == {i \in DOMAIN Commands : IsPrefix(prefix, Name[Commands[i]])}
              kept == InOrder(I)
              fitting == [n \in DOMAIN kept |-> Commands[kept[n]]]
  <1>1. ResolveSlashCompletions(line, waiting)
          = [i \in DOMAIN fitting |-> InsertText(fitting[i])]
    BY DEF ResolveSlashCompletions, CommandCandidates, Fitting
  <1>2. PICK n \in Nat : fitting \in [1 .. n -> DOMAIN Name]
    BY CommandsFitting
  <1>. HIDE DEF fitting
  <1>3. [i \in DOMAIN fitting |-> InsertText(fitting[i])] \in [1 .. n -> InsertTexts]
    BY <1>2 DEF InsertTexts
  <1>. QED
    BY <1>1, <1>3

(* The page offers help, and nothing else.                                 *)
LEMMA HelpIsOffered ==
  ASSUME NEW line
  PROVE  \E n \in Nat : LocalSlashCandidates(line) \in [1 .. n -> {<<Slash, "h">>}]
  <1>. DEFINE prefix == ClassifySlashCompletionPrefix(line).prefix
              I == {i \in DOMAIN Commands : /\ BrowserSupports(Commands[i])
                                            /\ IsPrefix(prefix, Name[Commands[i]])}
              kept == InOrder(I)
              fitting == [n \in DOMAIN kept |-> Commands[kept[n]]]
              offered == [i \in DOMAIN fitting |-> InsertText(fitting[i])]
  <1>1. LocalSlashCandidates(line) = offered \/ LocalSlashCandidates(line) = <<>>
    BY DEF LocalSlashCandidates, Fitting
  <1>2. PICK n \in Nat : /\ fitting \in [1 .. n -> DOMAIN Name]
                         /\ \A m \in 1 .. n : \E i \in I : fitting[m] = Commands[i]
    BY CommandsFitting
  <1>3. \A m \in 1 .. n : fitting[m] = "help"
    BY <1>2 DEF BrowserSupports
  <1>4. InsertText("help") = <<Slash, "h">>
    BY DEF InsertText, TakesRequestId, Name
  <1>. HIDE DEF fitting
  <1>5. offered \in [1 .. n -> {<<Slash, "h">>}]
    BY <1>2, <1>3, <1>4
  <1>6. <<>> \in [1 .. 0 -> {<<Slash, "h">>}]
    OBVIOUS
  <1>. QED
    BY <1>1, <1>5, <1>6

(* The beginning of a line.                                                *)
LEMMA Beginnings ==
  ASSUME NEW S, NEW line \in Seq(S), NEW n \in 0 .. Len(line)
  PROVE  LET before == SubSeq(line, 1, n)
         IN  /\ before \in Seq(S) /\ Len(before) = n
             /\ \A i \in 1 .. n : before[i] = line[i]
  OBVIOUS

(* The beginning of a line with something after it.                        *)
LEMMA Insertions ==
  ASSUME NEW S, NEW line \in Seq(S), NEW p \in 0 .. Len(line), NEW insert \in Seq(S),
         NEW whole, whole = SubSeq(line, 1, p) \o insert
  PROVE  /\ whole \in Seq(S) /\ Len(whole) = p + Len(insert)
         /\ \A i \in 1 .. p : whole[i] = line[i]
         /\ \A i \in 1 .. Len(insert) : whole[p + i] = insert[i]
  <1>. DEFINE before == SubSeq(line, 1, p)
  <1>1. /\ before \in Seq(S) /\ Len(before) = p
        /\ \A i \in 1 .. p : before[i] = line[i]
    BY Beginnings
  <1>. HIDE DEF before
  <1>2. /\ before \o insert \in Seq(S) /\ Len(before \o insert) = p + Len(insert)
        /\ \A i \in 1 .. p : (before \o insert)[i] = before[i]
        /\ \A i \in 1 .. Len(insert) : (before \o insert)[p + i] = insert[i]
    <2>0. before \in Seq(S)
      BY <1>1
    <2>1. before \o insert \in Seq(S)
      BY <2>0
    <2>2. Len(before \o insert) = Len(before) + Len(insert)
      BY <2>0
    <2>3. \A i \in 1 .. Len(before) : (before \o insert)[i] = before[i]
      BY <2>0
    <2>4. \A i \in 1 .. Len(insert) : (before \o insert)[Len(before) + i] = insert[i]
      BY <2>0
    <2>5. Len(before) = p
      BY <1>1
    <2>. QED
      BY <2>1, <2>2, <2>3, <2>4, <2>5, Zenon
  <1>. QED
    BY <1>1, <1>2 DEF before

(* A line with one character more.                                         *)
LEMMA Appendings ==
  ASSUME NEW S, NEW line \in Seq(S), NEW ch \in S
  PROVE  LET longer == Append(line, ch)
         IN  /\ longer \in Seq(S) /\ Len(longer) = Len(line) + 1
             /\ \A i \in 1 .. Len(line) : longer[i] = line[i]
             /\ longer[Len(line) + 1] = ch
  <1>1. Append(line, ch) \in Seq(S)
    OBVIOUS
  <1>2. Len(Append(line, ch)) = Len(line) + 1
    OBVIOUS
  <1>3. \A i \in 1 .. Len(line) : Append(line, ch)[i] = line[i]
    OBVIOUS
  <1>4. Append(line, ch)[Len(line) + 1] = ch
    OBVIOUS
  <1>. QED
    BY <1>1, <1>2, <1>3, <1>4

(* A name is of one command only: a slash and a letter.                    *)
LEMMA NamesAreUnique ==
  ASSUME NEW c \in DOMAIN Name
  PROVE  /\ ParseSlashCommand(Name[c]) = {c}
         /\ Len(Name[c]) = 2 /\ Name[c][1] = Slash /\ Name[c][2] # Blank
         /\ Name[c] = <<Name[c][1], Name[c][2]>>
  <1>1. /\ Name["help"] = <<"/", "h">> /\ Name["quit"] = <<"/", "q">>
        /\ Name["cancel"] = <<"/", "c">> /\ Name["approve"] = <<"/", "a">>
        /\ Name["deny"] = <<"/", "d">>
        /\ DOMAIN Name = {"help", "quit", "cancel", "approve", "deny"}
    BY DEF Name, Slash
  <1>2. PICK letter : Name[c] = <<"/", letter>> /\ letter \in {"h", "q", "c", "a", "d"}
    BY <1>1
  <1>3. /\ Len(Name[c]) = 2 /\ Name[c][1] = Slash /\ Name[c][2] # Blank
        /\ Name[c] = <<Name[c][1], Name[c][2]>>
    <2>1. /\ Len(<<"/", letter>>) = 2 /\ <<"/", letter>>[1] = "/"
          /\ <<"/", letter>>[2] = letter
      OBVIOUS
    <2>2. letter # " "
      BY <1>2
    <2>3. Name[c][1] = "/" /\ Name[c][2] = letter /\ Len(Name[c]) = 2
      BY <1>2, <2>1
    <2>. QED
      BY <1>2, <2>2, <2>3 DEF Slash, Blank
  <1>4. /\ Name["help"][2] = "h" /\ Name["quit"][2] = "q" /\ Name["cancel"][2] = "c"
        /\ Name["approve"][2] = "a" /\ Name["deny"][2] = "d"
    BY <1>1
  <1>5. \A d \in DOMAIN Name : Name[d] = Name[c] => d = c
    BY <1>1, <1>4
  <1>. QED
    BY <1>3, <1>5 DEF ParseSlashCommand

(* The text before the cursor as a command offered leaves it.              *)
LEMMA CommandsAreObeyed ==
  ASSUME NEW S, NEW line \in Seq(S), Characters \subseteq S,
         ClassifySlashCompletionPrefix(line).kind = "command", NEW c \in DOMAIN Name
  PROVE  LET whole == Completed(line, InsertText(c))
         IN  /\ ParseSlashCommand(Words(whole)[1]) = {c}
             /\ TakesRequestId(c) =>
                  ClassifySlashCompletionPrefix(whole) = RequestQuery(<<>>)
  <1>1. PICK k \in 0 .. Len(line) - 1 :
          /\ Led(line, k)
          /\ \A i \in k + 1 .. Len(line) : line[i] # Blank
    BY CommandQueries
  <1>. DEFINE p == CompletionStart(line)
              insert == InsertText(c)
              whole == Completed(line, insert)
  <1>2. p = k
    <2>1. /\ p \in 0 .. Len(line)
          /\ p > 0 => line[p] = Blank
          /\ \A i \in 1 .. Len(line) : i > p => line[i] # Blank
      BY LastBlank DEF CompletionStart
    <2>. HIDE DEF p
    <2>2. \A i \in 1 .. k : line[i] = Blank
      BY <1>1 DEF Led
    <2>3. ~(p > k)
      BY <1>1, <2>1
    <2>4. ~(k > p)
      BY <1>1, <2>1, <2>2
    <2>. QED
      BY <1>1, <2>1, <2>3, <2>4
  <1>3. /\ insert \in Seq(S) /\ Len(insert) \in {2, 3}
        /\ <<insert[1], insert[2]>> = Name[c] /\ insert[1] = Slash /\ insert[2] # Blank
        /\ Len(insert) = 3 => insert[3] = Blank
        /\ TakesRequestId(c) => Len(insert) = 3
    <2>. DEFINE name == Name[c]
    <2>1. /\ name \in Seq(S) /\ Len(name) = 2 /\ name[1] = Slash /\ name[2] # Blank
          /\ name = <<name[1], name[2]>>
      <3>1. /\ Len(name) = 2 /\ name[1] = Slash /\ name[2] # Blank
            /\ name = <<name[1], name[2]>>
        BY NamesAreUnique
      <3>2. name[1] \in S /\ name[2] \in S
        BY DEF Name, Characters
      <3>3. <<name[1], name[2]>> \in Seq(S)
        BY <3>2
      <3>. QED
        BY <3>1, <3>3
    <2>2. Blank \in S
      BY DEF Characters
    <2>. HIDE DEF name
    <2>3. PICK longer : longer = Append(name, Blank)
      OBVIOUS
    <2>3a. /\ longer \in Seq(S) /\ Len(longer) = 3
           /\ longer[1] = name[1] /\ longer[2] = name[2] /\ longer[3] = Blank
      <3>1. /\ longer \in Seq(S) /\ Len(longer) = Len(name) + 1
            /\ \A i \in 1 .. Len(name) : longer[i] = name[i]
            /\ longer[Len(name) + 1] = Blank
        <4>. HIDE DEF p, insert, whole
        <4>1. name \in Seq(S) /\ Blank \in S
          BY <2>1, <2>2
        <4>2. LET l == Append(name, Blank)
              IN  /\ l \in Seq(S) /\ Len(l) = Len(name) + 1
                  /\ \A i \in 1 .. Len(name) : l[i] = name[i]
                  /\ l[Len(name) + 1] = Blank
          BY <4>1, Appendings, Zenon
        <4>. QED
          BY <2>3, <4>2, Zenon
      <3>. QED
        BY <2>1, <3>1
    <2>4. insert = (IF TakesRequestId(c) THEN Append(name, Blank) ELSE name)
      BY DEF InsertText, name
    <2>5. CASE TakesRequestId(c)
      BY <2>1, <2>3, <2>3a, <2>4, <2>5 DEF name
    <2>6. CASE ~TakesRequestId(c)
      BY <2>1, <2>4, <2>6 DEF name
    <2>. QED
      BY <2>5, <2>6
  <1>4. /\ whole \in Seq(S) /\ Len(whole) = k + Len(insert)
        /\ \A i \in 1 .. k : whole[i] = line[i]
        /\ \A i \in 1 .. Len(insert) : whole[k + i] = insert[i]
    <2>1. whole = SubSeq(line, 1, k) \o insert
      BY <1>2 DEF Completed
    <2>. HIDE DEF whole, insert
    <2>. QED
      BY <1>1, <1>3, <2>1, Insertions
  <1>. HIDE DEF p, insert, whole
  <1>5. /\ whole[k + 1] = insert[1] /\ whole[k + 2] = insert[2]
        /\ Len(insert) = 3 => whole[k + 3] = Blank
    <2>1. 1 \in 1 .. Len(insert) /\ 2 \in 1 .. Len(insert)
          /\ (Len(insert) = 3 => 3 \in 1 .. Len(insert))
      BY <1>3
    <2>. QED
      BY <1>3, <1>4, <2>1
  <1>6. Led(whole, k) /\ WordAt(whole, k + 1)
    <2>1. \A i \in 1 .. k : whole[i] = Blank
      BY <1>1, <1>4 DEF Led
    <2>2. k + 1 \in 1 .. Len(whole) /\ (k + 1) + 1 \in 1 .. Len(whole)
          /\ (k + 1) + 1 = k + 2 /\ (k + 1) + 2 = k + 3
      BY <1>1, <1>3, <1>4
    <2>3. whole[k + 1] # Blank /\ whole[k + 2] # Blank
      <3>1. Slash # Blank
        BY DEF Slash, Blank
      <3>. QED
        BY <1>3, <1>5, <3>1
    <2>4. (k + 1) + 1 < Len(whole) => whole[(k + 1) + 2] = Blank
      <3>1. CASE Len(insert) = 3
        BY <1>5, <2>2, <3>1
      <3>2. CASE Len(insert) = 2
        BY <1>1, <1>4, <2>2, <3>2
      <3>. QED
        BY <1>3, <3>1, <3>2
    <2>5. Led(whole, k)
      BY <1>1, <1>4, <2>1, <2>2, <2>3 DEF Led
    <2>6. WordAt(whole, k + 1)
      BY <2>2, <2>3, <2>4 DEF WordAt
    <2>. QED
      BY <2>5, <2>6
  <1>7. Words(whole)[1] = Name[c]
    <2>1. Words(whole)[1] = <<whole[k + 1], whole[k + 2]>>
      BY <1>4, <1>6, FirstWord
    <2>. QED
      BY <1>3, <1>5, <2>1
  <1>8. ASSUME TakesRequestId(c)
        PROVE  ClassifySlashCompletionPrefix(whole) = RequestQuery(<<>>)
    <2>1. PICK rest : rest = SubSeq(whole, k + 1, Len(whole))
      OBVIOUS
    <2>2. Len(whole) = k + 3
      BY <1>3, <1>4, <1>8
    <2>3. /\ rest \in Seq(S) /\ Len(rest) = Len(whole) - k
          /\ \A i \in 1 .. Len(whole) - k : rest[i] = whole[k + i]
      <3>1. k \in 0 .. Len(whole)
        BY <1>1, <2>2
      <3>. QED
        BY <1>4, <2>1, <3>1, Rests
    <2>4. Len(rest) = 3 /\ rest[1] = Slash /\ rest[2] = insert[2] /\ rest[3] = Blank
      BY <1>1, <1>3, <1>5, <1>8, <2>2, <2>3
    <2>5. TrimStart(whole) = rest
      BY <1>4, <1>6, <2>1, TrimmingStart
    <2>6. PICK space : space = SelectInSeq(rest, IsBlank)
      OBVIOUS
    <2>7. space = 3
      <3>1. /\ space \in 0 .. Len(rest)
            /\ space > 0 => rest[space] = Blank
            /\ space = 0 => \A i \in 1 .. Len(rest) : rest[i] # Blank
        BY <2>3, <2>6, FirstBlank
      <3>2. Slash # Blank
        BY DEF Slash, Blank
      <3>. QED
        BY <1>3, <2>4, <3>1, <3>2
    <2>8. SubSeq(rest, 1, space - 1) = Name[c]
      <3>1. 1 \in 1 .. Len(rest) /\ 1 + 1 \in 1 .. Len(rest) /\ space - 1 = 1 + 1 /\ 1 + 1 = 2
        BY <2>4, <2>7
      <3>2. SubSeq(rest, 1, 1 + 1) = <<rest[1], rest[1 + 1]>>
        BY <2>3, <3>1, Pairs
      <3>. QED
        BY <1>3, <2>4, <3>1, <3>2
    <2>9. TrimStart(SubSeq(rest, space + 1, Len(rest))) = <<>>
      <3>1. SubSeq(rest, space + 1, Len(rest)) = <<>>
        <4>1. space + 1 = 4 /\ Len(rest) = 3
          BY <2>4, <2>7
        <4>2. SubSeq(rest, 4, 3) = <<>>
          BY <2>3
        <4>. QED
          BY <4>1, <4>2
      <3>2. Led(<<>>, 0) /\ <<>> \in Seq(S)
        BY DEF Led
      <3>3. TrimStart(<<>>) = SubSeq(<<>>, 0 + 1, Len(<<>>))
        BY <3>2, TrimmingStart
      <3>4. SubSeq(<<>>, 0 + 1, Len(<<>>)) = <<>>
        OBVIOUS
      <3>. QED
        BY <3>1, <3>3, <3>4
    <2>10. StartsWithSlash(rest) /\ space > 0
      <3>1. rest # <<>>
        <4>1. Len(rest) # Len(<<>>)
          BY <2>4
        <4>. QED
          BY <4>1, Zenon
      <3>. QED
        BY <2>4, <2>7, <3>1 DEF StartsWithSlash
    <2>11. ClassifySlashCompletionPrefix(whole) = ArgumentQuery(Name[c], <<>>)
      BY <2>5, <2>6, <2>8, <2>9, <2>10 DEF ClassifySlashCompletionPrefix
    <2>12. c \in ParseSlashCommand(Name[c])
      BY NamesAreUnique
    <2>. QED
      BY <1>8, <2>11, <2>12 DEF ArgumentQuery
  <1>. QED
    BY <1>7, <1>8, NamesAreUnique DEF whole, insert

(* The text before the cursor as a request offered leaves it: it decides   *)
(* that request with the command the text begins with.                     *)
LEMMA RequestsAreObeyed ==
  ASSUME NEW S, NEW line \in Seq(S), NEW at \in 0 .. Len(line), Characters \subseteq S,
         ClassifySlashCompletionPrefix(SubSeq(line, 1, at)).kind = "request",
         NEW id \in KnownRequests
  PROVE  \E c \in ParseSlashCommand(Words(line)[1]) :
           ExecuteReplCommand(Trim(Completed(SubSeq(line, 1, at), id))) = Decides(c, id)
  <1>1. PICK before : before = SubSeq(line, 1, at)
    OBVIOUS
  <1>2. /\ before \in Seq(S) /\ Len(before) = at
        /\ \A i \in 1 .. at : before[i] = line[i]
    BY <1>1, Beginnings
  <1>3. PICK k \in 0 .. at, p \in 0 .. at, c \in {"approve", "deny"} :
          /\ Led(before, k) /\ p >= k + 3
          /\ WordAt(before, k + 1) /\ <<before[k + 1], before[k + 2]>> = Name[c]
          /\ \A i \in k + 3 .. p : before[i] = Blank
          /\ \A i \in p + 1 .. at : before[i] # Blank
    BY <1>1, <1>2, RequestQueries
  <1>4. CompletionStart(before) = p
    <2>1. PICK last : last = CompletionStart(before)
      OBVIOUS
    <2>2. /\ last \in 0 .. at
          /\ last > 0 => before[last] = Blank
          /\ \A i \in 1 .. at : i > last => before[i] # Blank
      BY <1>2, <2>1, LastBlank DEF CompletionStart
    <2>3. before[p] = Blank /\ p \in 1 .. at
      BY <1>3
    <2>4. ~(p > last)
      BY <2>2, <2>3
    <2>5. ~(last > p)
      BY <1>3, <2>2
    <2>. QED
      BY <1>3, <2>1, <2>2, <2>4, <2>5
  <1>5. id \in Seq(S) /\ Len(id) = 2 /\ id[1] # Blank /\ id[2] # Blank
        /\ id = <<id[1], id[2]>>
    <2>1. id = <<"r", "1">> \/ id = <<"r", "2">>
      BY DEF KnownRequests, RequestIds
    <2>2. "r" \in S /\ "1" \in S /\ "2" \in S
      BY DEF Characters
    <2>3. CASE id = <<"r", "1">>
      BY <2>2, <2>3 DEF Blank
    <2>4. CASE id = <<"r", "2">>
      BY <2>2, <2>4 DEF Blank
    <2>. QED
      BY <2>1, <2>3, <2>4
  <1>6. PICK whole : whole = Completed(before, id)
    OBVIOUS
  <1>7. /\ whole \in Seq(S) /\ Len(whole) = p + 2
        /\ \A i \in 1 .. p : whole[i] = before[i]
        /\ whole[p + 1] = id[1] /\ whole[p + 2] = id[2]
    <2>1. whole = SubSeq(before, 1, p) \o id
      BY <1>4, <1>6 DEF Completed
    <2>2. /\ whole \in Seq(S) /\ Len(whole) = p + Len(id)
          /\ \A i \in 1 .. p : whole[i] = before[i]
          /\ \A i \in 1 .. Len(id) : whole[p + i] = id[i]
      <3>1. before \in Seq(S) /\ p \in 0 .. Len(before) /\ id \in Seq(S)
        BY <1>2, <1>3, <1>5
      <3>. QED
        BY <2>1, <3>1, Insertions
    <2>3. Len(id) = 2
      BY <1>5
    <2>. QED
      BY <2>2, <2>3
  <1>8. PICK command : command = SubSeq(whole, k + 1, Len(whole))
    OBVIOUS
  <1>9. before[k + 1] # Blank /\ before[k + 2] # Blank
    BY <1>3 DEF WordAt
  <1>10. Trim(whole) = command
    <2>1. Led(whole, k)
      <3>1. \A i \in 1 .. k : whole[i] = Blank
        <4>1. \A i \in 1 .. k : before[i] = Blank
          BY <1>3 DEF Led
        <4>. QED
          BY <1>3, <1>7, <4>1
      <3>2. whole[k + 1] # Blank
        BY <1>3, <1>7, <1>9
      <3>. QED
        BY <1>3, <1>7, <3>1, <3>2 DEF Led
    <2>2. k < Len(whole) /\ whole[Len(whole)] # Blank
      BY <1>3, <1>5, <1>7
    <2>. QED
      BY <1>7, <1>8, <2>1, <2>2, Trimming
  <1>11. /\ command \in Seq(S) /\ Len(command) = p + 2 - k
         /\ \A i \in 1 .. p + 2 - k : command[i] = whole[k + i]
    <2>1. k \in 0 .. Len(whole)
      BY <1>3, <1>7
    <2>2. Len(whole) - k = p + 2 - k
      BY <1>3, <1>7
    <2>3. /\ command \in Seq(S) /\ Len(command) = Len(whole) - k
          /\ \A i \in 1 .. Len(whole) - k : command[i] = whole[k + i]
      BY <1>7, <1>8, <2>1, Rests
    <2>. QED
      BY <2>2, <2>3
  <1>12. PICK m \in Nat : m = p - k /\ m >= 3
    BY <1>3
  <1>13. /\ command[1] = before[k + 1] /\ command[2] = before[k + 2]
         /\ command[m + 1] = id[1] /\ command[m + 2] = id[2]
    <2>1. /\ 1 \in 1 .. p + 2 - k /\ 2 \in 1 .. p + 2 - k
          /\ m + 1 \in 1 .. p + 2 - k /\ m + 2 \in 1 .. p + 2 - k
          /\ k + (m + 1) = p + 1 /\ k + (m + 2) = p + 2
          /\ k + 1 \in 1 .. p /\ k + 2 \in 1 .. p
      <3>1. k \in Nat /\ p \in Nat /\ p >= k + 3
        BY <1>3
      <3>. QED
        BY <1>12, <3>1
    <2>. QED
      BY <1>7, <1>11, <2>1
  <1>14. ASSUME NEW i \in 3 .. m
         PROVE  command[i] = Blank
    <2>1. i \in 1 .. p + 2 - k /\ k + i \in k + 3 .. p /\ k + i \in 1 .. p
      BY <1>3, <1>12
    <2>. QED
      BY <1>3, <1>7, <1>11, <2>1
  <1>15. /\ Len(Words(command)) = 2
         /\ Words(command)[1] = <<command[1], command[2]>>
         /\ Words(command)[2] = <<command[m + 1], command[m + 2]>>
    <2>1. Len(command) = m + 2 /\ command[1] # Blank /\ command[2] # Blank
          /\ command[m + 1] # Blank /\ command[m + 2] # Blank
      BY <1>3, <1>5, <1>9, <1>11, <1>12, <1>13
    <2>. QED
      BY <1>11, <1>12, <1>14, <2>1, TwoWords
  <1>16. Words(command)[1] = Name[c] /\ Words(command)[2] = id
    BY <1>3, <1>5, <1>13, <1>15
  <1>17. ParseSlashCommand(Name[c]) = {c} /\ c \in DOMAIN Name
    <2>1. c \in DOMAIN Name
      BY DEF Name
    <2>. QED
      BY <2>1, NamesAreUnique
  <1>18. ExecuteReplCommand(command) = Decides(c, id)
    <2>1. /\ ~({c} \subseteq {"help"}) /\ {c} # {"quit"} /\ {c} # {"cancel"}
          /\ (CHOOSE d \in {c} : TRUE) = c
      OBVIOUS
    <2>. QED
      BY <1>15, <1>16, <1>17, <2>1 DEF ExecuteReplCommand
  <1>19. Words(line)[1] = Name[c]
    <2>1. Led(line, k) /\ WordAt(line, k + 1)
      <3>1. k + 1 \in 1 .. at /\ k + 2 \in 1 .. at /\ k + 3 \in 1 .. at
            /\ (k + 1) + 1 = k + 2 /\ (k + 1) + 2 = k + 3 /\ at <= Len(line)
        BY <1>3
      <3>2. \A i \in 1 .. k : line[i] = Blank
        BY <1>2, <1>3 DEF Led
      <3>3. line[k + 1] # Blank /\ line[k + 2] # Blank /\ line[k + 3] = Blank
        BY <1>2, <1>3, <1>9, <3>1
      <3>4. Led(line, k)
        BY <1>3, <3>1, <3>2, <3>3 DEF Led
      <3>5. WordAt(line, k + 1)
        BY <3>1, <3>3 DEF WordAt
      <3>. QED
        BY <3>4, <3>5
    <2>2. Words(line)[1] = <<line[k + 1], line[k + 2]>>
      BY <2>1, FirstWord
    <2>3. k + 1 \in 1 .. at /\ k + 2 \in 1 .. at
      BY <1>3
    <2>. QED
      BY <1>2, <1>3, <2>2, <2>3
  <1>20. c \in ParseSlashCommand(Words(line)[1])
    BY <1>17, <1>19
  <1>. QED
    BY <1>1, <1>6, <1>10, <1>18, <1>20

(* What the page offers does what it says, whatever the draft.             *)
LEMMA HelpIsObeyed ==
  ASSUME NEW S, NEW line \in Seq(S), Characters \subseteq S,
         ClassifySlashCompletionPrefix(line).kind = "command"
  PROVE  LET whole == ApplySlashCompletion(line, <<Slash, "h">>)
         IN whole \in Seq(S) /\ ParseBrowserSlashAction(Trim(whole)) = Does("help")
  <1>1. PICK k \in 0 .. Len(line) - 1 : Led(line, k)
    BY CommandQueries
  <1>2. PICK help : help = <<Slash, "h">>
    OBVIOUS
  <1>3. /\ help \in Seq(S) /\ Len(help) = 2 /\ help[1] # Blank /\ help[2] # Blank
        /\ help = <<help[1], help[2]>> /\ help = Name["help"]
    <2>1. help = Name["help"] /\ "help" \in DOMAIN Name
      BY <1>2 DEF Name
    <2>2. /\ Len(help) = 2 /\ help[1] = Slash /\ help[2] # Blank
          /\ help = <<help[1], help[2]>>
      BY <2>1, NamesAreUnique
    <2>3. help \in Seq(S)
      <3>1. Slash \in S /\ "h" \in S
        BY DEF Characters
      <3>. QED
        BY <1>2, <3>1
    <2>4. Slash # Blank
      BY DEF Slash, Blank
    <2>. QED
      BY <2>1, <2>2, <2>3, <2>4
  <1>4. PICK whole : whole = ApplySlashCompletion(line, help)
    OBVIOUS
  <1>5. whole = SubSeq(line, 1, k) \o help
    <2>1. TrimStart(line) = SubSeq(line, k + 1, Len(line))
      BY <1>1, TrimmingStart
    <2>2. Len(SubSeq(line, k + 1, Len(line))) = Len(line) - k
      <3>1. k \in 0 .. Len(line)
        BY <1>1
      <3>. QED
        BY <3>1, Rests
    <2>3. Len(line) - Len(TrimStart(line)) = k
      BY <1>1, <2>1, <2>2
    <2>. QED
      BY <1>4, <2>3 DEF ApplySlashCompletion
  <1>6. /\ whole \in Seq(S) /\ Len(whole) = k + 2
        /\ \A i \in 1 .. k : whole[i] = line[i]
        /\ whole[k + 1] = help[1] /\ whole[k + 2] = help[2]
    <2>1. /\ whole \in Seq(S) /\ Len(whole) = k + Len(help)
          /\ \A i \in 1 .. k : whole[i] = line[i]
          /\ \A i \in 1 .. Len(help) : whole[k + i] = help[i]
      <3>1. k \in 0 .. Len(line)
        BY <1>1
      <3>. QED
        <4>1. help \in Seq(S)
          BY <1>3
        <4>. QED
          BY <1>5, <3>1, <4>1, Insertions
    <2>2. Len(help) = 2
      BY <1>3
    <2>. QED
      BY <2>1, <2>2
  <1>7. Trim(whole) = SubSeq(whole, k + 1, Len(whole))
    <2>1. \A i \in 1 .. k : whole[i] = Blank
      BY <1>1, <1>6 DEF Led
    <2>2. Led(whole, k)
      BY <1>1, <1>3, <1>6, <2>1 DEF Led
    <2>3. k < Len(whole) /\ whole[Len(whole)] # Blank
      BY <1>1, <1>3, <1>6
    <2>. QED
      BY <1>6, <2>2, <2>3, Trimming
  <1>8. SubSeq(whole, k + 1, Len(whole)) = help
    <2>1. k + 1 \in 1 .. Len(whole) /\ (k + 1) + 1 \in 1 .. Len(whole)
          /\ (k + 1) + 1 = Len(whole) /\ (k + 1) + 1 = k + 2
      BY <1>1, <1>6
    <2>2. SubSeq(whole, k + 1, (k + 1) + 1) = <<whole[k + 1], whole[(k + 1) + 1]>>
      BY <1>6, <2>1, Pairs
    <2>. QED
      BY <1>3, <1>6, <2>1, <2>2
  <1>9. Len(Words(help)) = 1 /\ Words(help)[1] = help
    BY <1>3, OneWord
  <1>10. "help" \in ParseSlashCommand(help)
    BY <1>3 DEF ParseSlashCommand, Name
  <1>. QED
    BY <1>2, <1>4, <1>6, <1>7, <1>8, <1>9, <1>10 DEF ParseBrowserSlashAction, BrowserSupports

(* What is trimmed is a line.                                              *)
LEMMA TrimmedLines ==
  ASSUME NEW S, NEW line \in Seq(S)
  PROVE  Trim(line) \in Seq(S)
  <1>. DEFINE n == Len(line)
              solid == {i \in 1 .. n : ~IsBlank(line[i])}
  <1>1. PICK last : last = SelectLastInSeq(line, LAMBDA ch : ~IsBlank(ch))
    OBVIOUS
  <1>2. last = IF solid # {} THEN Max(solid) ELSE 0
    BY <1>1 DEF SelectLastInSeq
  <1>3. last \in 0 .. n
    <2>0. n \in Nat
      OBVIOUS
    <2>1. CASE solid = {}
      BY <1>2, <2>0, <2>1
    <2>2. CASE solid # {}
      <3>1. Max(solid) \in solid
        BY <2>0, <2>2, ExtremePlaces
      <3>2. solid \subseteq 0 .. n
        BY <2>0
      <3>. QED
        BY <1>2, <2>2, <3>1, <3>2
    <2>. QED
      BY <2>1, <2>2
  <1>4. PICK cut : cut = SubSeq(line, 1, last)
    OBVIOUS
  <1>5. cut \in Seq(S)
    BY <1>3, <1>4, Beginnings
  <1>6. PICK k \in 0 .. Len(cut) : Led(cut, k)
    BY <1>5, LinesAreLed
  <1>7. TrimStart(cut) = SubSeq(cut, k + 1, Len(cut))
    BY <1>5, <1>6, TrimmingStart
  <1>8. SubSeq(cut, k + 1, Len(cut)) \in Seq(S)
    BY <1>5, <1>6, Rests
  <1>. QED
    BY <1>1, <1>4, <1>7, <1>8 DEF Trim

(* What is offered can be put into a line.                                 *)
LEMMA InsertsAreLines ==
  /\ KnownRequests \subseteq Seq(Characters)
  /\ InsertTexts \subseteq Seq(Characters)
  /\ KnownRequests \cap InsertTexts = {}
  <1>1. ASSUME NEW id \in KnownRequests
        PROVE  id \in Seq(Characters) /\ id[1] = "r"
    <2>1. id = <<"r", "1">> \/ id = <<"r", "2">>
      BY DEF KnownRequests, RequestIds
    <2>2. "r" \in Characters /\ "1" \in Characters /\ "2" \in Characters
      BY DEF Characters
    <2>3. CASE id = <<"r", "1">>
      BY <2>2, <2>3
    <2>4. CASE id = <<"r", "2">>
      BY <2>2, <2>4
    <2>. QED
      BY <2>1, <2>3, <2>4
  <1>2. ASSUME NEW c \in DOMAIN Name
        PROVE  InsertText(c) \in Seq(Characters) /\ InsertText(c)[1] = "/"
    <2>. DEFINE name == Name[c]
    <2>1. name[1] = "/" /\ Len(name) = 2 /\ name = <<name[1], name[2]>>
      BY NamesAreUnique DEF Slash
    <2>2. name[1] \in Characters /\ name[2] \in Characters /\ Blank \in Characters
      BY DEF Name, Characters
    <2>3. name \in Seq(Characters)
      <3>1. <<name[1], name[2]>> \in Seq(Characters)
        BY <2>2
      <3>. QED
        BY <2>1, <3>1
    <2>. HIDE DEF name
    <2>4. PICK longer : longer = Append(name, Blank)
      OBVIOUS
    <2>5. longer \in Seq(Characters) /\ longer[1] = "/"
      <3>1. LET l == Append(name, Blank)
            IN  /\ l \in Seq(Characters) /\ Len(l) = Len(name) + 1
                /\ \A i \in 1 .. Len(name) : l[i] = name[i]
                /\ l[Len(name) + 1] = Blank
        BY <2>2, <2>3, Appendings, Zenon
      <3>2. 1 \in 1 .. Len(name)
        BY <2>1
      <3>. QED
        BY <2>1, <2>4, <3>1, <3>2, Zenon
    <2>6. InsertText(c) \in {longer, name}
      BY <2>4 DEF InsertText, name
    <2>. QED
      BY <2>1, <2>3, <2>5, <2>6
  <1>3. "r" # "/"
    OBVIOUS
  <1>. QED
    BY <1>1, <1>2, <1>3 DEF InsertTexts

(* Whatever is asked, it is requests and commands that are offered.        *)
LEMMA WhatIsOffered ==
  ASSUME NEW S, NEW line \in Seq(S), NEW waiting
  PROVE  \E n \in Nat :
           ResolveSlashCompletions(line, waiting) \in [1 .. n -> KnownRequests \cup InsertTexts]
  <1>. DEFINE kind == ClassifySlashCompletionPrefix(line).kind
              offered == ResolveSlashCompletions(line, waiting)
  <1>1. CASE kind = "request"
    <2>1. PICK n \in Nat : offered \in [1 .. n -> KnownRequests]
      BY <1>1, RequestsOffered
    <2>. HIDE DEF offered
    <2>. QED
      BY <2>1 DEF offered
  <1>2. CASE kind = "command"
    <2>1. PICK n \in Nat : offered \in [1 .. n -> InsertTexts]
      BY <1>2, CommandsOffered
    <2>. HIDE DEF offered
    <2>. QED
      BY <2>1 DEF offered
  <1>3. CASE kind \notin {"request", "command"}
    <2>1. offered = <<>>
      BY <1>3 DEF ResolveSlashCompletions
    <2>2. offered \in [1 .. 0 -> KnownRequests \cup InsertTexts]
      BY <2>1
    <2>. QED
      BY <2>2
  <1>. QED
    BY <1>1, <1>2, <1>3

(* Whatever a line is, what may be put into it before the cursor is obeyed. *)
LEMMA OfferedIsObeyed ==
  ASSUME text \in Seq(Characters), cursor \in 0 .. Len(text), NEW waiting,
         NEW i \in DOMAIN ResolveSlashCompletions(Before, waiting)
  PROVE  LET insert == ResolveSlashCompletions(Before, waiting)[i]
         IN Obeys(Completed(Before, insert), insert)
  <1>. DEFINE kind == ClassifySlashCompletionPrefix(Before).kind
  <1>1. PICK offered : offered = ResolveSlashCompletions(Before, waiting)
    OBVIOUS
  <1>2. Before \in Seq(Characters)
    BY Beginnings DEF Before
  <1>3. CASE kind = "request"
    <2>1. PICK n \in Nat : offered \in [1 .. n -> KnownRequests]
      BY <1>1, <1>2, <1>3, RequestsOffered
    <2>2. offered[i] \in KnownRequests
      BY <1>1, <2>1
    <2>3. \E c \in ParseSlashCommand(Words(text)[1]) :
            ExecuteReplCommand(Trim(Completed(SubSeq(text, 1, cursor), offered[i])))
              = Decides(c, offered[i])
      BY <1>3, <2>2, RequestsAreObeyed DEF Before
    <2>. QED
      BY <1>1, <2>2, <2>3 DEF Obeys, Before
  <1>4. CASE kind = "command"
    <2>1. PICK n \in Nat : offered \in [1 .. n -> InsertTexts]
      BY <1>1, <1>2, <1>4, CommandsOffered
    <2>2. offered[i] \in InsertTexts
      BY <1>1, <2>1
    <2>3. offered[i] \notin KnownRequests
      BY <2>2, InsertsAreLines
    <2>4. PICK c \in DOMAIN Name : offered[i] = InsertText(c)
      BY <2>2 DEF InsertTexts
    <2>5. LET whole == Completed(Before, InsertText(c))
          IN  /\ ParseSlashCommand(Words(whole)[1]) = {c}
              /\ TakesRequestId(c) =>
                   ClassifySlashCompletionPrefix(whole) = RequestQuery(<<>>)
      BY <1>2, <1>4, CommandsAreObeyed
    <2>. QED
      BY <1>1, <2>3, <2>4, <2>5 DEF Obeys
  <1>5. CASE kind \notin {"request", "command"}
    <2>1. offered = <<>>
      BY <1>1, <1>5 DEF ResolveSlashCompletions
    <2>. QED
      BY <1>1, <2>1
  <1>. QED
    BY <1>3, <1>4, <1>5

(* The terminal's menu is what was offered for the text before where the   *)
(* cursor was, and the text has not changed since; the page's is what the  *)
(* draft makes it.                                                         *)
MenuIsOfTheLine ==
  MenuIsOpen =>
    /\ menu = [candidates |-> menu.candidates, selected |-> menu.selected]
    /\ menu.selected \in DOMAIN menu.candidates
    /\ IF Terminal
       THEN /\ askedAt \in 0 .. Len(text)
            /\ \E waiting \in SUBSET KnownRequests :
                 menu.candidates = ResolveSlashCompletions(SubSeq(text, 1, askedAt), waiting)
       ELSE menu.candidates = LocalSlashCandidates(text)

(* Every line that can be recalled is a line.                              *)
HistoryIsOfLines ==
  /\ recall = [history |-> recall.history, index |-> recall.index, draft |-> recall.draft]
  /\ recall.history \in Seq(Seq(Characters))
  /\ recall.index \in 0 .. Len(recall.history)
  /\ recall.draft \in Seq(Characters)

(* The strengthening of CompletionsAreObeyed that every step keeps.        *)
LineInv ==
  /\ text \in Seq(Characters)
  /\ cursor \in 0 .. Len(text)
  /\ MenuIsOfTheLine
  /\ HistoryIsOfLines

(* What the menu has is a sequence of texts to insert.                     *)
LEMMA MenusAreOffers ==
  ASSUME LineInv, MenuIsOpen
  PROVE  \E n \in Nat \ {0} : menu.candidates \in [1 .. n -> Seq(Characters)]
  <1>1. PICK n \in Nat : menu.candidates \in [1 .. n -> Seq(Characters)]
    <2>1. CASE Terminal
      <3>1. PICK waiting :
              menu.candidates = ResolveSlashCompletions(SubSeq(text, 1, askedAt), waiting)
        BY <2>1 DEF LineInv, MenuIsOfTheLine
      <3>2. SubSeq(text, 1, askedAt) \in Seq(Characters)
        BY <2>1, Beginnings DEF LineInv, MenuIsOfTheLine
      <3>3. PICK n \in Nat :
              menu.candidates \in [1 .. n -> KnownRequests \cup InsertTexts]
        BY <3>1, <3>2, WhatIsOffered
      <3>. QED
        BY <3>3, InsertsAreLines
    <2>2. CASE ~Terminal
      <3>1. menu.candidates = LocalSlashCandidates(text)
        BY <2>2 DEF LineInv, MenuIsOfTheLine
      <3>2. PICK n \in Nat : menu.candidates \in [1 .. n -> {<<Slash, "h">>}]
        BY <3>1, HelpIsOffered
      <3>3. <<Slash, "h">> \in Seq(Characters)
        BY DEF Characters
      <3>. QED
        BY <3>2, <3>3
    <2>. QED
      BY <2>1, <2>2
  <1>2. n # 0
    <2>1. SUFFICES ASSUME n = 0
                   PROVE  FALSE
      OBVIOUS
    <2>2. menu.candidates = <<>>
      BY <1>1, <2>1
    <2>. QED
      BY <2>2 DEF MenuIsOpen
  <1>. QED
    BY <1>1, <1>2

(* What is selected of it can be put into a line.                          *)
LEMMA SelectedIsALine ==
  ASSUME LineInv, MenuIsOpen
  PROVE  Selected \in Seq(Characters)
  <1>1. PICK n \in Nat \ {0} : menu.candidates \in [1 .. n -> Seq(Characters)]
    BY MenusAreOffers
  <1>2. menu.selected \in 1 .. n
    BY <1>1 DEF LineInv, MenuIsOfTheLine
  <1>. QED
    BY <1>1, <1>2 DEF Selected

(* The page's selection is help.                                           *)
LEMMA HelpIsSelected ==
  ASSUME LineInv, MenuIsOpen, ~Terminal
  PROVE  /\ Selected = <<Slash, "h">>
         /\ ClassifySlashCompletionPrefix(text).kind = "command"
  <1>1. menu.candidates = LocalSlashCandidates(text)
        /\ menu.selected \in DOMAIN menu.candidates
    BY DEF LineInv, MenuIsOfTheLine
  <1>2. PICK n \in Nat : menu.candidates \in [1 .. n -> {<<Slash, "h">>}]
    BY <1>1, HelpIsOffered
  <1>3. ClassifySlashCompletionPrefix(text).kind = "command"
    BY <1>1 DEF LocalSlashCandidates, MenuIsOpen
  <1>. QED
    BY <1>1, <1>2, <1>3 DEF Selected

(* The line is changed.                                                    *)
LEMMA LinesAreSet ==
  ASSUME LineInv, NEW line \in Seq(Characters), NEW at \in 0 .. Len(line),
         SetLine(line, at), HistoryIsOfLines', client' = client \/ Terminal
  PROVE  LineInv'
  <1>1. text' = line /\ cursor' = at
    BY DEF SetLine
  <1>2. PICK candidates :
          /\ candidates = IF Terminal THEN <<>> ELSE LocalSlashCandidates(line)
          /\ menu' = IF candidates = <<>> THEN NoMenu
                     ELSE [candidates |-> candidates, selected |-> 1]
    BY DEF SetLine, ShowMenu
  <1>3. CASE candidates = <<>>
    <2>1. ~MenuIsOpen'
      BY <1>2, <1>3 DEF MenuIsOpen, NoMenu
    <2>. QED
      BY <1>1, <2>1 DEF LineInv, MenuIsOfTheLine
  <1>4. CASE candidates # <<>>
    <2>1. ~Terminal /\ client' = client /\ candidates = LocalSlashCandidates(line)
      BY <1>2, <1>4
    <2>2. PICK n \in Nat : candidates \in [1 .. n -> {<<Slash, "h">>}]
      BY <2>1, HelpIsOffered
    <2>3. 1 \in DOMAIN candidates
      <3>1. n # 0
        <4>1. SUFFICES ASSUME n = 0
                       PROVE  FALSE
          OBVIOUS
        <4>2. candidates = <<>>
          BY <2>2, <4>1
        <4>. QED
          BY <1>4, <4>2
      <3>. QED
        BY <2>2, <3>1
    <2>4. ~Terminal'
      BY <2>1 DEF Terminal
    <2>. QED
      BY <1>1, <1>2, <1>4, <2>1, <2>3, <2>4 DEF LineInv, MenuIsOfTheLine
  <1>. QED
    BY <1>3, <1>4

(* Parts of lines, and lines one after the other, are lines.               *)
LEMMA EndsAreLines ==
  ASSUME NEW S, NEW line \in Seq(S), NEW at \in 0 .. Len(line), NEW tail \in Seq(S)
  PROVE  /\ SubSeq(line, 1, at) \in Seq(S) /\ SubSeq(line, at + 1, Len(line)) \in Seq(S)
         /\ line \o tail \in Seq(S) /\ Len(line) \in 0 .. Len(line \o tail)
  <1>1. SubSeq(line, 1, at) \in Seq(S)
    BY Beginnings
  <1>2. SubSeq(line, at + 1, Len(line)) \in Seq(S)
    BY Rests
  <1>3. line \o tail \in Seq(S)
    OBVIOUS
  <1>4. Len(line \o tail) = Len(line) + Len(tail)
    OBVIOUS
  <1>. QED
    BY <1>1, <1>2, <1>3, <1>4

(* The line at the cursor.                                                 *)
LEMMA BeforeAndAfter ==
  ASSUME LineInv
  PROVE  /\ Before \in Seq(Characters) /\ Len(Before) = cursor
         /\ After \in Seq(Characters)
  <1>1. text \in Seq(Characters) /\ cursor \in 0 .. Len(text) /\ <<>> \in Seq(Characters)
    BY DEF LineInv
  <1>. QED
    BY <1>1, Beginnings, Rests DEF Before, After

(* It is put together of what is before the cursor and what is after.      *)
LEMMA LinesAreRewritten ==
  ASSUME LineInv, NEW before \in Seq(Characters), NEW after \in Seq(Characters),
         Rewrite(before, after), HistoryIsOfLines', client' = client
  PROVE  LineInv'
  <1>1. before \o after \in Seq(Characters) /\ Len(before) \in 0 .. Len(before \o after)
    <2>1. 0 \in 0 .. Len(before)
      OBVIOUS
    <2>. QED
      BY <2>1, EndsAreLines
  <1>. QED
    BY <1>1, LinesAreSet DEF Rewrite

(* It is another line altogether.                                          *)
LEMMA LinesAreReplaced ==
  ASSUME LineInv, NEW line \in Seq(Characters), ReplaceInput(line),
         HistoryIsOfLines', client' = client \/ Terminal
  PROVE  LineInv'
  <1>1. Len(line) \in 0 .. Len(line)
    OBVIOUS
  <1>. QED
    BY <1>1, LinesAreSet DEF ReplaceInput

(* The lines that can be recalled.                                         *)
LEMMA HistoriesAreKept ==
  ASSUME HistoryIsOfLines, UNCHANGED recall \/ recall' = NoRecall(recall.history)
  PROVE  HistoryIsOfLines'
  <1>1. CASE UNCHANGED recall
    BY <1>1 DEF HistoryIsOfLines
  <1>2. CASE recall' = NoRecall(recall.history)
    <2>1. recall'.history = recall.history /\ recall'.index = 0 /\ recall'.draft = <<>>
          /\ recall' = [history |-> recall'.history, index |-> recall'.index,
                        draft |-> recall'.draft]
      BY <1>2 DEF NoRecall
    <2>2. <<>> \in Seq(Characters) /\ 0 \in 0 .. Len(recall.history)
      BY DEF HistoryIsOfLines
    <2>. QED
      BY <2>1, <2>2 DEF HistoryIsOfLines
  <1>. QED
    BY <1>1, <1>2

(* A line is submitted.                                                    *)
LEMMA HistoriesGrow ==
  ASSUME HistoryIsOfLines, NEW line \in Seq(Characters), RecordSubmittedInput(line)
  PROVE  HistoryIsOfLines'
  <1>1. Recorded(line) \in Seq(Seq(Characters))
    <2>1. recall.history \in Seq(Seq(Characters))
      BY DEF HistoryIsOfLines
    <2>2. Append(recall.history, line) \in Seq(Seq(Characters))
      BY <2>1, Appendings
    <2>. QED
      BY <2>1, <2>2 DEF Recorded
  <1>2. PICK history : history = Recorded(line)
    OBVIOUS
  <1>3. recall'.history = history /\ recall'.index = 0 /\ recall'.draft = <<>>
        /\ recall' = [history |-> recall'.history, index |-> recall'.index,
                      draft |-> recall'.draft]
    BY <1>2 DEF RecordSubmittedInput, NoRecall
  <1>4. <<>> \in Seq(Characters) /\ 0 \in 0 .. Len(history)
    BY <1>1, <1>2
  <1>. QED
    BY <1>1, <1>2, <1>3, <1>4 DEF HistoryIsOfLines

(* A line is recalled.                                                     *)
LEMMA RecalledLines ==
  ASSUME LineInv, NEW index \in 0 .. Len(recall.history), NEW draft \in Seq(Characters),
         Recall(index, draft), client' = client
  PROVE  LineInv'
  <1>1. /\ recall.history \in Seq(Seq(Characters)) /\ recall.draft \in Seq(Characters)
        /\ recall = [history |-> recall.history, index |-> recall.index,
                     draft |-> recall.draft]
    BY DEF LineInv, HistoryIsOfLines
  <1>2. recall' = [history |-> recall.history, index |-> index, draft |-> draft]
    BY <1>1 DEF Recall
  <1>3. HistoryIsOfLines'
    BY <1>1, <1>2 DEF HistoryIsOfLines
  <1>4. PICK line : line = IF index = 0 THEN recall.draft ELSE recall.history[index]
    OBVIOUS
  <1>5. line \in Seq(Characters)
    <2>1. index # 0 => index \in 1 .. Len(recall.history)
      OBVIOUS
    <2>2. index # 0 => recall.history[index] \in Seq(Characters)
      BY <1>1, <2>1
    <2>. QED
      BY <1>1, <1>4, <2>2
  <1>6. ReplaceInput(line)
    BY <1>4 DEF Recall
  <1>. QED
    BY <1>3, <1>5, <1>6, LinesAreReplaced

(* A completion is put in.                                                 *)
LEMMA LinesAreCompleted ==
  ASSUME LineInv, NEW insert \in Seq(Characters), Complete(insert), client' = client
  PROVE  LineInv'
  <1>1. Before \in Seq(Characters) /\ After \in Seq(Characters)
    BY BeforeAndAfter
  <1>2. PICK p : p = CompletionStart(Before)
    OBVIOUS
  <1>3. p \in 0 .. Len(Before)
    BY <1>1, <1>2, LastBlank DEF CompletionStart
  <1>4. Completed(Before, insert) \in Seq(Characters)
    BY <1>1, <1>2, <1>3, Insertions DEF Completed
  <1>5. HistoryIsOfLines'
    BY HistoriesAreKept DEF LineInv, Complete, ResetHistoryNavigation
  <1>. QED
    BY <1>1, <1>4, <1>5, LinesAreRewritten DEF Complete

(* The page puts its completion in.                                        *)
LEMMA DraftsAreCompleted ==
  ASSUME LineInv, ~Terminal, MenuIsOpen, ApplyToDraft, client' = client
  PROVE  LineInv'
  <1>1. Selected = <<Slash, "h">> /\ ClassifySlashCompletionPrefix(text).kind = "command"
    BY HelpIsSelected
  <1>2. text \in Seq(Characters) /\ <<>> \in Seq(Characters)
    BY DEF LineInv
  <1>3. ApplySlashCompletion(text, <<Slash, "h">>) \in Seq(Characters)
    BY <1>1, <1>2, HelpIsObeyed
  <1>4. HistoryIsOfLines'
    BY HistoriesAreKept DEF LineInv, ApplyToDraft, historyVars
  <1>5. Rewrite(ApplySlashCompletion(text, <<Slash, "h">>), <<>>)
    BY <1>1 DEF ApplyToDraft
  <1>. QED
    BY <1>2, <1>3, <1>4, <1>5, LinesAreRewritten

(* The menu is closed, or what is selected of it changes.                  *)
LEMMA ClosedMenus ==
  ASSUME LineInv, menu' = NoMenu, UNCHANGED <<text, cursor, recall>>
  PROVE  LineInv'
  <1>1. ~MenuIsOpen'
    BY DEF MenuIsOpen, NoMenu
  <1>2. HistoryIsOfLines'
    BY HistoriesAreKept DEF LineInv
  <1>. QED
    BY <1>1, <1>2 DEF LineInv, MenuIsOfTheLine

(* Nothing of the line changes.                                            *)
LEMMA NothingChanges ==
  ASSUME LineInv, UNCHANGED <<client, lineVars, recall>>
  PROVE  LineInv'
  BY DEF LineInv, lineVars, MenuIsOfTheLine, MenuIsOpen, HistoryIsOfLines, Terminal

(* What is selected is one of the menu again.                              *)
LEMMA Selections ==
  ASSUME LineInv, CycleMenu
  PROVE  LineInv'
  <1>1. MenuIsOpen /\ UNCHANGED <<client, text, cursor, askedAt, recall>>
    BY DEF CycleMenu, historyVars, Unsent
  <1>2. PICK n \in Nat \ {0} : menu.candidates \in [1 .. n -> Seq(Characters)]
    BY <1>1, MenusAreOffers
  <1>3. /\ menu = [candidates |-> menu.candidates, selected |-> menu.selected]
        /\ menu.selected \in 1 .. n /\ Len(menu.candidates) = n
    BY <1>1, <1>2 DEF LineInv, MenuIsOfTheLine
  <1>4. PICK next : /\ next \in {SelectNext(menu.selected), SelectPrevious(menu.selected)}
                    /\ menu' = [candidates |-> menu.candidates, selected |-> next]
    BY <1>3 DEF CycleMenu
  <1>5. next \in 1 .. n
    <2>1. SelectNext(menu.selected) \in 1 .. n
      <3>1. menu.selected % n \in 0 .. n - 1
        BY <1>2, <1>3
      <3>. QED
        BY <1>2, <1>3, <3>1 DEF SelectNext
    <2>2. SelectPrevious(menu.selected) \in 1 .. n
      BY <1>2, <1>3 DEF SelectPrevious
    <2>. QED
      BY <1>4, <2>1, <2>2
  <1>6. /\ menu'.candidates = menu.candidates /\ menu'.selected = next
        /\ menu' = [candidates |-> menu'.candidates, selected |-> menu'.selected]
    BY <1>4
  <1>7. menu'.selected \in DOMAIN menu'.candidates
    BY <1>2, <1>5, <1>6
  <1>8. HistoryIsOfLines'
    BY <1>1, HistoriesAreKept DEF LineInv
  <1>. QED
    BY <1>1, <1>6, <1>7, <1>8 DEF LineInv, MenuIsOfTheLine, MenuIsOpen, Terminal

(* The requests that wait are requests.                                    *)
RequestsAreKnown == pending \subseteq KnownRequests

(* Nothing else is ever asked for.                                         *)
LEMMA KnownRequestsInvariant == ComposerSpec => []RequestsAreKnown
  <1>1. ComposerInit => RequestsAreKnown
    BY DEF ComposerInit, RequestsAreKnown
  <1>2. RequestsAreKnown /\ [ComposerNext]_composerVars => RequestsAreKnown'
    <2>1. SUFFICES ASSUME RequestsAreKnown, [ComposerNext]_composerVars
                   PROVE  RequestsAreKnown'
      OBVIOUS
    <2>2. pending' \subseteq pending \/ pending' \in SUBSET KnownRequests
      <3>1. CASE SubmitCurrentInput
        BY <3>1 DEF SubmitCurrentInput, RunCommand, Decide, SubmitPrompt
      <3>2. CASE OthersChangeRequests
        BY <3>2 DEF OthersChangeRequests
      <3>3. CASE UNCHANGED composerVars
        BY <3>3 DEF composerVars
      <3>4. CASE UNCHANGED pending
        BY <3>4
      <3>. QED
        BY <2>1, <3>1, <3>2, <3>3, <3>4
        DEF ComposerNext, TerminalStep, WebStep, EnterSubmits, PasteLineEnd, InsertChar,
            Backspace, MoveCursor, CycleMenu, DismissMenu, EnterCompletes,
            AskForCompletions, RecallPreviousInput, RecallNextInput, PickCandidate,
            SubmitDraft, PromptAccepted, PromptRefused, TurnEnds, ReloadPage, Unsent
    <2>. QED
      BY <2>1, <2>2 DEF RequestsAreKnown
  <1>. QED
    BY <1>1, <1>2, PTL DEF ComposerSpec

(* Every step keeps the menu that of the line.                             *)
LEMMA LineInvariant == ComposerSpec => []LineInv
  <1>1. ComposerInit => LineInv
    <2>1. SUFFICES ASSUME ComposerInit
                   PROVE  LineInv
      OBVIOUS
    <2>2. PICK history \in Earlier : recall = NoRecall(history)
      BY <2>1 DEF ComposerInit
    <2>3. history \in Seq(Seq(Characters))
      BY ComposerAssumption
    <2>4. recall.history = history /\ recall.index = 0 /\ recall.draft = <<>>
          /\ recall = [history |-> recall.history, index |-> recall.index,
                       draft |-> recall.draft]
      BY <2>2 DEF NoRecall
    <2>5. <<>> \in Seq(Characters) /\ 0 \in 0 .. Len(history) /\ 0 \in 0 .. Len(<<>>)
      BY <2>3
    <2>6. HistoryIsOfLines
      BY <2>3, <2>4, <2>5 DEF HistoryIsOfLines
    <2>7. ~MenuIsOpen
      BY <2>1 DEF ComposerInit, MenuIsOpen, NoMenu
    <2>. QED
      BY <2>1, <2>5, <2>6, <2>7 DEF ComposerInit, LineInv, MenuIsOfTheLine
  <1>2. RequestsAreKnown /\ LineInv /\ [ComposerNext]_composerVars => LineInv'
    <2>1. SUFFICES ASSUME RequestsAreKnown, LineInv, [ComposerNext]_composerVars
                   PROVE  LineInv'
      OBVIOUS
    <2>. USE <2>1
    <2>a. /\ Before \in Seq(Characters) /\ Len(Before) = cursor
          /\ After \in Seq(Characters) /\ text \in Seq(Characters)
          /\ cursor \in 0 .. Len(text) /\ <<>> \in Seq(Characters)
      BY BeforeAndAfter DEF LineInv
    <2>2. CASE UNCHANGED composerVars
      BY <2>2, NothingChanges DEF composerVars, historyVars
    <2>3. ASSUME NEW ch \in Keys, InsertChar(ch)
          PROVE  LineInv'
      <3>1. ch \in Characters
        BY DEF Characters
      <3>2. Append(Before, ch) \in Seq(Characters)
        BY <2>a, <3>1, Appendings
      <3>3. HistoryIsOfLines'
        BY <2>3, HistoriesAreKept DEF LineInv, InsertChar, ResetHistoryNavigation
      <3>. QED
        BY <2>3, <2>a, <3>2, <3>3, LinesAreRewritten DEF InsertChar, Unsent
    <2>4. CASE Backspace
      <3>1. Front(Before) \in Seq(Characters)
        <4>1. Len(Before) - 1 \in 0 .. Len(Before)
          BY <2>4, <2>a DEF Backspace
        <4>. QED
          BY <2>a, <4>1, Beginnings DEF Front
      <3>2. HistoryIsOfLines'
        BY <2>4, HistoriesAreKept DEF LineInv, Backspace, ResetHistoryNavigation
      <3>. QED
        BY <2>4, <2>a, <3>1, <3>2, LinesAreRewritten DEF Backspace, Unsent
    <2>5. CASE MoveCursor
      <3>1. /\ cursor' \in 0 .. Len(text)
            /\ askedAt' = IF MenuIsOpen THEN askedAt ELSE cursor'
            /\ UNCHANGED <<client, text, menu, recall>>
        BY <2>5 DEF MoveCursor, historyVars, Unsent
      <3>2. HistoryIsOfLines'
        BY <3>1, HistoriesAreKept DEF LineInv
      <3>. QED
        BY <3>1, <3>2 DEF LineInv, MenuIsOfTheLine, MenuIsOpen, Terminal
    <2>6. CASE CycleMenu
      BY <2>6, Selections
    <2>7. CASE DismissMenu
      BY <2>7, ClosedMenus DEF DismissMenu, historyVars
    <2>8. CASE EnterCompletes
      <3>1. MenuIsOpen /\ client' = client
        BY <2>8 DEF EnterCompletes, Unsent
      <3>2. CASE Terminal /\ Complete(Selected)
        BY <3>1, <3>2, SelectedIsALine, LinesAreCompleted
      <3>3. CASE Web /\ ApplyToDraft
        BY <3>1, <3>3, DraftsAreCompleted DEF Web, Terminal
      <3>. QED
        BY <2>8, <3>2, <3>3 DEF EnterCompletes
    <2>9. CASE AskForCompletions
      <3>1. Terminal /\ client' = client /\ UNCHANGED pending
        BY <2>9 DEF AskForCompletions, Unsent
      <3>2. PICK candidates : candidates = ResolveSlashCompletions(Before, pending)
        OBVIOUS
      <3>3. PICK n \in Nat : candidates \in [1 .. n -> KnownRequests \cup InsertTexts]
        BY <2>a, <3>2, WhatIsOffered
      <3>4. candidates \in [1 .. n -> Seq(Characters)]
        BY <3>3, InsertsAreLines
      <3>5. CASE Len(candidates) = 1
        <4>1. Complete(candidates[1])
          BY <2>9, <3>2, <3>5 DEF AskForCompletions
        <4>2. candidates[1] \in Seq(Characters)
          BY <3>4, <3>5
        <4>. QED
          BY <3>1, <4>1, <4>2, LinesAreCompleted
      <3>6. CASE Len(candidates) # 1
        <4>1. /\ ShowMenu(candidates) /\ askedAt' = cursor
              /\ UNCHANGED <<text, cursor, recall>>
          BY <2>9, <3>2, <3>6 DEF AskForCompletions, historyVars
        <4>2. CASE candidates = <<>>
          BY <4>1, <4>2, ClosedMenus DEF ShowMenu
        <4>3. CASE candidates # <<>>
          <5>1. menu' = [candidates |-> candidates, selected |-> 1]
            BY <4>1, <4>3 DEF ShowMenu
          <5>2. 1 \in DOMAIN candidates
            <6>1. n # 0
              <7>1. SUFFICES ASSUME n = 0
                             PROVE  FALSE
                OBVIOUS
              <7>2. candidates = <<>>
                BY <3>4, <7>1
              <7>. QED
                BY <4>3, <7>2
            <6>. QED
              BY <3>4, <6>1
          <5>3. HistoryIsOfLines'
            BY <4>1, HistoriesAreKept DEF LineInv
          <5>4. pending \in SUBSET KnownRequests
            BY DEF RequestsAreKnown
          <5>5. candidates = ResolveSlashCompletions(SubSeq(text', 1, askedAt'), pending)
            BY <3>2, <4>1 DEF Before
          <5>. QED
            BY <2>a, <3>1, <4>1, <5>1, <5>2, <5>3, <5>4, <5>5
            DEF LineInv, MenuIsOfTheLine, MenuIsOpen, Terminal
        <4>. QED
          BY <4>2, <4>3
      <3>. QED
        BY <3>5, <3>6
    <2>10. CASE SubmitCurrentInput
      <3>1. PICK line : line = Trim(text)
        OBVIOUS
      <3>2. line \in Seq(Characters)
        BY <2>a, <3>1, TrimmedLines
      <3>3. Terminal /\ HistoryIsOfLines'
        BY <2>10, <3>1, <3>2, HistoriesGrow DEF LineInv, SubmitCurrentInput
      <3>4. CASE ReplaceInput(<<>>)
        BY <2>a, <3>3, <3>4, LinesAreReplaced
      <3>5. CASE UNCHANGED <<client, lineVars>>
        BY <3>3, <3>5 DEF LineInv, lineVars, MenuIsOfTheLine, MenuIsOpen, Terminal
      <3>. QED
        BY <2>10, <3>4, <3>5 DEF SubmitCurrentInput, RunCommand, SubmitPrompt, ClearInput
    <2>11. CASE RecallPreviousInput
      <3>1. client' = client /\ recall.history # <<>>
        BY <2>11 DEF RecallPreviousInput, Unsent
      <3>2. /\ recall.history \in Seq(Seq(Characters)) /\ recall.draft \in Seq(Characters)
            /\ recall.index \in 0 .. Len(recall.history)
        BY DEF LineInv, HistoryIsOfLines
      <3>3. Len(recall.history) \in Nat \ {0}
        BY <3>1, <3>2
      <3>4. PICK index \in 0 .. Len(recall.history), draft \in Seq(Characters) :
              Recall(index, draft)
        <4>1. CASE recall.index = 0
          BY <2>11, <2>a, <3>3, <4>1 DEF RecallPreviousInput
        <4>2. CASE recall.index = 1
          <5>1. Recall(1, recall.draft)
            BY <2>11, <4>2 DEF RecallPreviousInput
          <5>2. 1 \in 0 .. Len(recall.history)
            BY <3>3
          <5>. QED
            BY <3>2, <5>1, <5>2
        <4>3. CASE recall.index \notin {0, 1}
          <5>1. Recall(recall.index - 1, recall.draft)
            BY <2>11, <4>3 DEF RecallPreviousInput
          <5>2. recall.index - 1 \in 0 .. Len(recall.history)
            BY <3>2, <4>3
          <5>. QED
            BY <3>2, <5>1, <5>2
        <4>. QED
          BY <4>1, <4>2, <4>3
      <3>. QED
        BY <3>1, <3>4, RecalledLines
    <2>12. CASE RecallNextInput
      <3>1. client' = client
        BY <2>12 DEF RecallNextInput, Unsent
      <3>2. /\ recall.history \in Seq(Seq(Characters)) /\ recall.draft \in Seq(Characters)
            /\ recall.index \in 0 .. Len(recall.history)
        BY DEF LineInv, HistoryIsOfLines
      <3>3. PICK index \in 0 .. Len(recall.history), draft \in Seq(Characters) :
              Recall(index, draft)
        <4>1. CASE recall.index < Len(recall.history)
          BY <2>12, <3>2, <4>1 DEF RecallNextInput
        <4>2. CASE ~(recall.index < Len(recall.history))
          <5>1. Recall(0, <<>>)
            BY <2>12, <4>2 DEF RecallNextInput
          <5>2. 0 \in 0 .. Len(recall.history)
            BY <3>2
          <5>. QED
            BY <2>a, <5>1, <5>2
        <4>. QED
          BY <4>1, <4>2
      <3>. QED
        BY <3>1, <3>3, RecalledLines
    <2>13. CASE PickCandidate
      BY <2>13, DraftsAreCompleted DEF PickCandidate, Unsent, Web, Terminal
    <2>14. CASE SubmitDraft
      <3>1. client' = client /\ UNCHANGED recall
        BY <2>14 DEF SubmitDraft, historyVars
      <3>2. CASE ReplaceInput(<<>>)
        <4>1. HistoryIsOfLines'
          BY <3>1, HistoriesAreKept DEF LineInv
        <4>. QED
          BY <2>a, <3>1, <3>2, <4>1, LinesAreReplaced
      <3>3. CASE UNCHANGED lineVars
        BY <3>1, <3>3, NothingChanges
      <3>4. CASE menu' = NoMenu /\ UNCHANGED <<text, cursor>>
        BY <3>1, <3>4, ClosedMenus
      <3>. QED
        BY <2>14, <3>2, <3>3, <3>4 DEF SubmitDraft, ClearInput
    <2>15. CASE PromptAccepted
      <3>1. client' = client /\ UNCHANGED recall /\ ReplaceInput(<<>>)
        BY <2>15 DEF PromptAccepted, historyVars, ClearInput
      <3>2. HistoryIsOfLines'
        BY <3>1, HistoriesAreKept DEF LineInv
      <3>. QED
        BY <2>a, <3>1, <3>2, LinesAreReplaced
    <2>16. CASE PromptRefused
      BY <2>16, NothingChanges DEF PromptRefused, historyVars
    <2>17. CASE TurnEnds
      BY <2>17, NothingChanges DEF TurnEnds, historyVars
    <2>18. CASE ReloadPage
      <3>1. client' = client /\ UNCHANGED recall /\ ReplaceInput(text)
        BY <2>18 DEF ReloadPage, historyVars
      <3>2. HistoryIsOfLines'
        BY <3>1, HistoriesAreKept DEF LineInv
      <3>. QED
        BY <2>a, <3>1, <3>2, LinesAreReplaced
    <2>19. CASE OthersChangeRequests
      BY <2>19, NothingChanges DEF OthersChangeRequests, historyVars
    <2>. QED
      BY <2>2, <2>3, <2>4, <2>5, <2>6, <2>7, <2>8, <2>9, <2>10, <2>11, <2>12, <2>13, <2>14,
         <2>15, <2>16, <2>17, <2>18, <2>19
      DEF ComposerNext, TerminalStep, WebStep, EnterSubmits, PasteLineEnd
  <1>. QED
    BY <1>1, <1>2, KnownRequestsInvariant, PTL DEF ComposerSpec

(* Whatever is offered to complete a line, or put in at once, makes a line *)
(* that does what was offered: the request is decided by the command the   *)
(* line began with, the command is the one that was chosen, and the page's *)
(* help is help.                                                           *)
THEOREM CompletionsDoWhatTheySay == ComposerSpec => []CompletionsAreObeyed
  <1>1. LineInv => CompletionsAreObeyed
    <2>1. SUFFICES ASSUME LineInv
                   PROVE  CompletionsAreObeyed
      OBVIOUS
    <2>2. text \in Seq(Characters) /\ cursor \in 0 .. Len(text)
      BY <2>1 DEF LineInv
    <2>3. CASE Terminal
      <3>1. SUFFICES ASSUME MenuIsOpen => cursor = askedAt,
                            NEW offered,
                            offered = IF MenuIsOpen THEN menu.candidates
                                      ELSE ResolveSlashCompletions(Before, pending),
                            NEW i \in DOMAIN offered
                     PROVE  Obeys(Completed(Before, offered[i]), offered[i])
        BY <2>3 DEF CompletionsAreObeyed
      <3>2. PICK waiting : offered = ResolveSlashCompletions(Before, waiting)
        BY <2>1, <2>3, <3>1 DEF LineInv, MenuIsOfTheLine, Before
      <3>. QED
        BY <2>2, <3>1, <3>2, OfferedIsObeyed
    <2>4. CASE ~Terminal
      <3>1. SUFFICES ASSUME MenuIsOpen
                     PROVE  ParseBrowserSlashAction(Trim(ApplySlashCompletion(text, Selected)))
                              = Does("help")
        BY <2>4 DEF CompletionsAreObeyed
      <3>2. Selected = <<Slash, "h">> /\ ClassifySlashCompletionPrefix(text).kind = "command"
        BY <2>1, <2>4, <3>1, HelpIsSelected
      <3>. QED
        BY <2>2, <3>2, HelpIsObeyed
    <2>. QED
      BY <2>3, <2>4
  <1>. QED
    BY <1>1, LineInvariant, PTL
=============================================================================
