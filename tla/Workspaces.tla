----------------------------- MODULE Workspaces -----------------------------
(***************************************************************************)
(* The workspaces of one user and the page that lists them: the rows of    *)
(* `workspaces` (workspace_store.rs), the handlers of server/workspace_api *)
(* and the page of the web frontend (presentation/workspaces).             *)
(*                                                                         *)
(* Every change on the page is a request of its own task, and every change *)
(* that succeeded reloads the list; so lists may overtake each other, and  *)
(* an answer may find the page busy with another workspace.                *)
(*                                                                         *)
(* A branch is told by the workspace whose repository it is in; an         *)
(* upstream never changes.  Left out: the sessions and the agent profiles  *)
(* shown beside the workspaces, the messages, and the fields of the form   *)
(* for a new workspace.                                                    *)
(***************************************************************************)
EXTENDS FiniteSets

CONSTANTS
  Workspaces,  (* the ids workspaces get: bounds the workspaces ever made  *)
  Names,       (* what a workspace may be called                           *)
  Requests,    (* bound: the requests in progress at one time              *)
  Nobody       (* no workspace                                             *)

ASSUME WorkspacesAssumption ==
  /\ Nobody \notin Workspaces
  /\ Names \cap {"none", "free", "deleted"} = {}

VARIABLES
  row,       (* the rows of workspaces: a name, "free" or "deleted"        *)
  occupied,  (* the workspaces with a session that is not deleted          *)
  request,   (* the requests of the page                                   *)
  page,      (* the page, while it is open                                 *)
  overtaken  (* history: the rows changed by others, an answer was lost or *)
             (* a list was asked for before the last one came              *)

workspacesVars == <<row, occupied, request, page, overtaken>>

-----------------------------------------------------------------------------
Rows == [w \in Workspaces |-> IF row[w] \in Names THEN row[w] ELSE "none"]
NoRows == [w \in Workspaces |-> "none"]
Active(w) == row[w] \in Names

(* WorkspacesPageState.  card is what the cards on the screen were built   *)
(* with; modal is the workspace of the dialog that starts a chat, which is *)
(* shown for as long as there is one, and branch the branch chosen there.  *)
NewPage ==
  [open |-> TRUE, loading |-> TRUE, list |-> NoRows, card |-> NoRows,
   editing |-> Nobody, draft |-> "none", saving |-> Nobody,
   deleting |-> Nobody, opening |-> Nobody, creating |-> FALSE,
   modal |-> Nobody, branch |-> Nobody]

(* of is the workspace that the branch it sends is of.                     *)
NoRequest == [stage |-> "idle", kind |-> "list", on |-> Nobody,
              text |-> "none", of |-> Nobody, ok |-> FALSE, list |-> NoRows]

Sent(kind, w) == [NoRequest EXCEPT !.stage = "sent", !.kind = kind, !.on = w]

Idle(r) == request[r].stage = "idle"
AtRest == \A r \in Requests : Idle(r)
Reloading(r) ==
  request[r].kind = "list" /\ request[r].stage \in {"sent", "answered"}

-----------------------------------------------------------------------------
(* Reloading the list.                                                     *)

(* spawn_workspace_reload, by the task of request r: the dashboard goes.   *)
Reload(r, p) ==
  /\ request' = [request EXCEPT ![r] = Sent("list", Nobody)]
  /\ page' = [p EXCEPT !.loading = TRUE, !.card = NoRows]
  /\ overtaken' = \E q \in Requests \ {r} : Reloading(q)

(* The cards are keyed by the workspace: one that is there stays as it was *)
(* built, unless the dashboard was gone in between.                        *)
Cards(p, list) ==
  [w \in Workspaces |->
     IF list[w] = "none" \/ p.card[w] = "none" THEN list[w] ELSE p.card[w]]

Visit(r) ==
  /\ ~page.open
  /\ Idle(r)
  /\ Reload(r, NewPage)
  /\ UNCHANGED <<row, occupied>>

(* The page is left: what it asked for is done, and nobody waits for it.   *)
Leave ==
  /\ page.open
  /\ page' = [NewPage EXCEPT !.open = FALSE, !.loading = FALSE]
  /\ request' = [r \in Requests |->
       IF request[r].stage \in {"sent", "unheard"}
       THEN [request[r] EXCEPT !.stage = "unheard"] ELSE NoRequest]
  /\ UNCHANGED <<row, occupied, overtaken>>

Shown(w) == page.open /\ page.card[w] # "none"
Ready(w) == Shown(w) /\ page.deleting # w /\ page.opening # w

Ask(r, question) ==
  /\ Idle(r)
  /\ request' = [request EXCEPT ![r] = question]
  /\ UNCHANGED <<row, occupied, overtaken>>

PageOnly == UNCHANGED <<row, occupied, request, overtaken>>

-----------------------------------------------------------------------------
(* Creating, renaming and deleting.                                        *)

CreateWorkspace(r, n) ==
  /\ page.open
  /\ ~page.creating
  /\ Ask(r, [Sent("create", Nobody) EXCEPT !.text = n])
  /\ page' = [page EXCEPT !.creating = TRUE]

(* Another edit, which loses the focus, has ended before, or is saved.     *)
Edit(w) ==
  /\ Ready(w)
  /\ page.editing # w
  /\ page' = [page EXCEPT !.editing = w,
                          !.draft = page.card[w]]
  /\ PageOnly

TypeName(w, n) ==
  /\ Shown(w)
  /\ page.editing = w
  /\ page.saving # w
  /\ page' = [page EXCEPT !.draft = n]
  /\ PageOnly

(* By its button, a click elsewhere or a change of focus.                  *)
CancelEdit(w) ==
  /\ page.open
  /\ page.editing = w
  /\ page.saving # w
  /\ page' = [page EXCEPT !.editing = Nobody, !.draft = "none"]
  /\ PageOnly

Save(r, w) ==
  /\ Shown(w)
  /\ page.editing = w
  /\ page.saving = Nobody
  /\ page.draft # "none"
  /\ Ask(r, [Sent("update", w) EXCEPT !.text = page.draft])
  /\ page' = [page EXCEPT !.saving = w]

Delete(r, w) ==
  /\ Ready(w)
  /\ page.editing # w
  /\ page.deleting = Nobody
  /\ Ask(r, Sent("delete", w))
  /\ page' = [page EXCEPT !.deleting = w]

-----------------------------------------------------------------------------
(* Starting a chat.                                                        *)

OpenChat(r, w) ==
  /\ Ready(w)
  /\ page.opening = Nobody
  /\ Ask(r, Sent("branches", w))
  /\ page' = [page EXCEPT !.modal = w, !.branch = Nobody]

(* It can be closed at any time, also when the chat is being started.      *)
CloseModal(p) == [p EXCEPT !.modal = Nobody, !.branch = Nobody]

CancelChat ==
  /\ page.modal # Nobody
  /\ page' = CloseModal(page)
  /\ PageOnly

StartChat(r) ==
  /\ page.modal # Nobody
  /\ page.opening = Nobody
  /\ page.branch # Nobody
  /\ Ask(r, [Sent("start", page.modal) EXCEPT !.of = page.branch])
  /\ page' = [page EXCEPT !.opening = page.modal]

-----------------------------------------------------------------------------
(* The handlers.  Each is one transaction as far as it goes here.          *)

AtServer(r, kind) ==
  request[r].kind = kind /\ request[r].stage \in {"sent", "unheard"}

Answer(r, ok, list) ==
  request' = [request EXCEPT ![r] =
    IF @.stage = "unheard" THEN NoRequest
    ELSE [@ EXCEPT !.stage = "answered", !.ok = ok, !.list = list]]

(* A change nobody waits for is like one by another client.                *)
Noticed(r) == overtaken' = (overtaken \/ request[r].stage = "unheard")

ServeList(r) ==
  /\ AtServer(r, "list")
  /\ Answer(r, TRUE, Rows)
  /\ UNCHANGED <<row, occupied, page, overtaken>>

ServeCreate(r, w) ==
  /\ AtServer(r, "create")
  /\ row[w] = "free"
  /\ row' = [row EXCEPT ![w] = request[r].text]
  /\ Answer(r, TRUE, NoRows)
  /\ Noticed(r)
  /\ UNCHANGED <<occupied, page>>

ServeUpdate(r) ==
  /\ AtServer(r, "update")
  /\ Active(request[r].on)
  /\ row' = [row EXCEPT ![request[r].on] = request[r].text]
  /\ Answer(r, TRUE, NoRows)
  /\ Noticed(r)
  /\ UNCHANGED <<occupied, page>>

ServeDelete(r) ==
  /\ AtServer(r, "delete")
  /\ Active(request[r].on)
  /\ request[r].on \notin occupied
  /\ row' = [row EXCEPT ![request[r].on] = "deleted"]
  /\ Answer(r, TRUE, NoRows)
  /\ Noticed(r)
  /\ UNCHANGED <<occupied, page>>

ServeBranches(r) ==
  /\ AtServer(r, "branches")
  /\ Active(request[r].on)
  /\ Answer(r, TRUE, NoRows)
  /\ UNCHANGED <<row, occupied, page, overtaken>>

ServeStart(r) ==
  /\ AtServer(r, "start")
  /\ Active(request[r].on)
  /\ occupied' = occupied \cup {request[r].on}
  /\ Answer(r, TRUE, NoRows)
  /\ UNCHANGED <<row, page, overtaken>>

(* A missing or occupied workspace, a name that is too long, a repository  *)
(* that is not reached.                                                    *)
Refuse(r) ==
  /\ request[r].stage \in {"sent", "unheard"}
  /\ request[r].kind # "list"
  /\ Answer(r, FALSE, NoRows)
  /\ UNCHANGED <<row, occupied, page, overtaken>>

(* The page gets an error, whether the handler has run or not.             *)
LoseAnswer(r) ==
  /\ request[r].stage = "answered"
  /\ request[r].ok
  /\ request' = [request EXCEPT ![r].ok = FALSE]
  /\ overtaken' = TRUE
  /\ UNCHANGED <<row, occupied, page>>

-----------------------------------------------------------------------------
(* The answers.                                                            *)

Answered(r, kind, ok) ==
  /\ request[r].stage = "answered"
  /\ request[r].kind = kind
  /\ request[r].ok = ok

Finished(r) ==
  /\ request' = [request EXCEPT ![r] = NoRequest]
  /\ UNCHANGED <<row, occupied, overtaken>>

FinishReload(r) ==
  /\ Answered(r, "list", TRUE)
  /\ page' = [page EXCEPT !.loading = FALSE, !.list = request[r].list,
                          !.card = Cards(page, request[r].list)]
  /\ Finished(r)

FailReload(r) ==
  /\ Answered(r, "list", FALSE)
  /\ page' = [page EXCEPT !.loading = FALSE, !.card = Cards(page, page.list)]
  /\ Finished(r)

Created(r) ==
  /\ Answered(r, "create", TRUE)
  /\ Reload(r, [page EXCEPT !.creating = FALSE])
  /\ UNCHANGED <<row, occupied>>

(* Whatever is edited by then is no longer.                                *)
Saved(r) ==
  /\ Answered(r, "update", TRUE)
  /\ Reload(r, [page EXCEPT !.saving = Nobody, !.editing = Nobody])
  /\ UNCHANGED <<row, occupied>>

(* Faulty variant: the list is left as it is.                              *)
DeletedWithoutReload(r) ==
  /\ Answered(r, "delete", TRUE)
  /\ page' = [page EXCEPT !.deleting = Nobody]
  /\ Finished(r)

Deleted(r) ==
  /\ Answered(r, "delete", TRUE)
  /\ Reload(r, [page EXCEPT !.deleting = Nobody])
  /\ UNCHANGED <<row, occupied>>

ChangeFailed(r) ==
  /\ \/ /\ Answered(r, "create", FALSE)
        /\ page' = [page EXCEPT !.creating = FALSE]
     \/ /\ Answered(r, "update", FALSE)
        /\ page' = [page EXCEPT !.saving = Nobody]
     \/ /\ Answered(r, "delete", FALSE)
        /\ page' = [page EXCEPT !.deleting = Nobody]
     \/ /\ Answered(r, "start", FALSE)
        /\ page' = [page EXCEPT !.opening = Nobody]
  /\ Finished(r)

(* Faulty variant: whichever dialog is open takes the branches.            *)
TakeBranches(r) ==
  /\ Answered(r, "branches", TRUE)
  /\ page' = IF page.modal = Nobody THEN page
             ELSE [page EXCEPT !.branch = request[r].on]
  /\ Finished(r)

(* store_workspace_start_chat_branches: the first one is chosen.           *)
StoreBranches(r) ==
  /\ Answered(r, "branches", TRUE)
  /\ page' = IF page.modal # request[r].on THEN page
             ELSE [page EXCEPT !.branch = request[r].on]
  /\ Finished(r)

BranchesFailed(r) ==
  /\ Answered(r, "branches", FALSE)
  /\ UNCHANGED page
  /\ Finished(r)

(* The browser goes to the new session; if it does not, the page stays.    *)
OpenStarted(r) ==
  /\ Answered(r, "start", TRUE)
  /\ \/ Leave
     \/ /\ page' = [page EXCEPT !.opening = Nobody]
        /\ Finished(r)

-----------------------------------------------------------------------------
(* Other clients of the user: another tab, and the sessions' own pages.    *)
Elsewhere(w) ==
  \/ /\ row[w] # "deleted"
     /\ \E n \in Names \ {row[w]} : row' = [row EXCEPT ![w] = n]
     /\ overtaken' = TRUE
     /\ UNCHANGED <<occupied, request, page>>
  \/ /\ Active(w)
     /\ w \notin occupied
     /\ row' = [row EXCEPT ![w] = "deleted"]
     /\ overtaken' = TRUE
     /\ UNCHANGED <<occupied, request, page>>
  \/ /\ w \in occupied
     /\ occupied' = occupied \ {w}
     /\ UNCHANGED <<row, request, page, overtaken>>

-----------------------------------------------------------------------------
WorkspacesInit ==
  /\ row \in [Workspaces -> Names \cup {"free"}]
  /\ occupied = {}
  /\ request = [r \in Requests |-> NoRequest]
  /\ page = [NewPage EXCEPT !.open = FALSE, !.loading = FALSE]
  /\ overtaken = FALSE

WorkspacesNext ==
  \/ Leave
  \/ CancelChat
  \/ \E r \in Requests :
       \/ Visit(r)
       \/ \E n \in Names : CreateWorkspace(r, n)
       \/ \E w \in Workspaces : Save(r, w) \/ Delete(r, w) \/ OpenChat(r, w)
       \/ StartChat(r)
       \/ ServeList(r) \/ ServeUpdate(r) \/ ServeDelete(r)
       \/ \E w \in Workspaces : ServeCreate(r, w)
       \/ ServeBranches(r) \/ ServeStart(r) \/ Refuse(r) \/ LoseAnswer(r)
       \/ FinishReload(r) \/ FailReload(r)
       \/ Created(r) \/ Saved(r) \/ Deleted(r) \/ ChangeFailed(r)
       \/ StoreBranches(r) \/ BranchesFailed(r) \/ OpenStarted(r)
  \/ \E w \in Workspaces :
       \/ Edit(w)
       \/ \E n \in Names : TypeName(w, n)
       \/ CancelEdit(w)
       \/ Elsewhere(w)

WorkspacesSpec == WorkspacesInit /\ [][WorkspacesNext]_workspacesVars

-----------------------------------------------------------------------------
(* Whatever order the lists of branches come in and whichever dialog they  *)
(* find open, a chat is started in the workspace of the dialog and on a    *)
(* branch of that workspace's repository.                                  *)
ChatsStartOnTheirOwnBranch ==
  \A r \in Requests :
    request[r].kind = "start" => request[r].of = request[r].on

(* Once every request is answered the cards show the workspaces there are, *)
(* under their names, unless another client changed them, an answer was    *)
(* lost or two reloads overlapped since the last reload that had none      *)
(* beside it: after every change the page makes it catches up.             *)
RestingPageIsCurrent ==
  AtRest /\ page.open /\ ~overtaken => page.card = Rows
=============================================================================
