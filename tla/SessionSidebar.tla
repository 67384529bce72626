--------------------------- MODULE SessionSidebar ---------------------------
(***************************************************************************)
(* The sidebar of the session page (session_page_sidebar*.rs and           *)
(* session_page_actions/session_list.rs of the web frontend): the sessions *)
(* of the current workspace, renamed and deleted in place, and the dialog  *)
(* that starts a new chat.                                                 *)
(*                                                                         *)
(* All rows share the signals of SessionListSignals; every request is a    *)
(* task of its own; the page also asks for the list after a prompt, a      *)
(* decision and a cancel of its chat.  A change of the list rebuilds all   *)
(* rows, so a row always shows the title in the list.                      *)
(*                                                                         *)
(* A blank title is "none".  Left out: the order of the list, status and   *)
(* times, the messages, and the agent profile that goes with a new chat.   *)
(***************************************************************************)
EXTENDS FiniteSets

CONSTANTS
  Chats,     (* the ids sessions of the workspace get: bounds them         *)
  Current,   (* the session whose page it is                               *)
  Titles,    (* what a session may be called                               *)
  Tasks,     (* bound: the requests in progress at one time                *)
  NoSession  (* no session                                                 *)

ASSUME SidebarAssumption ==
  /\ Current \in Chats
  /\ NoSession \notin Chats
  /\ Titles \cap {"none", "free", "deleted"} = {}

VARIABLES
  chat,    (* the sessions at the server: a title, "free" or "deleted"     *)
  task,    (* the requests of the page                                     *)
  bar,     (* the page with its sidebar, while it is open                  *)
  crossed  (* history: a list was on its way when something changed        *)

sidebarVars == <<chat, task, bar, crossed>>

-----------------------------------------------------------------------------
(* One branch stands for all: no property tells them apart.                *)
Branches == {"default"}
Listing == [s \in Chats |-> IF chat[s] \in Titles THEN chat[s] ELSE "none"]
NoListing == [s \in Chats |-> "none"]
Alive(s) == chat[s] \in Titles

(* SessionListSignals and SessionSidebarNewChatState.  workspace tells     *)
(* whether the page knows its workspace, busy whether its chat is in a     *)
(* turn or an action, ended that its session is gone; offered tells        *)
(* whether the dialog has branches, and chosen is the one chosen there.    *)
NewSidebar ==
  [open |-> TRUE, workspace |-> FALSE, busy |-> FALSE, ended |-> FALSE,
   loaded |-> FALSE, items |-> NoListing, deleting |-> NoSession,
   renaming |-> NoSession, saving |-> NoSession, draft |-> "none",
   dialog |-> FALSE, loading |-> FALSE, offered |-> FALSE,
   chosen |-> "none", creating |-> FALSE]

NoTask == [stage |-> "idle", kind |-> "list", on |-> NoSession,
           text |-> "none", ok |-> FALSE, items |-> NoListing]

Asked(kind, s) == [NoTask EXCEPT !.stage = "sent", !.kind = kind, !.on = s]

IdleTask(t) == task[t].stage = "idle"
Settled == \A t \in Tasks : IdleTask(t)

(* refresh_session_list, whatever task calls it, for itself or after the   *)
(* deletion of s.                                                          *)
Listings == {"list", "relist"}
ListUnderWay(t) ==
  task[t].kind \in Listings /\ task[t].stage \in {"sent", "answered"}
SomeListUnderWay(T) == \E t \in T : ListUnderWay(t)

(* A list that nothing crosses brings the page up to date.                 *)
Refresh(t, kind, s, p) ==
  /\ task' = [task EXCEPT ![t] = Asked(kind, s)]
  /\ bar' = p
  /\ crossed' = \E u \in Tasks \ {t} : task[u].stage # "idle"

-----------------------------------------------------------------------------
(* The page is opened, used, and left.                                     *)

(* SessionView: load_session, then the list.                               *)
OpenPage(t) ==
  /\ ~bar.open
  /\ IdleTask(t)
  /\ task' = [task EXCEPT ![t] = Asked("load", Current)]
  /\ bar' = NewSidebar
  /\ UNCHANGED <<chat, crossed>>

(* By a link, a reload or navigate_to: tasks end with the page, what they  *)
(* asked for does not.                                                     *)
LeavePage ==
  /\ bar.open
  /\ bar' = [NewSidebar EXCEPT !.open = FALSE]
  /\ task' = [t \in Tasks |->
       IF task[t].stage \in {"sent", "unheard"}
       THEN [task[t] EXCEPT !.stage = "unheard"] ELSE NoTask]
  /\ UNCHANGED <<chat, crossed>>

OnPage == UNCHANGED <<chat, task, crossed>>

Begin(t, question) ==
  /\ IdleTask(t)
  /\ task' = [task EXCEPT ![t] = question]
  /\ UNCHANGED chat

(* A prompt, a decision or a cancel begins.                                *)
ChatBusy ==
  /\ bar.open
  /\ bar.workspace
  /\ ~bar.ended
  /\ bar.deleting # Current
  /\ ~bar.busy
  /\ bar' = [bar EXCEPT !.busy = TRUE]
  /\ OnPage

(* It is answered, and the list is read again, or the turn is over.        *)
ChatActed(t) ==
  /\ bar.busy
  /\ IdleTask(t)
  /\ \E b \in BOOLEAN :
       Refresh(t, "list", NoSession, [bar EXCEPT !.busy = b])
  /\ UNCHANGED chat

ChatIdle ==
  /\ bar.busy
  /\ bar' = [bar EXCEPT !.busy = FALSE]
  /\ OnPage

-----------------------------------------------------------------------------
(* Renaming.                                                               *)

(* session_sidebar_nav: loading, empty, or the rows.                       *)
ListShown == bar.open /\ bar.loaded
RowShown(s) == ListShown /\ bar.items[s] # "none"
Plain(s) == RowShown(s) /\ bar.renaming # s
Form(s) == RowShown(s) /\ bar.renaming = s

RenameOffered(s) ==
  /\ Plain(s)
  /\ bar.deleting # s
  /\ bar.saving = NoSession

DeleteOffered(s) ==
  /\ Plain(s)
  /\ bar.deleting = NoSession
  /\ bar.saving = NoSession
  /\ s = Current => ~bar.busy

BeginRename(s) ==
  /\ RenameOffered(s)
  /\ bar' = [bar EXCEPT !.draft = bar.items[s], !.renaming = s]
  /\ OnPage

TypeTitle(s, title) ==
  /\ Form(s)
  /\ bar.saving # s
  /\ bar' = [bar EXCEPT !.draft = title]
  /\ OnPage

(* By Escape or its button.                                                *)
CancelRename(s) ==
  /\ Form(s)
  /\ bar.saving # s
  /\ bar' = [bar EXCEPT !.draft = "none", !.renaming = NoSession]
  /\ OnPage

(* By Enter, its button, or because the focus leaves the form.             *)
CommitRename(t, s) ==
  /\ Form(s)
  /\ bar.saving # s
  /\ IF bar.draft = "none"
     THEN /\ bar' = [bar EXCEPT !.renaming = NoSession]
          /\ OnPage
     ELSE /\ Begin(t, [Asked("rename", s) EXCEPT !.text = bar.draft])
          /\ bar' = [bar EXCEPT !.saving = s]
          /\ UNCHANGED crossed

-----------------------------------------------------------------------------
(* Deleting.                                                               *)

DeleteIsBlocked(s) ==
  bar.deleting # NoSession \/ (s = Current /\ bar.busy)

DeleteSession(t, s) ==
  /\ DeleteOffered(s)
  /\ ~DeleteIsBlocked(s)
  /\ Begin(t, Asked("delete", s))
  /\ bar' = [bar EXCEPT !.deleting = s]
  /\ UNCHANGED crossed

-----------------------------------------------------------------------------
(* Starting a new chat.                                                    *)

NewChatOffered == bar.open /\ bar.workspace /\ ~bar.creating

WithDialog(p) ==
  [p EXCEPT !.dialog = TRUE, !.loading = TRUE, !.offered = FALSE,
            !.chosen = "none", !.creating = FALSE]

BeginNewChat(t) ==
  /\ NewChatOffered
  /\ Begin(t, Asked("branches", NoSession))
  /\ bar' = WithDialog(bar)
  /\ UNCHANGED crossed

(* None of them, too.                                                      *)
ChooseBranch(b) ==
  /\ bar.dialog
  /\ ~bar.loading
  /\ bar.offered
  /\ bar' = [bar EXCEPT !.chosen = b]
  /\ OnPage

WithoutDialog(p) ==
  [p EXCEPT !.dialog = FALSE, !.loading = FALSE, !.offered = FALSE,
            !.chosen = "none", !.creating = FALSE]

(* The cross of the dialog is there while the chat is created, too.        *)
CancelNewChat ==
  /\ bar.dialog
  /\ bar' = WithoutDialog(bar)
  /\ OnPage

SubmitOffered ==
  bar.dialog /\ ~bar.creating /\ ~bar.loading /\ bar.chosen \in Branches

SubmitNewChat(t) ==
  /\ SubmitOffered
  /\ Begin(t, [Asked("create", NoSession) EXCEPT !.text = bar.chosen])
  /\ bar' = [bar EXCEPT !.creating = TRUE]
  /\ UNCHANGED crossed

-----------------------------------------------------------------------------
(* The server.                                                             *)

Arrived(t, kind) ==
  task[t].kind = kind /\ task[t].stage \in {"sent", "unheard"}

Reply(t, ok, items) ==
  task' = [task EXCEPT ![t] =
    IF @.stage = "unheard" THEN NoTask
    ELSE [@ EXCEPT !.stage = "answered", !.ok = ok, !.items = items]]

(* A change crosses the lists under way; one that nobody waits for, every  *)
(* list before it.                                                         *)
Crosses(t) ==
  crossed' = (\/ crossed
              \/ task[t].stage = "unheard"
              \/ SomeListUnderWay(Tasks \ {t}))

ServeListing(t) ==
  /\ task[t].kind \in Listings /\ task[t].stage \in {"sent", "unheard"}
  /\ Reply(t, TRUE, Listing)
  /\ UNCHANGED <<chat, bar, crossed>>

ServeLoad(t) ==
  /\ Arrived(t, "load")
  /\ Reply(t, Alive(Current), NoListing)
  /\ UNCHANGED <<chat, bar, crossed>>

ServeRename(t) ==
  /\ Arrived(t, "rename")
  /\ Alive(task[t].on)
  /\ chat' = [chat EXCEPT ![task[t].on] = task[t].text]
  /\ Reply(t, TRUE, NoListing)
  /\ Crosses(t)
  /\ UNCHANGED bar

ServeSessionDelete(t) ==
  /\ Arrived(t, "delete")
  /\ Alive(task[t].on)
  /\ chat' = [chat EXCEPT ![task[t].on] = "deleted"]
  /\ Reply(t, TRUE, NoListing)
  /\ Crosses(t)
  /\ UNCHANGED bar

ServeBranchList(t) ==
  /\ Arrived(t, "branches")
  /\ Reply(t, TRUE, NoListing)
  /\ UNCHANGED <<chat, bar, crossed>>

(* The page does not list the session it made: it goes there.              *)
ServeNewChat(t, s) ==
  /\ Arrived(t, "create")
  /\ chat[s] = "free"
  /\ \E title \in Titles : chat' = [chat EXCEPT ![s] = title]
  /\ Reply(t, TRUE, NoListing)
  /\ crossed' = TRUE
  /\ UNCHANGED bar

(* The request, or its answer, is lost, or it is refused.                  *)
RefuseTask(t) ==
  /\ task[t].stage \in {"sent", "unheard"}
  /\ Reply(t, FALSE, NoListing)
  /\ UNCHANGED <<chat, bar, crossed>>

LoseReply(t) ==
  /\ task[t].stage = "answered"
  /\ task[t].ok
  /\ task' = [task EXCEPT ![t].ok = FALSE]
  /\ crossed' = TRUE
  /\ UNCHANGED <<chat, bar>>

-----------------------------------------------------------------------------
(* The answers.                                                            *)

Heard(t, kind, ok) ==
  /\ task[t].stage = "answered"
  /\ task[t].kind = kind
  /\ task[t].ok = ok

Done(t) ==
  /\ task' = [task EXCEPT ![t] = NoTask]
  /\ UNCHANGED chat

Loaded(t) ==
  /\ Heard(t, "load", TRUE)
  /\ Refresh(t, "list", NoSession, [bar EXCEPT !.workspace = TRUE])
  /\ UNCHANGED chat

(* Without a workspace there is nothing to list.                           *)
LoadFailed(t) ==
  /\ Heard(t, "load", FALSE)
  /\ bar' = [bar EXCEPT !.loaded = TRUE, !.items = NoListing,
                          !.ended = TRUE]
  /\ Done(t)
  /\ crossed' = TRUE

(* After a deletion the task that asked for the list ends it.              *)
AfterList(t, p) ==
  IF task[t].kind = "relist" THEN [p EXCEPT !.deleting = NoSession] ELSE p

ListArrives(t) ==
  /\ \E k \in Listings : Heard(t, k, TRUE)
  /\ bar' = AfterList(t, [bar EXCEPT !.items = task[t].items,
                                       !.loaded = TRUE])
  /\ Done(t)
  /\ UNCHANGED crossed

ListFails(t) ==
  /\ \E k \in Listings : Heard(t, k, FALSE)
  /\ bar' = AfterList(t, [bar EXCEPT !.loaded = TRUE])
  /\ Done(t)
  /\ crossed' = TRUE

(* Faulty variant: the row keeps the title it had.                         *)
RenamedAtServer(t) ==
  /\ Heard(t, "rename", TRUE)
  /\ bar' = [bar EXCEPT !.draft = "none", !.renaming = NoSession,
                          !.saving = NoSession]
  /\ Done(t)
  /\ UNCHANGED crossed

Renamed(t) ==
  /\ Heard(t, "rename", TRUE)
  /\ bar' = [bar EXCEPT
       !.items[task[t].on] = IF @ = "none" THEN @ ELSE task[t].text,
       !.draft = "none", !.renaming = NoSession, !.saving = NoSession]
  /\ Done(t)
  /\ crossed' = (crossed \/ SomeListUnderWay(Tasks \ {t}))

RenameFailed(t) ==
  /\ Heard(t, "rename", FALSE)
  /\ bar' = [bar EXCEPT !.draft = task[t].text, !.renaming = task[t].on,
                          !.saving = NoSession]
  /\ Done(t)
  /\ UNCHANGED crossed

(* Another session than the page's: the list is read again.                *)
OtherDeleted(t) ==
  /\ Heard(t, "delete", TRUE)
  /\ task[t].on # Current
  /\ Refresh(t, "relist", task[t].on,
             [bar EXCEPT !.items[task[t].on] = "none"])
  /\ UNCHANGED chat

(* finish_current_session_delete: the browser goes to a session of the     *)
(* list or to the workspaces; if it does not, the page is of no use.       *)
CurrentDeleted(t) ==
  /\ Heard(t, "delete", TRUE)
  /\ task[t].on = Current
  /\ \/ LeavePage
     \/ /\ bar' = [bar EXCEPT !.items[Current] = "none", !.ended = TRUE,
                                !.busy = FALSE, !.deleting = NoSession]
        /\ Done(t)
        /\ crossed' = (crossed \/ SomeListUnderWay(Tasks \ {t}))

DeleteFailed(t) ==
  /\ Heard(t, "delete", FALSE)
  /\ bar' = [bar EXCEPT !.deleting = NoSession]
  /\ Done(t)
  /\ UNCHANGED crossed

(* session_sidebar_complete_branch_load: the dialog of the workspace takes *)
(* them, also when it was closed and opened again.                         *)
BranchesArrive(t) ==
  /\ Heard(t, "branches", TRUE)
  /\ bar' = IF bar.dialog
             THEN [bar EXCEPT !.loading = FALSE, !.offered = TRUE,
                              !.chosen = "default"]
             ELSE bar
  /\ Done(t)
  /\ UNCHANGED crossed

BranchesFail(t) ==
  /\ Heard(t, "branches", FALSE)
  /\ bar' = IF bar.dialog THEN [bar EXCEPT !.loading = FALSE] ELSE bar
  /\ Done(t)
  /\ UNCHANGED crossed

(* It goes to the new session, whether the dialog is still open or not.    *)
NewChatMade(t) ==
  /\ Heard(t, "create", TRUE)
  /\ \/ LeavePage
     \/ /\ bar' = [bar EXCEPT !.creating = FALSE]
        /\ Done(t)
        /\ UNCHANGED crossed

NewChatFails(t) ==
  /\ Heard(t, "create", FALSE)
  /\ bar' = [bar EXCEPT !.creating = FALSE]
  /\ Done(t)
  /\ UNCHANGED crossed

-----------------------------------------------------------------------------
(* Other pages and clients of the user.                                    *)
ElsewhereChanged(s) ==
  /\ chat[s] # "deleted"
  /\ \/ \E title \in Titles \ {chat[s]} : chat' = [chat EXCEPT ![s] = title]
     \/ Alive(s) /\ chat' = [chat EXCEPT ![s] = "deleted"]
  /\ crossed' = TRUE
  /\ UNCHANGED <<task, bar>>

-----------------------------------------------------------------------------
SidebarInit ==
  /\ chat \in [Chats -> Titles \cup {"free"}]
  /\ Alive(Current)
  /\ task = [t \in Tasks |-> NoTask]
  /\ bar = [NewSidebar EXCEPT !.open = FALSE]
  /\ crossed = FALSE

Answers(t) ==
  \/ Loaded(t) \/ LoadFailed(t) \/ ListArrives(t) \/ ListFails(t)
  \/ Renamed(t) \/ RenameFailed(t)
  \/ OtherDeleted(t) \/ CurrentDeleted(t) \/ DeleteFailed(t)
  \/ BranchesArrive(t) \/ BranchesFail(t)
  \/ NewChatMade(t) \/ NewChatFails(t)

SidebarNext ==
  \/ LeavePage \/ ChatBusy \/ ChatIdle \/ CancelNewChat
  \/ \E b \in Branches \cup {"none"} : ChooseBranch(b)
  \/ \E s \in Chats :
       \/ BeginRename(s)
       \/ \E title \in Titles \cup {"none"} : TypeTitle(s, title)
       \/ CancelRename(s)
       \/ ElsewhereChanged(s)
  \/ \E t \in Tasks :
       \/ OpenPage(t) \/ ChatActed(t) \/ BeginNewChat(t) \/ SubmitNewChat(t)
       \/ \E s \in Chats :
            CommitRename(t, s) \/ DeleteSession(t, s) \/ ServeNewChat(t, s)
       \/ ServeListing(t) \/ ServeLoad(t) \/ ServeRename(t)
       \/ ServeSessionDelete(t) \/ ServeBranchList(t)
       \/ RefuseTask(t) \/ LoseReply(t)
       \/ Answers(t)

SidebarSpec == SidebarInit /\ [][SidebarNext]_sidebarVars

-----------------------------------------------------------------------------
(* Once all is answered the sidebar shows the sessions of the workspace    *)
(* under their titles, unless another client changed them, an answer was   *)
(* lost, or a list was on its way during a change: renaming corrects the   *)
(* row itself and deleting reads the list again.                           *)
RestingSidebarIsCurrent ==
  Settled /\ bar.open /\ bar.loaded /\ ~crossed => bar.items = Listing

=============================================================================
