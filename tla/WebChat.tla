------------------------------- MODULE WebChat -------------------------------
(***************************************************************************)
(* The session page of the web frontend (crates/acp-web-frontend/src):     *)
(* loading the session, the event stream and its reducer, and the user's   *)
(* prompts, decisions and cancellations, whose HTTP responses and whose    *)
(* events reach the page in either order.  A browser runs one callback at  *)
(* a time, up to its next await: that is one action here.                  *)
(*                                                                         *)
(* The page's status and activity entries are left out (a snapshot replaces*)
(* all entries, so it wipes them), and so are the list of sessions and the *)
(* draft, which touch none of this state.                                  *)
(***************************************************************************)
EXTENDS SessionStream

CONSTANT
  MaxRequests  (* bound: the prompts, decisions and cancellations sent,    *)
               (* and the times the connection breaks                      *)

ASSUME PageAssumption == MaxRequests \in Nat

VARIABLES
  page,       (* spawn_session_bootstrap                                   *)
  web,        (* SessionSignals: what the page shows                       *)
  submission, (* the outstanding POST .../messages                         *)
  action,     (* the outstanding decision or cancellation                  *)
  requests    (* how many requests the user has made                       *)

pageVars == <<page, web, submission, action, requests>>
webVars == <<session, stage, asked, others, outbox, stream, held, queue, lagged,
             page, web, submission, action, requests>>

TurnStates == {"idle", "submitting", "awaitingReply", "awaitingPermission", "cancelling"}

(* "missed" and "late" are history: what the page shows rests on a         *)
(* snapshot after which events were lost; a response was applied after     *)
(* events that are newer than it.                                          *)
Views == [text : [Messages -> 0 .. MaxText], pending : SUBSET Permissions,
          turn : TurnStates, status : {"loading", "active", "closed", "unavailable"},
          busy : BOOLEAN, missed : BOOLEAN, late : BOOLEAN]

EmptyView == [text |-> [m \in Messages |-> 0], pending |-> {}, turn |-> "idle",
              status |-> "loading", busy |-> FALSE, missed |-> FALSE, late |-> FALSE]

(* Stages of an outstanding request: sent, then answered by the server.    *)
NoAction == [kind |-> "none", request |-> 0, previous |-> "idle",
             answer |-> "none", overtaken |-> FALSE]

Actions == [kind : {"none", "approve", "deny", "cancel"}, request : Permissions \cup {0},
            previous : TurnStates, answer : {"none", "done"},
            overtaken : BOOLEAN]

-----------------------------------------------------------------------------
(* The reducer: session_page_actions/stream/events.rs.                     *)

StatusLabel(closed) == IF closed THEN "closed" ELSE "active"

TurnStateForSnapshot(s) ==
  CASE s.pending # {} -> "awaitingPermission"
    [] s.pending = {} /\ s.active -> "awaitingReply"
    [] OTHER -> "idle"

ReleasesTurn(turn) == turn \in {"awaitingReply", "cancelling"}
AppliesSnapshotTurn(turn) == turn \in {"idle", "awaitingPermission"}

(* Faulty variant: a snapshot restores the transcript alone.               *)
WithSnapshotOfText(view, s) ==
  [view EXCEPT !.text = s.text, !.status = StatusLabel(s.closed),
               !.missed = s.missed, !.late = FALSE]

WithSnapshot(view, s) ==
  [view EXCEPT
     !.text = s.text,
     !.pending = s.pending,
     !.status = StatusLabel(s.closed),
     !.turn = IF AppliesSnapshotTurn(@) THEN TurnStateForSnapshot(s) ELSE @,
     !.missed = s.missed,
     !.late = FALSE]

WithMessage(view, event) ==
  [view EXCEPT
     !.text[event.message] = event.length,
     !.turn = IF ~event.partial /\ ReleasesTurn(@)
                THEN "idle" ELSE @]

WithPermission(view, r) ==
  [view EXCEPT !.pending = @ \cup {r}, !.turn = "awaitingPermission"]

WithClosed(view) ==
  [view EXCEPT !.status = "closed", !.turn = "idle", !.pending = {}, !.busy = FALSE]

WithStatus(view) ==
  [view EXCEPT !.turn = IF ReleasesTurn(@) THEN "idle" ELSE @]

Reduced(view, event) ==
  CASE event.kind = "snapshot" -> WithSnapshot(view, event)
    [] event.kind = "message" -> WithMessage(view, event)
    [] event.kind = "permission" -> WithPermission(view, event.request)
    [] event.kind = "closed" -> WithClosed(view)
    [] event.kind = "status" -> WithStatus(view)

-----------------------------------------------------------------------------
(* Loading the page: session_page_actions/bootstrap.rs.                    *)

LoadFails ==
  /\ page = "blank"
  /\ page' = "failed"
  /\ web' = [web EXCEPT !.status = "unavailable", !.turn = "idle"]
  /\ UNCHANGED <<submission, action, requests>> /\ UNCHANGED serverVars

(* load_session and apply_loaded_session.  What the session does while the *)
(* response is on its way it may also do before the stream is opened: the  *)
(* names of the workspace and the list of sessions are fetched first.      *)
LoadSession ==
  /\ page = "blank"
  /\ page' = IF session.closed THEN "readOnly" ELSE "syncing"
  /\ web' = [web EXCEPT !.text = session.text, !.pending = session.pending,
                        !.status = StatusLabel(session.closed),
                        !.turn = TurnStateForSnapshot(Snapshot)]
  /\ UNCHANGED <<submission, action, requests>> /\ UNCHANGED serverVars

SpawnSessionStream ==
  /\ page = "syncing"
  /\ page' = "live"
  /\ stream' = "down"
  /\ UNCHANGED <<web, submission, action, requests>>
  /\ UNCHANGED <<held, queue, lagged, outbox>> /\ UNCHANGED sessionVars

(* subscribe_sse: one event; a closed session closes the source.           *)
HandleSseEvent ==
  /\ HasItem
  /\ web' = Reduced(web, Item)
  /\ Deliver(web'.status = "closed")
  /\ action' = [action EXCEPT !.overtaken = @ \/ action.answer = "done"]
  /\ UNCHANGED <<page, submission, requests>>

(* An EventSource reconnects by itself.                                    *)
Disconnected ==
  /\ requests < MaxRequests
  /\ requests' = requests + 1
  /\ Disconnect("down")
  /\ UNCHANGED <<page, web, submission, action>>

-----------------------------------------------------------------------------
(* Sending a prompt: session_submit_callback.                              *)

ComposerEnabled == web.status = "active" /\ web.turn = "idle"

(* bound: one prompt of the page is outstanding.                           *)
SendPrompt ==
  /\ requests < MaxRequests
  /\ requests' = requests + 1
  /\ ComposerEnabled
  /\ submission = "none"
  /\ \E p \in Prompts : stage[p] = "new"
  /\ submission' = "sent"
  /\ web' = [web EXCEPT !.turn = "submitting"]
  /\ UNCHANGED <<page, action>> /\ UNCHANGED serverVars

PromptAccepted ==
  /\ submission = "sent"
  /\ \E p \in Prompts : SubmitPrompt(p)
  /\ submission' = "accepted"
  /\ UNCHANGED <<page, web, action, requests, others>>

(* The response comes, however much later than the events of the reply; or *)
(* the request is refused, or fails on its way, the prompt taken or not.   *)
PromptAnswered ==
  /\ submission = "accepted"
  /\ submission' = "none"
  /\ web' = [web EXCEPT !.turn = "awaitingReply"]
  /\ UNCHANGED <<page, action, requests>> /\ UNCHANGED serverVars

PromptFailed ==
  /\ submission # "none"
  /\ submission' = "none"
  /\ web' = [web EXCEPT !.turn = "idle"]
  /\ UNCHANGED <<page, action, requests>> /\ UNCHANGED serverVars

-----------------------------------------------------------------------------
(* Decisions and cancellation: session_page_actions/stream/permissions.rs. *)

Decide(kind, r) ==
  /\ requests < MaxRequests
  /\ requests' = requests + 1
  /\ r \in web.pending
  /\ ~web.busy
  /\ action = NoAction
  /\ web' = [web EXCEPT !.busy = TRUE]
  /\ action' = [NoAction EXCEPT !.kind = kind, !.request = r]
  /\ UNCHANGED <<page, submission>> /\ UNCHANGED serverVars

(* The cancel of the composer, or that of the pending requests.            *)
BeginCancelTurn ==
  /\ requests < MaxRequests
  /\ requests' = requests + 1
  /\ ~web.busy
  /\ \/ web.turn = "awaitingReply"
     \/ web.pending # {}
  /\ action = NoAction
  /\ web' = [web EXCEPT !.busy = TRUE, !.turn = "cancelling"]
  /\ action' = [NoAction EXCEPT !.kind = "cancel", !.previous = web.turn]
  /\ UNCHANGED <<page, submission>> /\ UNCHANGED serverVars

Outstanding(kinds) == action.kind \in kinds /\ action.answer = "none"

DecisionTaken ==
  /\ Outstanding({"approve", "deny"})
  /\ ResolvePermission("action", action.request)
  /\ action' = [action EXCEPT !.answer = "done"]
  /\ UNCHANGED <<page, web, submission, requests, others>>

TurnCancelled ==
  /\ Outstanding({"cancel"})
  /\ CancelActiveTurn("action")
  /\ action' = [action EXCEPT !.answer = "done"]
  /\ UNCHANGED <<page, web, submission, requests, others>>

(* apply_permission_resolution_success                                     *)
DecisionAnswered ==
  /\ action.kind \in {"approve", "deny"}
  /\ action.answer = "done"
  /\ outbox["action"] = <<>>
  /\ web' = [web EXCEPT !.pending = @ \ {action.request}, !.busy = FALSE,
                        !.turn = IF action.kind = "approve" THEN "awaitingReply" ELSE "idle"]
  /\ action' = NoAction
  /\ UNCHANGED <<page, submission, requests>> /\ UNCHANGED serverVars

CancelAnswered ==
  /\ action.kind = "cancel"
  /\ action.answer = "done"
  /\ outbox["action"] = <<>>
  /\ web' = [web EXCEPT !.pending = {}, !.busy = FALSE, !.turn = "idle",
                        !.late = @ \/ action.overtaken]
  /\ action' = NoAction
  /\ UNCHANGED <<page, submission, requests>> /\ UNCHANGED serverVars

(* No running turn; or an error: the request is no longer pending, the     *)
(* session is closed, or the connection fails before or after the server   *)
(* acted.  The page goes back to where it was.                             *)
ActionAbandoned ==
  /\ action # NoAction
  /\ web' = [web EXCEPT !.busy = FALSE,
               !.turn = IF action.kind = "cancel" /\ @ = "cancelling"
                          THEN action.previous ELSE @]
  /\ action' = NoAction
  /\ UNCHANGED <<page, submission, requests>> /\ UNCHANGED serverVars

-----------------------------------------------------------------------------
WebInit ==
  /\ StreamInit
  /\ page = "blank"
  /\ web = EmptyView
  /\ submission = "none"
  /\ action = NoAction
  /\ requests = 0

ServerOnly == UNCHANGED pageVars

WebNext ==
  \/ \E p \in Prompts : StartTurn(p) /\ ServerOnly
  \/ \E p \in Prompts : StreamAssistantChunk(p) /\ ServerOnly
  \/ \E p \in Prompts : RegisterPermissionRequest(p) /\ ServerOnly
  \/ \E p \in Prompts, n \in 1 .. MaxText : CompleteWithReply(p, n) /\ ServerOnly
  \/ \E p \in Prompts : CompleteWithStatus(p) /\ ServerOnly
  \/ \E p \in Prompts : CompleteWithoutOutput(p) /\ ServerOnly
  \/ \E p \in Prompts : OtherSubmits(p) /\ ServerOnly
  \/ \E r \in Permissions : OtherResolves(r) /\ ServerOnly
  \/ OtherCancels /\ ServerOnly
  \/ CloseSession /\ ServerOnly
  \/ \E w \in Writers : TakeSnapshot(w) /\ ServerOnly
  \/ \E w \in Writers : Publish(w) /\ ServerOnly
  \/ Connect /\ ServerOnly
  \/ Subscribe /\ ServerOnly
  \/ Refused /\ ServerOnly
  \/ Resync /\ ServerOnly
  \/ LoadSession \/ LoadFails \/ SpawnSessionStream
  \/ HandleSseEvent \/ Disconnected
  \/ SendPrompt \/ PromptAccepted \/ PromptAnswered \/ PromptFailed
  \/ \E k \in {"approve", "deny"}, r \in Permissions : Decide(k, r)
  \/ BeginCancelTurn \/ DecisionTaken \/ TurnCancelled
  \/ DecisionAnswered \/ CancelAnswered \/ ActionAbandoned

WebSpec == WebInit /\ [][WebNext]_webVars

-----------------------------------------------------------------------------
(* Properties.                                                             *)

(* Every signal of the page and every event on its way has its type.       *)
WebTypeOK ==
  /\ StreamTypeOK
  /\ page \in {"blank", "syncing", "live", "readOnly", "failed"}
  /\ web \in Views
  /\ submission \in {"none", "sent", "accepted"}
  /\ action \in Actions
  /\ requests \in 0 .. MaxRequests

(* Once everything published has reached the page, it shows the transcript *)
(* of the session: whatever was reordered, broken off, reconnected,        *)
(* resynchronised or delivered twice, unless a snapshot was overtaken      *)
(* before it was subscribed to or sent.                                    *)
TranscriptConverges ==
  Delivered /\ ~web.missed => web.text = session.text

(* And it shows every request the agent waits on, so that the user can     *)
(* answer, unless a cancellation's response came after newer events.       *)
PendingPermissionsShown ==
  Delivered /\ ~web.missed /\ ~web.late => session.pending \subseteq web.pending

=============================================================================
