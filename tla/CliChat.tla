------------------------------- MODULE CliChat -------------------------------
(***************************************************************************)
(* The interactive chat of the command line client (crates/acp-cli/src):   *)
(* attaching to a session, the task that reads its event stream, the       *)
(* channel from that task to the terminal UI, the UI's loop of drawing and *)
(* commands, and the task that refreshes the pending requests.  The UI is  *)
(* one thread: while a command waits for the server nothing is drained.    *)
(*                                                                         *)
(* Unlike the web page the client connects once, shows a message only when *)
(* it is complete, and appends: what it has shown it does not take back.   *)
(* The transcript is, for each message, the text it was last shown with.   *)
(* The composer, its history and completion menu, scrolling and the status *)
(* lines are left out; none of them reads or writes what is modelled.      *)
(***************************************************************************)
EXTENDS SessionStream

CONSTANT
  MaxCommands  (* bound: the commands given, and lost connections          *)

ASSUME ChatAssumption == MaxCommands \in Nat

VARIABLES
  chat,     (* how far the chat is, and what it had read when it attached  *)
  app,      (* ChatApp: what the terminal shows                            *)
  events,   (* the channel of TuiEvents                                    *)
  refresh,  (* PendingPermissionRefreshState, and the task's GET           *)
  command,  (* the command the UI waits for                                *)
  commands  (* how many commands were given                                *)

chatVars == <<chat, app, events, refresh, command, commands>>
cliVars == <<session, stage, asked, others, outbox, stream, held, queue, lagged,
             chat, app, events, refresh, command, commands>>

(* InitialSnapshotState; a new session has none.  "missed", "skipped",     *)
(* "stale" and "outdated" are history: events were lost after the last     *)
(* snapshot; the first snapshot brought news of what was known already;    *)
(* the last refresh failed; or it was overtaken on its way, and put back   *)
(* a request that the screen had dropped.                                  *)
Baselines == [ids : SUBSET Messages, permissions : SUBSET Permissions]
NoBaseline == [ids |-> {}, permissions |-> {}]

Chats == [phase : {"start", "history", "running", "drawing", "readOnly", "over"},
          baseline : Baselines, resumed : BOOLEAN, closed : BOOLEAN,
          missed : BOOLEAN, skipped : BOOLEAN]

Apps == [shown : [Messages -> 0 .. MaxText], pending : SUBSET Permissions,
         connection : {"connected", "disconnected", "closed"},
         outdated : BOOLEAN, stale : BOOLEAN]

(* TuiEvent: the updates of the stream, its end, and what a refresh        *)
(* brought.                                                                *)
Updates ==
  [kind : {"message"}, message : Messages, length : 0 .. MaxText]
  \cup [kind : {"permission"}, request : Permissions]
  \cup [kind : {"resumed"}, text : [Messages -> 0 .. MaxText],
        ids : SUBSET Messages, pending : SUBSET Permissions]
  \cup [kind : {"refreshed"}, pending : SUBSET Permissions]
  \cup [kind : {"closed", "status", "ended", "failed"}]

Idle == [state |-> "idle", pending |-> {}, queued |-> FALSE]
NoCommand == [name |-> "none", request |-> 0, done |-> FALSE]

-----------------------------------------------------------------------------
(* From events to updates: events.rs.                                      *)

ShowMessage(m, n) == [kind |-> "message", message |-> m, length |-> n]
ShowRequest(r) == [kind |-> "permission", request |-> r]

(* The messages and then the requests, each an update that is sent without *)
(* awaiting anything in between: one item of the channel.                  *)
ResumeStateUpdates(text, ids, pending) ==
  <<[kind |-> "resumed", text |-> text, ids |-> ids, pending |-> pending]>>

Present(text) == {m \in Messages : text[m] > 0}

(* The first snapshot brings only what the chat did not know when it       *)
(* attached; a later one everything, again.                                *)
SnapshotUpdates(s) ==
  IF chat.resumed
    THEN ResumeStateUpdates(s.text, Present(s.text) \ chat.baseline.ids,
                            s.pending \ chat.baseline.permissions)
    ELSE ResumeStateUpdates(s.text, Present(s.text), s.pending)

(* Faulty variant: later snapshots are taken for repetitions.              *)
EventUpdatesOnce(event) ==
  CASE event.kind = "snapshot" -> IF chat.resumed THEN SnapshotUpdates(event) ELSE <<>>
    [] event.kind = "message" ->
         IF event.partial THEN <<>> ELSE <<ShowMessage(event.message, event.length)>>
    [] event.kind = "permission" -> <<ShowRequest(event.request)>>
    [] OTHER -> <<event>>

EventUpdates(event) ==
  CASE event.kind = "snapshot" -> SnapshotUpdates(event)
    [] event.kind = "message" ->
         IF event.partial THEN <<>> ELSE <<ShowMessage(event.message, event.length)>>
    [] event.kind = "permission" -> <<ShowRequest(event.request)>>
    [] OTHER -> <<event>>

-----------------------------------------------------------------------------
(* Attaching: load_chat_session and run_chat_tui.                          *)

NewChat ==
  /\ chat.phase = "start"
  /\ session = NewSession
  /\ \A p \in Prompts : stage[p] = "new"
  /\ chat' = [chat EXCEPT !.phase = "running"]
  /\ stream' = "down"
  /\ UNCHANGED <<app, events, refresh, command, commands>>
  /\ UNCHANGED <<held, queue, lagged, outbox>> /\ UNCHANGED sessionVars

GetSession ==
  /\ chat.phase = "start"
  /\ chat' = [chat EXCEPT !.phase = "history", !.closed = session.closed,
                !.resumed = TRUE,
                !.baseline = [ids |-> Present(session.text),
                              permissions |-> session.pending]]
  /\ app' = [app EXCEPT !.shown = session.text, !.pending = session.pending]
  /\ UNCHANGED <<events, refresh, command, commands>> /\ UNCHANGED serverVars

(* The history is a request of its own; when the session is gone by then,  *)
(* the messages of the first one do.                                       *)
Attach(text) ==
  /\ chat.phase = "history"
  /\ app' = [app EXCEPT !.shown = text]
  /\ chat' = [chat EXCEPT !.phase = IF chat.closed THEN "readOnly" ELSE "running",
                          !.baseline.ids = Present(text)]
  /\ stream' = IF chat.closed THEN stream ELSE "down"
  /\ UNCHANGED <<events, refresh, command, commands>>
  /\ UNCHANGED <<held, queue, lagged, outbox>> /\ UNCHANGED sessionVars

GetSessionHistory == Attach(session.text)
HistoryNotFound == session.closed /\ Attach(app.shown)

-----------------------------------------------------------------------------
(* The task of spawn_stream_task: stream_updates.                          *)

ReceiveEvent ==
  /\ HasItem
  /\ Deliver(FALSE)
  /\ events' = events \o EventUpdates(Item)
  /\ chat' = IF Item.kind = "snapshot"
               THEN [chat EXCEPT !.resumed = FALSE, !.baseline = NoBaseline,
                       !.missed = Item.missed,
                       !.skipped = @ \/ ( /\ chat.resumed
                                          /\ \/ \E m \in chat.baseline.ids :
                                                  Item.text[m] # app.shown[m]
                                             \/ ~(chat.baseline.permissions \subseteq Item.pending))]
               ELSE chat
  /\ UNCHANGED <<app, refresh, command, commands>>

(* There is no second connection.                                          *)
StreamEnds ==
  /\ events' = Append(events, [kind |-> "ended"])
  /\ UNCHANGED <<chat, app, refresh, command>>

StreamBreaks ==
  /\ commands < MaxCommands
  /\ commands' = commands + 1
  /\ Disconnect("ended")
  /\ StreamEnds

StreamRefused == Refused /\ StreamEnds /\ UNCHANGED commands

-----------------------------------------------------------------------------
(* The UI: draw_app, which drains the channel and launches a refresh.      *)

ShouldRefresh(update) ==
  /\ app.pending # {}
  /\ \/ update.kind \in {"message", "status", "closed"}
     \/ update.kind = "resumed" /\ update.ids # {}

Applied(update) ==
  CASE update.kind = "message" -> [app EXCEPT !.shown[update.message] = update.length]
    [] update.kind = "permission" -> [app EXCEPT !.pending = @ \cup {update.request}]
    [] update.kind = "resumed" ->
         [app EXCEPT !.shown = [m \in Messages |->
                        IF m \in update.ids THEN update.text[m] ELSE @[m]],
                     !.pending = @ \cup update.pending]
    [] update.kind = "closed" -> [app EXCEPT !.connection = "closed"]
    [] update.kind = "status" -> app
    [] update.kind = "ended" -> [app EXCEPT !.connection = "disconnected"]
    [] update.kind = "failed" -> [app EXCEPT !.stale = TRUE]
    [] update.kind = "refreshed" ->
         [app EXCEPT !.pending = update.pending,
            !.stale = FALSE,
            !.outdated = ~(update.pending \subseteq app.pending \cup session.pending)]

UiIsFree == chat.phase = "running" /\ command = NoCommand

(* One item of the channel: what others send meanwhile is drained as well. *)
DrainEvent ==
  /\ chat.phase \in {"running", "drawing"}
  /\ command = NoCommand
  /\ events # <<>>
  /\ LET update == Head(events) IN
     /\ app' = Applied(update)
     /\ refresh' = [refresh EXCEPT
                      !.state = IF update.kind \in {"refreshed", "failed"} THEN "idle" ELSE @,
                      !.queued = @ \/ ShouldRefresh(update)]
  /\ events' = Tail(events)
  /\ chat' = [chat EXCEPT !.phase = "drawing"]
  /\ UNCHANGED <<command, commands>> /\ UNCHANGED serverVars

(* Faulty variant: a refresh that is due while one is on its way is taken  *)
(* to be the same.                                                         *)
LaunchOneRefresh ==
  /\ chat.phase = "drawing"
  /\ events = <<>>
  /\ chat' = [chat EXCEPT !.phase = "running"]
  /\ refresh' = [refresh EXCEPT
                   !.state = IF @ = "idle" /\ refresh.queued THEN "asked" ELSE @,
                   !.queued = FALSE]
  /\ UNCHANGED <<app, events, command, commands>> /\ UNCHANGED serverVars

LaunchRefresh ==
  /\ chat.phase = "drawing"
  /\ events = <<>>
  /\ chat' = [chat EXCEPT !.phase = "running"]
  /\ refresh' = IF refresh.state = "idle" /\ refresh.queued
                   THEN [refresh EXCEPT !.state = "asked", !.queued = FALSE]
                   ELSE refresh
  /\ UNCHANGED <<app, events, command, commands>> /\ UNCHANGED serverVars

(* The task: GET the session, then send what it has.                       *)
RefreshReads ==
  /\ refresh.state = "asked"
  /\ refresh' = [refresh EXCEPT !.state = "read", !.pending = session.pending]
  /\ UNCHANGED <<chat, app, events, command, commands>> /\ UNCHANGED serverVars

RefreshReturns ==
  /\ refresh.state = "read"
  /\ refresh' = [refresh EXCEPT !.state = "sent", !.pending = {}]
  /\ events' = Append(events, [kind |-> "refreshed", pending |-> refresh.pending])
  /\ UNCHANGED <<chat, app, command, commands>> /\ UNCHANGED serverVars

(* bound: no refresh fails once no request may be made.                    *)
RefreshFails ==
  /\ commands < MaxCommands
  /\ commands' = commands + 1
  /\ refresh.state \in {"asked", "read"}
  /\ refresh' = [refresh EXCEPT !.state = "sent", !.pending = {}]
  /\ events' = Append(events, [kind |-> "failed"])
  /\ UNCHANGED <<chat, app, command>> /\ UNCHANGED serverVars

-----------------------------------------------------------------------------
(* Commands: submit_current_input, execute_repl_command,                   *)
(* apply_command_outcome.                                                  *)

Give(name, r) ==
  /\ commands < MaxCommands
  /\ commands' = commands + 1
  /\ UiIsFree
  /\ command' = [name |-> name, request |-> r, done |-> FALSE]
  /\ UNCHANGED <<chat, app, events, refresh>> /\ UNCHANGED serverVars

GivePrompt == Give("prompt", 0)
GiveDecision(r) == r \in app.pending /\ Give("decide", r)
GiveCancel == Give("cancel", 0)

Waits(name) == command.name = name /\ ~command.done
Done == command' = [command EXCEPT !.done = TRUE]

PromptTaken ==
  /\ Waits("prompt")
  /\ \E p \in Prompts : SubmitPrompt(p)
  /\ Done
  /\ UNCHANGED <<chat, app, events, refresh, commands, others>>

DecisionSent ==
  /\ Waits("decide")
  /\ ResolvePermission("action", command.request)
  /\ Done
  /\ UNCHANGED <<chat, app, events, refresh, commands, others>>

CancelSent ==
  /\ Waits("cancel")
  /\ CancelActiveTurn("action")
  /\ Done
  /\ UNCHANGED <<chat, app, events, refresh, commands, others>>

(* Removed, read again, or neither; the refresh after a cancellation may   *)
(* fail, and then nothing is read.                                         *)
CommandAnswered ==
  /\ command.done
  /\ outbox["action"] = <<>>
  /\ app' \in CASE command.name = "prompt" -> {app}
                [] command.name = "decide" -> {[app EXCEPT !.pending = @ \ {command.request}]}
                [] command.name = "cancel" ->
                     {[app EXCEPT !.pending = session.pending, !.stale = FALSE, !.outdated = FALSE],
                      [app EXCEPT !.stale = TRUE]}
  /\ command' = NoCommand
  /\ UNCHANGED <<chat, events, refresh, commands>> /\ UNCHANGED serverVars

(* An error or "no running turn", whether the server acted or not.         *)
CommandFails ==
  /\ command # NoCommand
  /\ command' = NoCommand
  /\ UNCHANGED <<chat, app, events, refresh, commands>> /\ UNCHANGED serverVars

(* /quit: the stream task is aborted.                                      *)
Quit ==
  /\ UiIsFree
  /\ chat' = [chat EXCEPT !.phase = "over"]
  /\ Unsubscribed("ended")
  /\ UNCHANGED outbox /\ UNCHANGED sessionVars
  /\ UNCHANGED <<app, events, refresh, command, commands>>

-----------------------------------------------------------------------------
CliInit ==
  /\ StreamInit
  /\ chat = [phase |-> "start", baseline |-> NoBaseline, resumed |-> FALSE,
             closed |-> FALSE, missed |-> FALSE, skipped |-> FALSE]
  /\ app = [shown |-> [m \in Messages |-> 0], pending |-> {},
            connection |-> "connected", outdated |-> FALSE, stale |-> FALSE]
  /\ events = <<>>
  /\ refresh = Idle
  /\ command = NoCommand
  /\ commands = 0

ChatWaits == UNCHANGED chatVars

CliNext ==
  \/ \E p \in Prompts : StartTurn(p) /\ ChatWaits
  \/ \E p \in Prompts : StreamAssistantChunk(p) /\ ChatWaits
  \/ \E p \in Prompts : RegisterPermissionRequest(p) /\ ChatWaits
  \/ \E p \in Prompts, n \in 1 .. MaxText : CompleteWithReply(p, n) /\ ChatWaits
  \/ \E p \in Prompts : CompleteWithStatus(p) /\ ChatWaits
  \/ \E p \in Prompts : CompleteWithoutOutput(p) /\ ChatWaits
  \/ \E p \in Prompts : OtherSubmits(p) /\ ChatWaits
  \/ \E r \in Permissions : OtherResolves(r) /\ ChatWaits
  \/ OtherCancels /\ ChatWaits
  \/ CloseSession /\ ChatWaits
  \/ \E w \in Writers : TakeSnapshot(w) /\ ChatWaits
  \/ \E w \in Writers : Publish(w) /\ ChatWaits
  \/ Connect /\ ChatWaits
  \/ Subscribe /\ ChatWaits
  \/ Resync /\ ChatWaits
  \/ NewChat \/ GetSession \/ GetSessionHistory \/ HistoryNotFound
  \/ ReceiveEvent \/ StreamBreaks \/ StreamRefused
  \/ DrainEvent \/ LaunchRefresh \/ RefreshReads \/ RefreshReturns \/ RefreshFails
  \/ GivePrompt \/ GiveCancel
  \/ \E r \in Permissions : GiveDecision(r)
  \/ PromptTaken \/ DecisionSent \/ CancelSent
  \/ CommandAnswered \/ CommandFails \/ Quit

CliSpec == CliInit /\ [][CliNext]_cliVars

-----------------------------------------------------------------------------
(* Properties.                                                             *)

(* Every field of the chat and of the UI has its type, and the channel of  *)
(* the session keeps no more than its capacity.                            *)
CliTypeOK ==
  /\ StreamTypeOK
  /\ chat \in Chats
  /\ app \in Apps
  /\ \A i \in 1 .. Len(events) : events[i] \in Updates
  /\ refresh \in [state : {"idle", "asked", "read", "sent"},
                  pending : SUBSET Permissions, queued : BOOLEAN]
  /\ command \in [name : {"none", "prompt", "decide", "cancel"},
                  request : Permissions \cup {0}, done : BOOLEAN]
  /\ commands \in 0 .. MaxCommands

(* Everything published has been shown, and no refresh is on its way.      *)
Settled ==
  /\ Delivered /\ events = <<>> /\ UiIsFree
  /\ refresh = Idle
  /\ ~chat.missed

(* Every answer the session has given is in the transcript as it was       *)
(* given, though partial messages are not shown and snapshots repeat what  *)
(* was shown, unless the chat attached in the middle of it.                *)
EveryReplyIsShown ==
  Settled /\ ~chat.skipped =>
    \A p \in Prompts : stage[p] = "done" => app.shown[p] = session.text[p]

(* When all prompts are answered no request stays on the screen: the last  *)
(* message or status has the pending requests read again, also while a     *)
(* refresh is on its way.                                                  *)
AnsweredRequestsGo ==
  Settled /\ ~chat.skipped /\ ~app.stale /\ ~app.outdated
    /\ (\A p \in Prompts : stage[p] = "done" /\ session.text[p] > 0)
  => app.pending = {}

=============================================================================
