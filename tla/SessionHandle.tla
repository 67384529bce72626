---------------------------- MODULE SessionHandle ----------------------------
(***************************************************************************)
(* One live chat session of the web backend: crates/acp-web-backend/src/   *)
(* sessions/handle.rs.  All of a session's state sits behind one           *)
(* Mutex<SessionData> and every operation takes that mutex once, so every  *)
(* operation is one action.  Callers (prompt tasks, the ACP connection,    *)
(* HTTP handlers) are left open here: any operation may run at any time,   *)
(* under the one discipline every caller keeps, that a prompt starts its   *)
(* turn at most once and its PendingPrompt is consumed by its one          *)
(* completion.  PromptTurns adds the callers.                              *)
(*                                                                         *)
(* A message is identified by the sequence number of the event that first  *)
(* carried it: every message is pushed together with an increment of       *)
(* latest_sequence, so the order of the messages in the vector is the      *)
(* order of their ids.  Its text is the number of chunks it holds.         *)
(***************************************************************************)
EXTENDS Integers, FiniteSets

CONSTANTS
  MaxPrompts,      (* bound: prompts accepted in the life of the session   *)
  MaxPermissions,  (* bound: permission requests registered                *)
  MaxChunks,       (* bound: chunks of one assistant message               *)
  MaxHints,        (* bound: startup hints appended                        *)
  RestoredPrompts  (* numbers of user messages a restored session may hold *)

ASSUME BoundsAssumption ==
  /\ MaxPrompts \in Nat
  /\ MaxPermissions \in Nat
  /\ MaxChunks \in Nat
  /\ MaxHints \in Nat
  /\ RestoredPrompts \subseteq 0 .. MaxPrompts

VARIABLES
  status,              (* SessionStatus                                    *)
  unavailable,         (* runtime_unavailable_reason.is_some()             *)
  latestSequence,
  nextPromptOrder,
  nextPermissionId,
  nextCompletionOrder,
  pendingCompletions,  (* BTreeMap: completions waiting for earlier ones   *)
  permissions,         (* the map of pending requests and their oneshots   *)
  activeTurn,
  cancelWatch,         (* the watch channel of each prompt's turn          *)
  messages,
  openPrompts,         (* prompts whose PendingPrompt is not yet consumed  *)
  published            (* history: the completion drained for each prompt  *)

handleVars == <<status, unavailable, latestSequence, nextPromptOrder,
                nextPermissionId, nextCompletionOrder, pendingCompletions,
                permissions, activeTurn, cancelWatch, messages, openPrompts,
                published>>

-----------------------------------------------------------------------------
Orders == 0 .. MaxPrompts - 1
PermissionIds == 1 .. MaxPermissions

NoOrder == -1
NoMessage == 0

NoTurn == [order |-> NoOrder, cancelled |-> FALSE, message |-> NoMessage]

Turns == [order : Orders \cup {NoOrder}, cancelled : BOOLEAN, message : Nat]

(* A PromptCompletion, one of an order answered before the session was     *)
(* restored, or the mark that an order has none.                           *)
Completion(kind, text) ==
  [kind |-> kind, text |-> text, message |-> NoMessage]

NoCompletion == Completion("absent", 0)

Answers == [kind : {"restored", "reply", "status", "none"},
            text : Nat, message : Nat]

Completions == Answers \cup {NoCompletion}

(* What a task may complete its prompt with: complete_with_reply (whose    *)
(* text is never empty), complete_with_status, complete_without_output.    *)
Outcomes == {Completion("reply", n) : n \in 1 .. MaxChunks}
              \cup {Completion("status", 0), Completion("none", 0)}

Messages == [id : Nat, role : {"user", "assistant"},
             prompt : Orders \cup {NoOrder}, text : Nat]

Message(id, role, prompt, text) ==
  [id |-> id, role |-> role, prompt |-> prompt, text |-> text]

Permissions == [state : {"unused", "pending", "approved", "denied", "cancelled"},
                prompt : Orders \cup {NoOrder}]

-----------------------------------------------------------------------------
(* assistant_message_mut: whether the id still names an assistant message. *)
HasAssistantMessage(id) ==
  \E m \in messages : m.id = id /\ m.role = "assistant"

PendingRequests == {r \in PermissionIds : permissions[r].state = "pending"}

(* Faulty variant: only requests of the active turn are found.             *)
PermissionsCancelledIfActive(orders) ==
  [r \in PermissionIds |->
     IF /\ permissions[r].state = "pending"
        /\ permissions[r].prompt \in orders \cap {activeTurn.order}
       THEN [permissions[r] EXCEPT !.state = "cancelled"]
       ELSE permissions[r]]

(* resolve_permissions_for_prompt_locked with the outcome Cancelled, for   *)
(* every prompt of a set: the requests leave the map and their oneshots    *)
(* are answered.                                                           *)
PermissionsCancelled(orders) ==
  [r \in PermissionIds |->
     IF permissions[r].state = "pending" /\ permissions[r].prompt \in orders
       THEN [permissions[r] EXCEPT !.state = "cancelled"]
       ELSE permissions[r]]

(* Dropping the sender of a watch channel: a receiver that was not         *)
(* cancelled now sees the channel closed.                                  *)
SenderDropped(watch, order) ==
  [o \in Orders |-> IF o = order /\ watch[o] = "open" THEN "closed" ELSE watch[o]]

CancelSent(watch, order) ==
  [o \in Orders |-> IF o = order THEN "cancelled" ELSE watch[o]]

(* cancel_all_turns_locked                                                 *)
CancelAllTurns ==
  /\ cancelWatch' = CancelSent(cancelWatch, activeTurn.order)
  /\ permissions' = PermissionsCancelled(Orders)
  /\ activeTurn' = NoTurn

-----------------------------------------------------------------------------
(* Draining the completions that are next in line.                         *)

(* Faulty variant: a completion without output is not recorded.            *)
WithStreamedMessageOrNothing(completion, message) ==
  IF completion.kind = "none" /\ message = NoMessage
    THEN NoCompletion ELSE [completion EXCEPT !.message = message]

(* completion_with_streamed_message                                        *)
WithStreamedMessage(completion, message) ==
  CASE completion.kind = "none" /\ message # NoMessage ->
         [Completion("reply", 0) EXCEPT !.message = message]
    [] completion.kind = "none" /\ message = NoMessage -> completion
    [] OTHER -> [completion EXCEPT !.message = message]

(* streamed_message_id_for_prompt                                          *)
StreamedMessage(order) ==
  IF activeTurn.order = order THEN activeTurn.message ELSE NoMessage

(* The events one completion pushes: a status that ends a streamed reply   *)
(* first closes the reply.                                                 *)
EventCount(completion) ==
  CASE completion.kind = "none" -> 0
    [] completion.kind = "status" /\ completion.message # NoMessage -> 2
    [] OTHER -> 1

(* The events pushed for the orders first .. last, as a set of slots.      *)
EventSlots(pending, first, last) ==
  {slot \in (first .. last) \X (1 .. 2) : slot[2] <= EventCount(pending[slot[1]])}

(* The sequence number reached once the orders first .. last are drained.  *)
SequenceAfter(pending, first, last) ==
  latestSequence + Cardinality(EventSlots(pending, first, last))

(* complete_reply_events on a message that was streamed: the collected     *)
(* text corrects it unless it is empty.                                    *)
Corrected(message, drained, pending) ==
  LET replies == {o \in drained : /\ pending[o].kind = "reply"
                                  /\ pending[o].message = message.id
                                  /\ pending[o].text # 0} IN
  IF message.role = "assistant" /\ replies # {}
    THEN [message EXCEPT !.text = pending[CHOOSE o \in replies : TRUE].text]
    ELSE message

(* A reply that has no streamed message to complete becomes a message.     *)
(* (Nothing removes a message, so the code's fallbacks for a streamed      *)
(* message that is gone are dead code.)                                    *)
PushesMessage(completion) ==
  completion.kind = "reply" /\ ~HasAssistantMessage(completion.message)

(* Faulty variant: completions leave the map in the order they come.       *)
DrainAsCompleted(pending) ==
  LET drained == {o \in Orders : pending[o].kind # "absent"} IN
  /\ nextCompletionOrder' = nextCompletionOrder + Cardinality(drained)
  /\ pendingCompletions' = [o \in Orders |-> NoCompletion]
  /\ published' = [o \in Orders |->
       IF o \in drained THEN pending[o] ELSE published[o]]
  /\ UNCHANGED <<latestSequence, messages>>

(* drain_pending_completion_events: completions leave the map in prompt    *)
(* order, starting at next_completion_order, up to the first gap.          *)
Drain(pending) ==
  \E gap \in nextCompletionOrder .. MaxPrompts :
    LET drained == nextCompletionOrder .. gap - 1 IN
    /\ \A o \in drained : pending[o].kind # "absent"
    /\ gap \in Orders => pending[gap].kind = "absent"
    /\ nextCompletionOrder' = gap
    /\ pendingCompletions' = [o \in Orders |->
         IF o \in drained THEN NoCompletion ELSE pending[o]]
    /\ published' = [o \in Orders |->
         IF o \in drained THEN pending[o] ELSE published[o]]
    /\ latestSequence' = SequenceAfter(pending, nextCompletionOrder, gap - 1)
    /\ messages' =
         {Corrected(m, drained, pending) : m \in messages}
           \cup {Message(SequenceAfter(pending, nextCompletionOrder, o),
                         "assistant", o, pending[o].text) :
                   o \in {d \in drained : PushesMessage(pending[d])}}

-----------------------------------------------------------------------------
(* Operations.                                                             *)

SubmitUserPrompt ==
  /\ status = "active"
  /\ ~unavailable
  /\ nextPromptOrder < MaxPrompts
  /\ nextPromptOrder' = nextPromptOrder + 1
  /\ openPrompts' = openPrompts \cup {nextPromptOrder}
  /\ latestSequence' = latestSequence + 1
  /\ messages' = messages
       \cup {Message(latestSequence + 1, "user", nextPromptOrder, 0)}
  /\ UNCHANGED <<status, unavailable, nextPermissionId, nextCompletionOrder,
                 pendingCompletions, permissions, activeTurn, cancelWatch,
                 published>>

(* start_turn replaces whatever turn is active, cancelled or not.  A       *)
(* prompt's one request_reply starts its turn at most once.                *)
StartTurn(order) ==
  /\ order \in openPrompts
  /\ cancelWatch[order] = "none"
  /\ status = "active"
  /\ ~unavailable
  /\ activeTurn' = [NoTurn EXCEPT !.order = order]
  /\ cancelWatch' =
       [SenderDropped(cancelWatch, activeTurn.order) EXCEPT ![order] = "open"]
  /\ UNCHANGED <<status, unavailable, latestSequence, nextPromptOrder,
                 nextPermissionId, nextCompletionOrder, pendingCompletions,
                 permissions, messages, openPrompts, published>>

(* Faulty variant: a cancelled turn still takes output.                    *)
AcceptsOutputOnceCancelled(order) == activeTurn.order = order

(* Whether the turn takes output: it is the active one and not cancelled.  *)
AcceptsOutput(order) ==
  activeTurn.order = order /\ ~activeTurn.cancelled

StreamAssistantChunk(order) ==
  /\ order \in openPrompts
  /\ status = "active"
  /\ AcceptsOutput(order)
  /\ latestSequence' = latestSequence + 1
  /\ \/ /\ HasAssistantMessage(activeTurn.message)
        /\ \A m \in messages : m.id = activeTurn.message => m.text < MaxChunks
        /\ messages' = {IF m.id = activeTurn.message
                          THEN [m EXCEPT !.text = @ + 1] ELSE m : m \in messages}
        /\ UNCHANGED activeTurn
     \/ /\ ~HasAssistantMessage(activeTurn.message)
        /\ 0 < MaxChunks
        /\ messages' = messages
             \cup {Message(latestSequence + 1, "assistant", order, 1)}
        /\ activeTurn' = [activeTurn EXCEPT !.message = latestSequence + 1]
  /\ UNCHANGED <<status, unavailable, nextPromptOrder, nextPermissionId,
                 nextCompletionOrder, pendingCompletions, permissions,
                 cancelWatch, openPrompts, published>>

(* A request for a turn that takes no output is answered Cancelled at once *)
(* and leaves no trace.                                                    *)
RegisterPermissionRequest(order) ==
  /\ order \in openPrompts
  /\ status = "active"
  /\ AcceptsOutput(order)
  /\ nextPermissionId \in PermissionIds
  /\ nextPermissionId' = nextPermissionId + 1
  /\ permissions' = [permissions EXCEPT
       ![nextPermissionId] = [state |-> "pending", prompt |-> order]]
  /\ latestSequence' = latestSequence + 1
  /\ UNCHANGED <<status, unavailable, nextPromptOrder,
                 nextCompletionOrder, pendingCompletions, activeTurn,
                 cancelWatch, messages, openPrompts, published>>

ResolvePermission(request, decision) ==
  /\ status = "active"
  /\ request \in PendingRequests
  /\ permissions' = [permissions EXCEPT ![request].state = decision]
  /\ UNCHANGED <<status, unavailable, latestSequence, nextPromptOrder,
                 nextPermissionId, nextCompletionOrder, pendingCompletions,
                 activeTurn, cancelWatch, messages, openPrompts, published>>

(* The turn stays active, cancelled, until its prompt completes.           *)
CancelActiveTurn ==
  /\ status = "active"
  /\ activeTurn.order # NoOrder
  /\ activeTurn' = [activeTurn EXCEPT !.cancelled = TRUE]
  /\ cancelWatch' = CancelSent(cancelWatch, activeTurn.order)
  /\ permissions' = PermissionsCancelled({activeTurn.order})
  /\ UNCHANGED <<status, unavailable, latestSequence, nextPromptOrder,
                 nextPermissionId, nextCompletionOrder, pendingCompletions,
                 messages, openPrompts, published>>

CompletePrompt(order, outcome) ==
  /\ order \in openPrompts
  /\ status = "active"
  /\ openPrompts' = openPrompts \ {order}
  /\ activeTurn' = IF activeTurn.order = order THEN NoTurn ELSE activeTurn
  /\ cancelWatch' = IF activeTurn.order = order
                      THEN SenderDropped(cancelWatch, order) ELSE cancelWatch
  /\ permissions' = PermissionsCancelled({order})
  /\ Drain([pendingCompletions EXCEPT
              ![order] = WithStreamedMessage(outcome, StreamedMessage(order))])
  /\ UNCHANGED <<status, unavailable, nextPromptOrder, nextPermissionId>>

(* Faulty variant: complete_prompt does not look at the status.            *)
CompleteThoughClosed(order) ==
  /\ order \in openPrompts
  /\ openPrompts' = openPrompts \ {order}
  /\ Drain([pendingCompletions EXCEPT ![order] = Completion("status", 0)])
  /\ UNCHANGED <<status, unavailable, nextPromptOrder, nextPermissionId,
                 permissions, activeTurn, cancelWatch>>

(* A completion that finds the session closed consumes the PendingPrompt   *)
(* and is ignored.                                                         *)
CompleteAfterClose(order) ==
  /\ order \in openPrompts
  /\ status = "closed"
  /\ openPrompts' = openPrompts \ {order}
  /\ UNCHANGED <<status, unavailable, latestSequence, nextPromptOrder,
                 nextPermissionId, nextCompletionOrder, pendingCompletions,
                 permissions, activeTurn, cancelWatch, messages, published>>

MarkRuntimeUnavailable ==
  /\ status = "active"
  /\ CancelAllTurns
  /\ unavailable' = TRUE
  /\ UNCHANGED <<status, latestSequence, nextPromptOrder,
                 nextPermissionId, nextCompletionOrder, pendingCompletions,
                 messages, openPrompts, published>>

Close ==
  /\ status = "active"
  /\ CancelAllTurns
  /\ status' = "closed"
  /\ pendingCompletions' = [o \in Orders |-> NoCompletion]
  /\ latestSequence' = latestSequence + 1
  /\ UNCHANGED <<unavailable, nextPromptOrder, nextPermissionId,
                 nextCompletionOrder, messages, openPrompts, published>>

(* prepare_delete closes without an event, whatever the status.            *)
PrepareDelete ==
  /\ CancelAllTurns
  /\ status' = "closed"
  /\ pendingCompletions' = [o \in Orders |-> NoCompletion]
  /\ UNCHANGED <<unavailable, latestSequence, nextPromptOrder,
                 nextPermissionId, nextCompletionOrder, messages, openPrompts,
                 published>>

(* append_message, which only the startup hint of a new session uses.      *)
AppendMessage ==
  /\ status = "active"
  /\ Cardinality({m \in messages : m.prompt = NoOrder}) < MaxHints
  /\ latestSequence' = latestSequence + 1
  /\ messages' = messages
       \cup {Message(latestSequence + 1, "assistant", NoOrder, 1)}
  /\ UNCHANGED <<status, unavailable, nextPromptOrder, nextPermissionId,
                 nextCompletionOrder, pendingCompletions, permissions,
                 activeTurn, cancelWatch, openPrompts, published>>

-----------------------------------------------------------------------------
(* SessionHandle::new and SessionHandle::restore.  A restored session      *)
(* numbers its prompts from the count of user messages in the snapshot;    *)
(* the assistant messages of its past are not represented.                 *)
HandleInit ==
  /\ \/ status = "active" /\ nextPromptOrder = 0
     \/ status \in {"active", "closed"} /\ nextPromptOrder \in RestoredPrompts
  /\ unavailable = FALSE
  /\ latestSequence = nextPromptOrder
  /\ nextPermissionId = 1
  /\ nextCompletionOrder = nextPromptOrder
  /\ pendingCompletions = [o \in Orders |-> NoCompletion]
  /\ permissions = [r \in PermissionIds |-> [state |-> "unused", prompt |-> NoOrder]]
  /\ activeTurn = NoTurn
  /\ cancelWatch = [o \in Orders |-> "none"]
  /\ messages = {Message(o + 1, "user", o, 0) : o \in 0 .. nextPromptOrder - 1}
  /\ openPrompts = {}
  /\ published = [o \in Orders |-> IF o < nextPromptOrder
                                     THEN Completion("restored", 0)
                                     ELSE NoCompletion]

HandleNext ==
  \/ SubmitUserPrompt
  \/ \E o \in Orders : StartTurn(o)
  \/ \E o \in Orders : StreamAssistantChunk(o)
  \/ \E o \in Orders : RegisterPermissionRequest(o)
  \/ \E r \in PermissionIds, d \in {"approved", "denied"} : ResolvePermission(r, d)
  \/ CancelActiveTurn
  \/ \E o \in Orders, c \in Outcomes : CompletePrompt(o, c)
  \/ \E o \in Orders : CompleteAfterClose(o)
  \/ MarkRuntimeUnavailable
  \/ Close
  \/ PrepareDelete
  \/ AppendMessage

HandleSpec == HandleInit /\ [][HandleNext]_handleVars

-----------------------------------------------------------------------------
(* Invariants.                                                             *)

(* Every variable has its type.                                            *)
HandleTypeOK ==
  /\ status \in {"active", "closed"}
  /\ unavailable \in BOOLEAN
  /\ latestSequence \in Nat
  /\ nextPromptOrder \in 0 .. MaxPrompts
  /\ nextPermissionId \in 1 .. MaxPermissions + 1
  /\ nextCompletionOrder \in 0 .. MaxPrompts
  /\ pendingCompletions \in [Orders -> Completions]
  /\ permissions \in [PermissionIds -> Permissions]
  /\ activeTurn \in Turns
  /\ cancelWatch \in [Orders -> {"none", "open", "cancelled", "closed"}]
  /\ messages \in SUBSET Messages
  /\ openPrompts \in SUBSET Orders
  /\ published \in [Orders -> Completions]

(* While the session is active every accepted prompt is in exactly one     *)
(* place: still with its task, completed and waiting for its turn in the   *)
(* output order, or released; an order not handed out yet is in none.  A   *)
(* prompt that fell out of all three would silence every later answer.     *)
AnswersAccounted ==
  status = "active" =>
    /\ nextCompletionOrder <= nextPromptOrder
    /\ \A o \in Orders :
         /\ o \in openPrompts <=> /\ nextCompletionOrder <= o
                                  /\ o < nextPromptOrder
                                  /\ pendingCompletions[o].kind = "absent"
         /\ pendingCompletions[o].kind # "absent" =>
              nextCompletionOrder <= o /\ o < nextPromptOrder
         /\ published[o].kind # "absent" <=> o < nextCompletionOrder

(* A completion is held back only while the prompt next in line is still   *)
(* with its task: the drain never stops short of a released gap.           *)
NoAnswerHeldBack ==
  (\E o \in Orders : pendingCompletions[o].kind # "absent")
    => nextCompletionOrder \in openPrompts

(* A permission request can wait only while its prompt's task is running   *)
(* in an active session: completing, closing, deleting or losing the       *)
(* runtime answers every request that nobody will answer otherwise.        *)
PendingPermissionsHaveATask ==
  \A r \in PendingRequests :
    status = "active" /\ permissions[r].prompt \in openPrompts

(* The one turn a user can cancel is the active one: its channel is the    *)
(* only one still open, and says "cancelled" exactly when the turn does.   *)
OnlyTheActiveTurnIsCancellable ==
  /\ activeTurn.order # NoOrder =>
       /\ activeTurn.order \in openPrompts
       /\ cancelWatch[activeTurn.order] =
            IF activeTurn.cancelled THEN "cancelled" ELSE "open"
  /\ \A o \in Orders : cancelWatch[o] = "open" => activeTurn.order = o

(* A closed session holds no turn, no waiting request and no completion.   *)
NothingPendingWhenClosed ==
  status = "closed" =>
    /\ activeTurn = NoTurn
    /\ PendingRequests = {}
    /\ \A o \in Orders : pendingCompletions[o].kind = "absent"

-----------------------------------------------------------------------------
(* Action properties.                                                      *)

(* Closing is final and the transcript of a closed session is frozen,      *)
(* however many tasks still complete, stream or ask afterwards.            *)
ClosedIsFinal ==
  [][status = "closed" =>
       /\ status' = "closed"
       /\ UNCHANGED <<messages, latestSequence, published>>]_handleVars

(* Once a turn is cancelled nothing more of its output reaches the         *)
(* transcript while it is the active turn.                                 *)
CancelledTurnIsMute ==
  [][activeTurn.cancelled /\ activeTurn'.order = activeTurn.order =>
       /\ activeTurn'.cancelled
       /\ {m \in messages' : m.prompt = activeTurn.order} =
          {m \in messages : m.prompt = activeTurn.order}]_handleVars

-----------------------------------------------------------------------------
(* Turns, tasks, streaming and the map of waiting completions implement    *)
(* the ledger of prompts and answers a reader of the session relies on:    *)
(* whatever the order in which tasks complete, answers are released in     *)
(* prompt order, each once, none after the session was closed.             *)
Ledger == INSTANCE AnswerLedger WITH
  Capacity <- MaxPrompts,
  Answers <- Answers,
  NoAnswer <- NoCompletion,
  open <- status = "active",
  accepted <- nextPromptOrder,
  released <- nextCompletionOrder,
  answers <- published

ImplementsLedger == Ledger!Spec

=============================================================================
