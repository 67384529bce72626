---------------------------- MODULE SessionStream ----------------------------
(***************************************************************************)
(* How the events of one session reach one client: the operations of       *)
(* sessions.rs that change a session and then broadcast what they did, the *)
(* broadcast channel with its bounded buffer, and the SSE handler of       *)
(* server/session_api/stream.rs.                                           *)
(*                                                                         *)
(* An operation changes the session under the session's mutex and          *)
(* broadcasts after releasing it: between the two its events are in the    *)
(* writer's outbox, where other writers overtake them.  Resolving and      *)
(* cancelling broadcast a snapshot instead, taken in a step of its own.  A *)
(* stream takes a snapshot and then subscribes, in two steps.              *)
(*                                                                         *)
(* The session is the one of SessionHandle with what the properties do not *)
(* tell apart left out: prompts run one after the other, a text is the     *)
(* number of chunks it holds, and the messages are those of the assistant, *)
(* one a prompt: the user's own are broadcast and shown like a chunk.      *)
(* What a client does with the events is WebChat and CliChat, which extend *)
(* this module.                                                            *)
(***************************************************************************)
EXTENDS Integers, Sequences, FiniteSets

CONSTANTS
  Prompts,     (* bound: the prompts, numbered 1, 2, ...                   *)
  Permissions, (* bound: the permission requests, numbered 1, 2, ...       *)
  MaxText,     (* bound: chunks of one assistant message                   *)
  Capacity,    (* SESSION_EVENT_BUFFER_CAPACITY, and a bound               *)
  MaxOthers    (* bound: what the other clients do                         *)

ASSUME StreamAssumption ==
  /\ Prompts \subseteq Nat \ {0} /\ Prompts # {} /\ Permissions \subseteq Nat
  /\ MaxText \in Nat \ {0} /\ Capacity \in Nat \ {0}
  /\ MaxOthers \in Nat

VARIABLES
  session,  (* the SessionData: [closed, text, pending, turn, cancelled]   *)
  stage,    (* how far each prompt is                                      *)
  asked,    (* permission requests registered so far                       *)
  outbox,   (* writer -> the events it still has to broadcast              *)
  stream,   (* the client's connection to the event stream                 *)
  held,     (* the snapshot the stream delivers next, or nothing           *)
  queue,    (* what the channel keeps for the subscribed receiver          *)
  lagged,   (* the receiver missed events the channel no longer keeps      *)
  others    (* how often another client has acted                          *)

sessionVars == <<session, stage, asked, others>>
streamVars == <<stream, held, queue, lagged>>
serverVars == <<session, stage, asked, others, outbox, stream, held, queue, lagged>>

-----------------------------------------------------------------------------
(* The message of a prompt's reply; its text is 0 before the first chunk.  *)
Messages == Prompts
NoPrompt == 0

(* The tasks that write: the prompt's task with its agent, the handler of  *)
(* this client's decision or cancellation, and any other client.           *)
Writers == {"agent", "action", "other"}

Sessions == [closed : BOOLEAN, text : [Messages -> 0 .. MaxText],
             pending : SUBSET Permissions,
             turn : Prompts \cup {NoPrompt}, cancelled : BOOLEAN]

NewSession == [closed |-> FALSE, text |-> [m \in Messages |-> 0],
               pending |-> {}, turn |-> NoPrompt, cancelled |-> FALSE]

(* StreamEvent.  "missed" is history: the session has published an event   *)
(* after the snapshot was taken that this client will not get after it.    *)
Snapshots == [kind : {"snapshot"}, closed : BOOLEAN,
              text : [Messages -> 0 .. MaxText],
              pending : SUBSET Permissions, active : BOOLEAN, missed : BOOLEAN]

Events == Snapshots
  \cup [kind : {"message"}, message : Messages, length : 0 .. MaxText, partial : BOOLEAN]
  \cup [kind : {"permission"}, request : Permissions]
  \cup [kind : {"closed", "status", "take"}]

(* SessionHandle::snapshot: a cancelled turn is active until its prompt    *)
(* completes.                                                              *)
Snapshot == [kind |-> "snapshot", closed |-> session.closed, text |-> session.text,
             pending |-> session.pending, active |-> session.turn # NoPrompt,
             missed |-> FALSE]

Nothing == [kind |-> "nothing"]

Message(m, n, partial) ==
  [kind |-> "message", message |-> m, length |-> n, partial |-> partial]

(* A snapshot to be taken once the operation has released the mutex.       *)
Take == [kind |-> "take"]

-----------------------------------------------------------------------------
(* The operations on the session, and what they will broadcast.            *)
(* (SubmitPrompt, ResolvePermission and CancelActiveTurn are a client's:   *)
(* this one's or another's.)                                               *)

Write(writer, changed, events) ==
  /\ outbox[writer] = <<>>
  /\ session' = changed
  /\ outbox' = [outbox EXCEPT ![writer] = events]
  /\ UNCHANGED streamVars

SubmitPrompt(p) ==
  /\ ~session.closed
  /\ stage[p] = "new"
  /\ \A q \in Prompts : q < p => stage[q] # "new"
  /\ stage' = [stage EXCEPT ![p] = "queued"]
  /\ UNCHANGED <<session, asked, outbox>> /\ UNCHANGED streamVars

StartTurn(p) ==
  /\ ~session.closed
  /\ stage[p] = "queued"
  /\ \A q \in Prompts : q < p => stage[q] = "done"
  /\ stage' = [stage EXCEPT ![p] = "running"]
  /\ Write("agent", [session EXCEPT !.turn = p, !.cancelled = FALSE], <<>>)
  /\ UNCHANGED <<asked, others>>

TakesOutput(p) == ~session.closed /\ session.turn = p /\ ~session.cancelled

StreamAssistantChunk(p) ==
  /\ TakesOutput(p)
  /\ session.text[p] < MaxText
  /\ LET n == session.text[p] + 1 IN
     Write("agent", [session EXCEPT !.text[p] = n],
           <<Message(p, n, TRUE)>>)
  /\ UNCHANGED <<stage, asked, others>>

RegisterPermissionRequest(p) ==
  /\ TakesOutput(p)
  /\ asked + 1 \in Permissions
  /\ asked' = asked + 1
  /\ Write("agent", [session EXCEPT !.pending = @ \cup {asked + 1}],
           <<[kind |-> "permission", request |-> asked + 1]>>)
  /\ UNCHANGED <<stage, others>>

(* complete_prompt clears the turn and the prompt's requests; a reply is   *)
(* the streamed message, corrected, or a message of its own, a status      *)
(* first ends the streamed message, a prompt may also end without output.  *)
Completed(p, n) ==
  [session EXCEPT !.text[p] = n, !.pending = {},
                  !.turn = NoPrompt, !.cancelled = FALSE]

CompleteWithReply(p, n) ==
  /\ stage[p] = "running"
  /\ ~session.closed
  /\ n > 0
  /\ stage' = [stage EXCEPT ![p] = "done"]
  /\ Write("agent", Completed(p, n), <<Message(p, n, FALSE)>>)
  /\ UNCHANGED <<asked, others>>

CompleteWithStatus(p) ==
  /\ stage[p] = "running"
  /\ ~session.closed
  /\ stage' = [stage EXCEPT ![p] = "done"]
  /\ LET n == session.text[p] IN
     Write("agent", Completed(p, n),
           (IF n > 0 THEN <<Message(p, n, FALSE)>> ELSE <<>>)
             \o <<[kind |-> "status"]>>)
  /\ UNCHANGED <<asked, others>>

(* With a streamed message this is a reply of what was streamed.           *)
CompleteWithoutOutput(p) ==
  /\ stage[p] = "running"
  /\ ~session.closed
  /\ session.text[p] = 0
  /\ stage' = [stage EXCEPT ![p] = "done"]
  /\ Write("agent", Completed(p, 0), <<>>)
  /\ UNCHANGED <<asked, others>>

ResolvePermission(writer, r) ==
  /\ ~session.closed
  /\ r \in session.pending
  /\ Write(writer, [session EXCEPT !.pending = @ \ {r}], <<Take>>)
  /\ UNCHANGED <<stage, asked>>

CancelActiveTurn(writer) ==
  /\ ~session.closed
  /\ session.turn # NoPrompt
  /\ Write(writer, [session EXCEPT !.pending = {}, !.cancelled = TRUE], <<Take>>)
  /\ UNCHANGED <<stage, asked>>

OtherClientActs ==
  /\ others < MaxOthers
  /\ others' = others + 1

OtherSubmits(p) == OtherClientActs /\ SubmitPrompt(p)
OtherResolves(r) == OtherClientActs /\ ResolvePermission("other", r)
OtherCancels == OtherClientActs /\ CancelActiveTurn("other")

CloseSession ==
  /\ ~session.closed
  /\ OtherClientActs
  /\ Write("other", [session EXCEPT !.closed = TRUE, !.pending = {},
                                    !.turn = NoPrompt, !.cancelled = FALSE],
           <<[kind |-> "closed"]>>)
  /\ UNCHANGED <<stage, asked>>

-----------------------------------------------------------------------------
(* Broadcasting.                                                           *)

TakeSnapshot(writer) ==
  /\ outbox[writer] = <<Take>>
  /\ outbox' = [outbox EXCEPT ![writer] = <<Snapshot>>]
  /\ UNCHANGED sessionVars /\ UNCHANGED streamVars

Overtaken(event) ==
  IF event.kind = "snapshot" THEN [event EXCEPT !.missed = TRUE] ELSE event

(* broadcast::Sender::send: the oldest event gives way, and the receiver   *)
(* that has not read it lags.                                              *)
Publish(writer) ==
  /\ outbox[writer] # <<>>
  /\ Head(outbox[writer]) # Take
  /\ outbox' = [w \in Writers |->
       IF w = writer THEN Tail(outbox[w])
       ELSE [i \in 1 .. Len(outbox[w]) |-> Overtaken(outbox[w][i])]]
  /\ held' = IF stream = "snapped" THEN Overtaken(held) ELSE held
  /\ IF stream = "open"
       THEN LET sent == Append(queue, Head(outbox[writer])) IN
            IF Len(sent) > Capacity THEN queue' = Tail(sent) /\ lagged' = TRUE
                                    ELSE queue' = sent /\ UNCHANGED lagged
       ELSE UNCHANGED <<queue, lagged>>
  /\ UNCHANGED <<stream>> /\ UNCHANGED sessionVars

-----------------------------------------------------------------------------
(* stream_session_events.                                                  *)

(* session_events: the snapshot first ...                                  *)
Connect ==
  /\ stream = "down"
  /\ stream' = "snapped"
  /\ held' = Snapshot
  /\ UNCHANGED <<queue, lagged, outbox>> /\ UNCHANGED sessionVars

(* ... then the subscription.                                              *)
Subscribe ==
  /\ stream = "snapped"
  /\ stream' = "open"
  /\ UNCHANGED <<held, queue, lagged, outbox>> /\ UNCHANGED sessionVars

(* A closed session may have been pruned: the handler then finds no        *)
(* session, and the client gives up.                                       *)
Refused ==
  /\ stream = "down"
  /\ session.closed
  /\ stream' = "ended"
  /\ UNCHANGED <<held, queue, lagged, outbox>> /\ UNCHANGED sessionVars

Unsubscribed(next) ==
  /\ stream' = next
  /\ held' = Nothing
  /\ queue' = <<>>
  /\ lagged' = FALSE

(* What breaks is made up again by the client, or not: "next".             *)
Disconnect(next) ==
  /\ stream \in {"snapped", "open"}
  /\ Unsubscribed(next)
  /\ UNCHANGED outbox /\ UNCHANGED sessionVars

(* Faulty variant: a receiver that lagged goes on with what is left.       *)
ResyncIgnored ==
  /\ stream = "open"
  /\ lagged
  /\ held = Nothing
  /\ lagged' = FALSE
  /\ UNCHANGED <<stream, held, queue, outbox>> /\ UNCHANGED sessionVars

(* stream_event_from_receiver_result: a lagging receiver gets a snapshot   *)
(* of now, and then the events the channel still keeps.                    *)
Resync ==
  /\ stream = "open"
  /\ lagged
  /\ held = Nothing
  /\ held' = Snapshot
  /\ lagged' = FALSE
  /\ UNCHANGED <<stream, queue, outbox>> /\ UNCHANGED sessionVars

(* The next item of the response, handed to the client, which may close    *)
(* the stream on it.                                                       *)
HasItem == stream = "open" /\ (held # Nothing \/ (~lagged /\ queue # <<>>))
Item == IF held # Nothing THEN held ELSE Head(queue)

Deliver(closes) ==
  /\ HasItem
  /\ IF closes
       THEN Unsubscribed("ended")
       ELSE /\ held' = Nothing
            /\ queue' = IF held # Nothing THEN queue ELSE Tail(queue)
            /\ UNCHANGED <<stream, lagged>>
  /\ UNCHANGED outbox /\ UNCHANGED sessionVars

-----------------------------------------------------------------------------
StreamTypeOK ==
  /\ session \in Sessions
  /\ stage \in [Prompts -> {"new", "queued", "running", "done"}]
  /\ asked \in Nat
  /\ \A w \in Writers : \A i \in 1 .. Len(outbox[w]) : outbox[w][i] \in Events
  /\ stream \in {"off", "down", "snapped", "open", "ended"}
  /\ held \in Snapshots \cup {Nothing}
  /\ Len(queue) <= Capacity
  /\ \A i \in 1 .. Len(queue) : queue[i] \in Events
  /\ lagged \in BOOLEAN
  /\ others \in 0 .. MaxOthers

StreamInit ==
  /\ session = NewSession
  /\ stage = [p \in Prompts |-> "new"]
  /\ asked = 0
  /\ outbox = [w \in Writers |-> <<>>]
  /\ stream = "off"
  /\ held = Nothing
  /\ queue = <<>>
  /\ lagged = FALSE
  /\ others = 0

(* Nothing is on its way to the client.                                    *)
Delivered ==
  /\ stream = "open" /\ held = Nothing /\ queue = <<>> /\ ~lagged
  /\ \A w \in Writers : outbox[w] = <<>>
=============================================================================
