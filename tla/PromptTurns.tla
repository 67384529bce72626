----------------------------- MODULE PromptTurns -----------------------------
(***************************************************************************)
(* The life of the prompts of one session: the HTTP handlers that submit,  *)
(* cancel, decide and close (server/session_service.rs), one task per      *)
(* accepted prompt (dispatch_assistant_request), the per-session lock and  *)
(* the ACP roundtrip of the reply provider (mock_client.rs), all working   *)
(* on one SessionHandle.  The agent at the other end of the connection is  *)
(* free to answer, stream, ask for permissions, fail or stay silent.       *)
(***************************************************************************)
EXTENDS SessionHandle

VARIABLES
  restored,    (* the session was restored from its durable snapshot       *)
  stage,       (* where the task of each prompt stands                     *)
  lockHolder,  (* the prompt whose roundtrip holds the session lock        *)
  collected,   (* chunks in the roundtrip's reply buffer                   *)
  inFlight,    (* a chunk was collected and not yet handed to the session  *)
  result       (* what the roundtrip returned                              *)

taskVars == <<restored, stage, lockHolder, collected, inFlight, result>>
vars == <<handleVars, taskVars>>

(* accepted: the prompt is in the session, its task not yet spawned;       *)
(* queued: request_reply waits for the session lock; connecting: it holds  *)
(* it and connects and initializes; starting: the turn is started, the     *)
(* agent's session loaded or created; prompting: the prompt is sent and    *)
(* streaming on; cancelling: the cancel notification is sent; answered and *)
(* stopped: the agent responded, late chunks are waited for; finished: the *)
(* roundtrip returned and the lock is free; done: the prompt is completed. *)
(* lost: the submitting request was dropped before the task was spawned.   *)
Stages == {"idle", "accepted", "lost", "queued", "connecting", "starting",
           "prompting", "cancelling", "answered", "stopped", "finished", "done"}

Roundtrip == {"connecting", "starting", "prompting", "cancelling", "answered",
              "stopped"}

(* The stages in which the roundtrip's turn has been started.              *)
InTurn == Roundtrip \ {"connecting"}

(* The stages in which chunks are collected and streamed.                  *)
Streaming == InTurn \ {"starting"}

Moves(o, from, to) ==
  /\ stage[o] = from
  /\ stage' = [stage EXCEPT ![o] = to]

(* The roundtrip returns: the guard of the session lock is dropped, and    *)
(* with the connection the chunk and the requests it was handling.         *)
Returns(o, outcome) ==
  /\ stage' = [stage EXCEPT ![o] = "finished"]
  /\ result' = [result EXCEPT ![o] = outcome]
  /\ inFlight' = [inFlight EXCEPT ![o] = FALSE]
  /\ lockHolder' = NoOrder
  /\ UNCHANGED <<collected, restored, handleVars>>

-----------------------------------------------------------------------------
(* The submitting request: it is accepted, then its snapshot is saved and  *)
(* its task spawned, unless the client goes away and the server drops the  *)
(* handler in between.                                                     *)

Submit ==
  /\ SubmitUserPrompt
  /\ stage' = [stage EXCEPT ![nextPromptOrder] = "accepted"]
  /\ UNCHANGED <<restored, lockHolder, collected, inFlight, result>>

Dispatch(o) ==
  /\ Moves(o, "accepted", "queued")
  /\ UNCHANGED <<handleVars, restored, lockHolder, collected, inFlight, result>>

ClientDisconnects(o) ==
  /\ Moves(o, "accepted", "lost")
  /\ UNCHANGED <<handleVars, restored, lockHolder, collected, inFlight, result>>

-----------------------------------------------------------------------------
(* The roundtrip.                                                          *)

AcquireLock(o) ==
  /\ Moves(o, "queued", "connecting")
  /\ lockHolder = NoOrder
  /\ lockHolder' = o
  /\ UNCHANGED <<handleVars, restored, collected, inFlight, result>>

BeginTurn(o) ==
  /\ Moves(o, "connecting", "starting")
  /\ StartTurn(o)
  /\ UNCHANGED <<restored, lockHolder, collected, inFlight, result>>

SendPrompt(o) ==
  /\ Moves(o, "starting", "prompting")
  /\ cancelWatch[o] # "cancelled"
  /\ UNCHANGED <<handleVars, restored, lockHolder, collected, inFlight, result>>

CancelledBeforePrompt(o) ==
  /\ stage[o] = "starting"
  /\ cancelWatch[o] = "cancelled"
  /\ Returns(o, "status")

(* session_notification: the chunk goes to the reply buffer, then, after   *)
(* an await, to the session, which drops it when the turn takes no output. *)
CollectChunk(o) ==
  /\ stage[o] \in Streaming
  /\ ~inFlight[o]
  /\ collected[o] < MaxChunks
  /\ collected' = [collected EXCEPT ![o] = @ + 1]
  /\ inFlight' = [inFlight EXCEPT ![o] = TRUE]
  /\ UNCHANGED <<handleVars, restored, stage, lockHolder, result>>

ForwardChunk(o) ==
  /\ stage[o] \in Streaming
  /\ inFlight[o]
  /\ inFlight' = [inFlight EXCEPT ![o] = FALSE]
  /\ \/ StreamAssistantChunk(o)
     \/ ~(status = "active" /\ AcceptsOutput(o)) /\ UNCHANGED handleVars
  /\ UNCHANGED <<restored, stage, lockHolder, collected, result>>

AskPermission(o) ==
  /\ stage[o] \in InTurn
  /\ RegisterPermissionRequest(o)
  /\ UNCHANGED taskVars

(* await_prompt_reply: a response and a cancellation race.  A watch whose  *)
(* sender is gone leaves the response as the only way out.                 *)
AgentResponds(o, stopReason) ==
  /\ Moves(o, "prompting", stopReason)
  /\ UNCHANGED <<handleVars, restored, lockHolder, collected, inFlight, result>>

NoticeCancel(o) ==
  /\ Moves(o, "prompting", "cancelling")
  /\ cancelWatch[o] = "cancelled"
  /\ UNCHANGED <<handleVars, restored, lockHolder, collected, inFlight, result>>

(* reply_from_stop_reason, once the late chunks are in.                    *)
ReturnReply(o) ==
  /\ stage[o] = "answered"
  /\ Returns(o, IF collected[o] = 0 THEN "none" ELSE "reply")

ReturnCancelled(o) ==
  /\ stage[o] \in {"stopped", "cancelling"}
  /\ Returns(o, "status")

(* Faulty variants: the timeout bounds the prompt request only; a failed   *)
(* roundtrip is tried again.                                               *)
FailWhilePrompting(o) ==
  /\ stage[o] = "prompting"
  /\ Returns(o, "status")

(* Any error of the roundtrip, the turn that cannot start because the      *)
(* session is closed or without runtime, and the timeout that bounds the   *)
(* whole operation.                                                        *)
Fail(o) ==
  /\ stage[o] \in Roundtrip
  /\ Returns(o, "status")

(* The task completes its prompt with what the roundtrip returned.         *)
Outcome(o) ==
  Completion(result[o], IF result[o] = "reply" THEN collected[o] ELSE 0)

Complete(o) ==
  /\ Moves(o, "finished", "done")
  /\ CompletePrompt(o, Outcome(o)) \/ CompleteAfterClose(o)
  /\ UNCHANGED <<restored, lockHolder, collected, inFlight, result>>

-----------------------------------------------------------------------------
(* The other requests on the session.                                      *)

UserCancels == CancelActiveTurn /\ UNCHANGED taskVars

UserDecides(r, decision) ==
  ResolvePermission(r, decision) /\ UNCHANGED taskVars

UserCloses == Close /\ UNCHANGED taskVars

(* delete_session, or the deletion of the owner's account.                 *)
UserDeletes == PrepareDelete /\ UNCHANGED taskVars

(* A request that restored the session cannot relaunch its agent: prompts  *)
(* may have come in since it put the session back into the store.          *)
RuntimeIsLost == restored /\ MarkRuntimeUnavailable /\ UNCHANGED taskVars

(* The priming of a session that is still being created.                   *)
HintArrives == ~restored /\ AppendMessage /\ UNCHANGED taskVars

-----------------------------------------------------------------------------
Init ==
  /\ HandleInit
  /\ restored \in BOOLEAN
  /\ restored => nextPromptOrder \in RestoredPrompts
  /\ ~restored => status = "active" /\ nextPromptOrder = 0
  /\ stage = [o \in Orders |-> "idle"]
  /\ lockHolder = NoOrder
  /\ collected = [o \in Orders |-> 0]
  /\ inFlight = [o \in Orders |-> FALSE]
  /\ result = [o \in Orders |-> "absent"]

TaskStep(o) ==
  \/ Dispatch(o)
  \/ ClientDisconnects(o)
  \/ AcquireLock(o)
  \/ BeginTurn(o)
  \/ SendPrompt(o)
  \/ CancelledBeforePrompt(o)
  \/ CollectChunk(o)
  \/ ForwardChunk(o)
  \/ AskPermission(o)
  \/ \E s \in {"answered", "stopped"} : AgentResponds(o, s)
  \/ NoticeCancel(o)
  \/ ReturnReply(o)
  \/ ReturnCancelled(o)
  \/ Fail(o)
  \/ Complete(o)

Next ==
  \/ Submit
  \/ \E o \in Orders : TaskStep(o)
  \/ UserCancels
  \/ \E r \in PermissionIds, d \in {"approved", "denied"} : UserDecides(r, d)
  \/ UserCloses
  \/ UserDeletes
  \/ RuntimeIsLost
  \/ HintArrives

Spec == Init /\ [][Next]_vars

(* The runtime polls every task: a handler that is not dropped goes on, a  *)
(* waiter gets the lock, a roundtrip ends by its timeout at the latest and *)
(* its result is delivered.  Nothing is assumed of the users or the agent. *)
Fairness ==
  \A o \in Orders :
    /\ WF_vars(Dispatch(o) \/ ClientDisconnects(o))
    /\ WF_vars(AcquireLock(o))
    /\ WF_vars(Fail(o))
    /\ WF_vars(Complete(o))

FairSpec == Spec /\ Fairness

-----------------------------------------------------------------------------
(* The tasks' variables have their types, the lock is held by the one      *)
(* roundtrip that is running.                                              *)
TaskTypeOK ==
  /\ restored \in BOOLEAN
  /\ stage \in [Orders -> Stages]
  /\ lockHolder \in Orders \cup {NoOrder}
  /\ collected \in [Orders -> 0 .. MaxChunks]
  /\ inFlight \in [Orders -> BOOLEAN]
  /\ result \in [Orders -> {"absent", "reply", "status", "none"}]
  /\ \A o \in Orders : lockHolder = o <=> stage[o] \in Roundtrip

(* While a roundtrip runs in a session that is active and has its runtime, *)
(* the active turn is its own: the next prompt's turn cannot take over the *)
(* output, the permissions or the cancel channel of a running one.         *)
RunningRoundtripOwnsTheTurn ==
  \A o \in Orders :
    stage[o] \in InTurn /\ status = "active" /\ ~unavailable =>
      activeTurn.order = o /\ cancelWatch[o] # "closed"

(* A prompt is open exactly from its acceptance to its one completion, and *)
(* its turn has not been started before its roundtrip starts it: no task   *)
(* starts a turn twice, completes twice or works for an answered prompt.   *)
EachPromptHasOneTask ==
  \A o \in Orders :
    /\ o \in openPrompts <=> stage[o] \in Stages \ {"idle", "done"}
    /\ stage[o] \in {"idle", "accepted", "lost", "queued", "connecting"}
         => cancelWatch[o] = "none"

(* Every accepted prompt is released, unless the session is closed or a    *)
(* prompt that comes first was dropped before its task was spawned.        *)
EveryPromptIsAnswered ==
  \A o \in Orders :
    o \in openPrompts ~> \/ o < nextCompletionOrder
                         \/ status = "closed"
                         \/ \E p \in 0 .. o : stage[p] = "lost"

(* Every permission request stops waiting, decided or not.                 *)
EveryPermissionIsAnswered ==
  \A r \in PermissionIds : r \in PendingRequests ~> r \notin PendingRequests

=============================================================================
