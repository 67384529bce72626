--------------------------- MODULE AgentSessions ---------------------------
(***************************************************************************)
(* The sessions of the backend and those of the agent: which agent session *)
(* the reply provider keeps for a session (mock_client.rs), the locks that *)
(* put the calls of one session one after the other, and the bundled agent *)
(* at the other end (acp-mock), which all sessions may share.              *)
(*                                                                         *)
(* A call connects anew, loads the agent session it finds in the map or    *)
(* has one created, and prompts it.  A cancel is a notification on the     *)
(* connection of the call; the agent counts and publishes the cancels of   *)
(* each of its sessions, and a prompt compares with what it found first.   *)
(*                                                                         *)
(* What a turn does with the answer is in PromptTurns.  Left out: what is  *)
(* said, authentication, and agents that end with the session.             *)
(***************************************************************************)
EXTENDS Naturals, FiniteSets

CONSTANTS
  Sessions,     (* the sessions of the backend                             *)
  Calls,        (* the calls: primings and prompts; each serves once       *)
  None,         (* no lock, no agent session                               *)
  MaxForgets,   (* bound: how often a session is forgotten                 *)
  MaxRestarts   (* bound: how often the agent restarts                     *)

ASSUME AgentSessionsAssumption ==
  /\ IsFiniteSet(Calls)
  /\ None \notin Calls \cup Nat
  /\ {MaxForgets, MaxRestarts} \subseteq Nat

(* The agent's sessions are numbered; a call makes one at most.            *)
Numbers == 0..(Cardinality(Calls) - 1)

VARIABLES
  upstream,    (* upstream_sessions: the agent session of each session     *)
  locks,       (* session_locks: a lock is named after the call it was     *)
               (* made for                                                 *)
  forgetting,  (* forget_session has removed the mapping, not yet the lock *)
  call,        (* the calls                                                *)
  next,        (* next_session_id of the agent                             *)
  count,       (* cancel_generation of each agent session                  *)
  published,   (* cancel_tx: the generation its prompts see                *)
  prompt,      (* the agent's task for the prompt of each call             *)
  cancel,      (* the cancel notification of each call                     *)
  forgets, restarts   (* bounds *)

backendVars == <<upstream, locks, forgetting, call, forgets>>
agentVars == <<next, count, published, prompt, cancel, restarts>>
agentSessionsVars == <<backendVars, agentVars>>

-----------------------------------------------------------------------------
NoCall == [stage |-> "idle", session |-> None, lock |-> None, agent |-> None]

(* start is the generation the task found first; old is history: whose     *)
(* cancels had been published by then.                                     *)
NoPrompt == [stage |-> "none", start |-> 0, old |-> {}]
NoCancel == [stage |-> "none", generation |-> 0]

(* The call has the lock of its session.                                   *)
Roundtrip == {"connecting", "loading", "creating", "inserting", "ready",
              "prompting"}
InRoundtrip(c) == call[c].stage \in Roundtrip

GoOn(c, stage) == call' = [call EXCEPT ![c].stage = stage]

-----------------------------------------------------------------------------
(* The backend.                                                            *)

(* session_lock: the lock that is there, or a new one.                     *)
Begin(c, s) ==
  /\ call[c].stage = "idle"
  /\ locks' = [locks EXCEPT ![s] = IF @ = None THEN c ELSE @]
  /\ call' = [call EXCEPT ![c] =
       [NoCall EXCEPT !.stage = "waiting", !.session = s, !.lock = locks'[s]]]
  /\ UNCHANGED <<upstream, forgetting, forgets, agentVars>>

Acquire(c) ==
  /\ call[c].stage = "waiting"
  /\ \A d \in Calls : InRoundtrip(d) => call[d].lock # call[c].lock
  /\ GoOn(c, "connecting")
  /\ UNCHANGED <<upstream, locks, forgetting, forgets, agentVars>>

(* The connection is initialised and the map looked up.                    *)
Connect(c) ==
  /\ call[c].stage = "connecting"
  /\ LET cached == upstream[call[c].session] IN
     call' = [call EXCEPT
       ![c].stage = IF cached = None THEN "creating" ELSE "loading",
       ![c].agent = cached]
  /\ UNCHANGED <<upstream, locks, forgetting, forgets, agentVars>>

(* The agent loads any number it is given.                                 *)
Load(c) ==
  /\ call[c].stage = "loading"
  /\ GoOn(c, "ready")
  /\ UNCHANGED <<upstream, locks, forgetting, forgets, agentVars>>

(* The agent refuses, or the connection fails: the session leaves the map  *)
(* and a new one is asked for, which over a failed connection fails too.   *)
LoadFails(c) ==
  /\ call[c].stage = "loading"
  /\ upstream' = [upstream EXCEPT ![call[c].session] = None]
  /\ call' = [call EXCEPT ![c].stage = "creating", ![c].agent = None]
  /\ UNCHANGED <<locks, forgetting, forgets, agentVars>>

(* Faulty variant: the agent's counter stays.                              *)
CreateWithoutCounting(c) ==
  /\ call[c].stage = "creating"
  /\ call' = [call EXCEPT ![c].stage = "inserting", ![c].agent = next]
  /\ UNCHANGED <<upstream, locks, forgetting, forgets, agentVars>>

(* new_session of the agent; a session that was loaded under the number    *)
(* before keeps its state.                                                 *)
Create(c) ==
  /\ call[c].stage = "creating"
  /\ call' = [call EXCEPT ![c].stage = "inserting", ![c].agent = next]
  /\ next' = next + 1
  /\ UNCHANGED <<upstream, locks, forgetting, forgets, count, published,
                 prompt, cancel, restarts>>

Insert(c) ==
  /\ call[c].stage = "inserting"
  /\ upstream' = [upstream EXCEPT ![call[c].session] = call[c].agent]
  /\ GoOn(c, "ready")
  /\ UNCHANGED <<locks, forgetting, forgets, agentVars>>

SendPrompt(c) ==
  /\ call[c].stage = "ready"
  /\ GoOn(c, "prompting")
  /\ prompt' = [prompt EXCEPT ![c].stage = "asked"]
  /\ UNCHANGED <<upstream, locks, forgetting, forgets, next, count, published,
                 cancel, restarts>>

SendCancel(c) ==
  /\ call[c].stage = "prompting"
  /\ cancel[c].stage = "none"
  /\ cancel' = [cancel EXCEPT ![c].stage = "sent"]
  /\ UNCHANGED <<backendVars, next, count, published, prompt, restarts>>

(* The prompt is answered; or the call is a priming, was cancelled before  *)
(* it prompted, timed out or lost its connection.  The agent drops what is *)
(* left of the connection's tasks.                                         *)
End(c) ==
  /\ InRoundtrip(c)
  /\ GoOn(c, "ended")
  /\ prompt' = [prompt EXCEPT ![c].stage = IF @ \in {"none", "replied", "cancelled"}
                                           THEN @ ELSE "dropped"]
  /\ UNCHANGED <<upstream, locks, forgetting, forgets, next, count, published,
                 cancel, restarts>>

(* forget_session: the session was closed or deleted, or restoring it was  *)
(* rolled back, after which it may be restored again.                      *)
Forget(s) ==
  /\ forgets < MaxForgets
  /\ forgets' = forgets + 1
  /\ upstream' = [upstream EXCEPT ![s] = None]
  /\ forgetting' = forgetting \cup {s}
  /\ UNCHANGED <<locks, call, agentVars>>

ForgetLock(s) ==
  /\ s \in forgetting
  /\ forgetting' = forgetting \ {s}
  /\ locks' = [locks EXCEPT ![s] = None]
  /\ UNCHANGED <<upstream, call, forgets, agentVars>>

-----------------------------------------------------------------------------
(* The agent.                                                              *)

Published(n) == {d \in Calls : call[d].agent = n /\ cancel[d].stage = "published"}

(* Faulty variant: the task reckons from the generation before any cancel. *)
SubscribeFromZero(c) ==
  /\ prompt[c].stage = "asked"
  /\ prompt' = [prompt EXCEPT ![c] =
       [stage |-> "started", start |-> 0, old |-> Published(call[c].agent)]]
  /\ UNCHANGED <<backendVars, next, count, published, cancel, restarts>>

Subscribe(c) ==
  /\ prompt[c].stage = "asked"
  /\ prompt' = [prompt EXCEPT ![c] =
       [stage |-> "started", start |-> published[call[c].agent],
        old |-> Published(call[c].agent)]]
  /\ UNCHANGED <<backendVars, next, count, published, cancel, restarts>>

Answer(c, stage) ==
  /\ prompt' = [prompt EXCEPT ![c].stage = stage]
  /\ UNCHANGED <<backendVars, next, count, published, cancel, restarts>>

Changed(c) == published[call[c].agent] # prompt[c].start

(* A permission is granted or none is needed.  It may also be refused,     *)
(* which ends the turn, or cancelled, which is a cancel by the backend.    *)
Proceed(c) ==
  /\ prompt[c].stage = "started"
  /\ Answer(c, IF Changed(c) THEN "cancelled" ELSE "delayed")

PermissionRefused(c) == prompt[c].stage = "started" /\ Answer(c, "replied")

(* wait_for_cancel: the delay is over, or a cancel was published; when     *)
(* both are, either is taken.                                              *)
Reply(c) == prompt[c].stage = "delayed" /\ Answer(c, "replied")
Cancelled(c) == prompt[c].stage = "delayed" /\ Changed(c) /\ Answer(c, "cancelled")

(* cancel: it is counted and then published; cancels of one session that   *)
(* come over different connections may be published in another order.  The *)
(* call may have ended by then.                                            *)
CountCancel(c) ==
  /\ cancel[c].stage = "sent"
  /\ count' = [count EXCEPT ![call[c].agent] = @ + 1]
  /\ cancel' = [cancel EXCEPT ![c] =
       [stage |-> "counted", generation |-> count'[call[c].agent]]]
  /\ UNCHANGED <<backendVars, next, published, prompt, restarts>>

PublishCancel(c) ==
  /\ cancel[c].stage = "counted"
  /\ published' = [published EXCEPT ![call[c].agent] = cancel[c].generation]
  /\ cancel' = [cancel EXCEPT ![c].stage = "published"]
  /\ UNCHANGED <<backendVars, next, count, prompt, restarts>>

(* Its connection was closed before it was read.                           *)
LoseCancel(c) ==
  /\ cancel[c].stage = "sent"
  /\ call[c].stage = "ended"
  /\ cancel' = [cancel EXCEPT ![c].stage = "lost"]
  /\ UNCHANGED <<backendVars, next, count, published, prompt, restarts>>

(* The agent starts with no sessions; the backend keeps its map.           *)
AgentRestart ==
  /\ restarts < MaxRestarts
  /\ restarts' = restarts + 1
  /\ next' = 0
  /\ count' = [n \in Numbers |-> 0]
  /\ published' = [n \in Numbers |-> 0]
  /\ prompt' = [c \in Calls |->
       IF prompt[c].stage \in {"asked", "started", "delayed"}
       THEN [prompt[c] EXCEPT !.stage = "dropped"] ELSE prompt[c]]
  /\ cancel' = [c \in Calls |->
       IF cancel[c].stage \in {"sent", "counted"}
       THEN [cancel[c] EXCEPT !.stage = "lost"] ELSE cancel[c]]
  /\ call' = [c \in Calls |->
       IF InRoundtrip(c) THEN [call[c] EXCEPT !.stage = "ended"] ELSE call[c]]
  /\ UNCHANGED <<upstream, locks, forgetting, forgets>>

-----------------------------------------------------------------------------
AgentSessionsInit ==
  /\ upstream = [s \in Sessions |-> None]
  /\ locks = [s \in Sessions |-> None]
  /\ forgetting = {}
  /\ call = [c \in Calls |-> NoCall]
  /\ next = 0
  /\ count = [n \in Numbers |-> 0]
  /\ published = [n \in Numbers |-> 0]
  /\ prompt = [c \in Calls |-> NoPrompt]
  /\ cancel = [c \in Calls |-> NoCancel]
  /\ forgets = 0
  /\ restarts = 0

CallStep(c) ==
  \/ Acquire(c) \/ Connect(c) \/ Load(c) \/ LoadFails(c) \/ Create(c)
  \/ Insert(c) \/ SendPrompt(c) \/ SendCancel(c) \/ End(c)

AgentStep(c) ==
  \/ Subscribe(c) \/ Proceed(c) \/ PermissionRefused(c) \/ Reply(c)
  \/ Cancelled(c) \/ CountCancel(c) \/ PublishCancel(c) \/ LoseCancel(c)

AgentSessionsNext ==
  \/ \E c \in Calls :
       \/ \E s \in Sessions : Begin(c, s)
       \/ CallStep(c)
       \/ AgentStep(c)
  \/ \E s \in Sessions : Forget(s) \/ ForgetLock(s)
  \/ AgentRestart

AgentSessionsSpec ==
  AgentSessionsInit /\ [][AgentSessionsNext]_agentSessionsVars

-----------------------------------------------------------------------------
(* While the agent that numbers them lives, no two sessions of the backend *)
(* are on one session of the agent, in the map or in a call under way,     *)
(* whatever is forgotten, fails or is created again meanwhile.             *)
AgentSessionsAreNotShared ==
  restarts = 0 =>
    /\ \A s, t \in Sessions :
         s # t /\ upstream[s] # None => upstream[s] # upstream[t]
    /\ \A c, d \in Calls :
         /\ InRoundtrip(c) /\ InRoundtrip(d)
         /\ call[c].session # call[d].session
         /\ call[c].agent # None
         => call[c].agent # call[d].agent

(* A prompt is answered as cancelled only for a cancel of its own session  *)
(* that had not been published when the prompt was taken up: its own, or   *)
(* that of a turn before it, which was on its way still.                   *)
CancelsStayInTheirSession ==
  restarts = 0 =>
    \A c \in Calls :
      prompt[c].stage = "cancelled" =>
        \E d \in Calls \ prompt[c].old :
          /\ call[d].session = call[c].session
          /\ cancel[d].stage = "published"

=============================================================================
