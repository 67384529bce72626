-------------------------- MODULE SessionLifecycle --------------------------
(* A session from its creation to its deletion: the requests of            *)
(* server/session_service.rs and server/session_api, which change a live   *)
(* session in memory (sessions.rs), its row in the durable store           *)
(* (workspace_store), its checkout on disk, its agent and the reply        *)
(* provider's binding to it, one after the other and without a lock over   *)
(* them all. Every await between two of these is a point where another     *)
(* request may run, where the step may fail, and where the server may      *)
(* restart.                                                                *)
(*                                                                         *)
(* There is one owner and one workspace. A request is a member of Requests *)
(* and serves once. Of a transcript only its length is kept; what happens  *)
(* inside a live session is SessionHandle's matter, what happens inside a  *)
(* launch AgentRuntime's: here an agent is reserved, running or neither.   *)
(* Sessions without a launch configuration, which skip the agent, are left *)
(* out. A refused request that changed nothing is no step.                 *)
EXTENDS Naturals, FiniteSets

CONSTANTS
  Requests,     \* the requests
  Sessions,     \* the session ids create_session draws
  Operations,   \* what requests ask for
  Nobody,       \* no request
  SessionCap,   \* session_cap
  ClosedLimit,  \* closed_session_limit
  MaxLeft,      \* bound: how many sessions an earlier server left
  MaxRestarts   \* bound: how often the server restarts

ASSUME LifecycleAssumption ==
  /\ Operations \subseteq {"create", "get", "close", "delete", "rename", "prompt"}
  /\ Nobody \notin Requests
  /\ {"none", "running"} \cap (Requests \cup Sessions) = {}
  /\ SessionCap \in Nat
  /\ ClosedLimit \in Nat \ {0}
  /\ MaxLeft \in Nat
  /\ MaxRestarts \in Nat

VARIABLES
  \* In memory: lost when the server restarts.
  live,      \* sessions: the live session, its status and transcript
  counting,  \* create_session_lock: the request that holds it
  agent,     \* the slot of the agent runtime: "none", "running", or the
             \* request whose launch is under way
  bound,     \* the reply provider knows the session's directory and address
  forgets,   \* tasks spawned by ReplyProvider::forget_session, yet to run
  \* Durable.
  used,      \* the ids drawn so far
  row,       \* the session's row in the table `sessions`
  dir,       \* its checkout directory exists
  workspace, \* the workspace is not soft-deleted
  \* The requests.
  pc,        \* the next step of each
  op,        \* what it asks for
  on,        \* the session it is about
  stage,     \* the lifecycle status a creation writes next, or whether a
             \* prompt is just submitted or completed
  seen,      \* the row a request read earlier and goes by
  snap,      \* the snapshot of the live session a request goes by
  turn,      \* the handle a prompt's task holds: of the live session, or of
             \* one that was removed closed or discarded active since
  \* History.
  restarts,
  calm       \* no two requests about the session overlapped, nothing failed
             \* to be stored and no restart came between

memoryVars == <<live, counting, agent, bound, forgets>>
durableVars == <<used, row, dir, workspace>>
requestVars == <<pc, op, on, stage, seen, snap, turn>>
historyVars == <<restarts, calm>>
lifecycleVars == <<memoryVars, durableVars, requestVars, historyVars>>

(***************************************************************************)
(* Live sessions and rows                                                  *)
(***************************************************************************)

NotLive == [status |-> "none", broken |-> FALSE, restored |-> FALSE, msgs |-> 0]
NewSession == [NotLive EXCEPT !.status = "active"]

\* SessionHandle::restore, from a durable snapshot.
Restored(s) ==
  [status |-> s.status, broken |-> FALSE, restored |-> TRUE, msgs |-> s.msgs]

IsLive(s) == live[s].status # "none"
Active(s) == live[s].status = "active"
Snapshot(l) == [status |-> l.status, msgs |-> l.msgs]
NoSnapshot == Snapshot(NotLive)

NoRow == [status |-> "none", deleted |-> FALSE, checkout |-> FALSE, msgs |-> 0]

\* What a request keeps of a row that it read.
Read(w) == [deleted |-> w.deleted, checkout |-> w.checkout]
NothingRead == Read(NoRow)

\* LOAD_SESSION_SNAPSHOT_SQL.
Restorable(w) == w.status \in {"active", "closed"} /\ ~w.deleted

\* Mutant: a snapshot that is stored clears deleted_at.
SnapshotRowUndeleted(w, s, status) ==
  [status |-> status, deleted |-> status = "deleted", checkout |-> w.checkout,
   msgs |-> s.msgs]

\* build_session_metadata_record: the status is overwritten, deleted_at stays.
SnapshotRow(w, s, status) ==
  [status |-> status, deleted |-> w.deleted \/ status = "deleted",
   checkout |-> w.checkout, msgs |-> s.msgs]

\* build_session_lifecycle_record, from the row that was read before; the
\* upsert leaves the messages of the row that is there.
LifecycleRow(read, w, status, checkout) ==
  [status |-> status, deleted |-> read.deleted,
   checkout |-> read.checkout \/ checkout, msgs |-> w.msgs]

\* Mutant: the session's agent is left alone.
KeepsItsAgent(s) == agent

\* AgentRuntimeManager::forget_session: a reservation is cancelled, a running
\* agent ended.
WithoutAgent(s) == [agent EXCEPT ![s] = "none"]

(***************************************************************************)
(* Requests                                                                *)
(***************************************************************************)

UnderWay(r) == pc[r] \notin {"idle", "done"}
Others(r, s) == {q \in Requests \ {r} : UnderWay(q) /\ on[q] = s}

\* A request about s begins; the calm is over if another is under way, or a
\* task that an earlier one spawned.
Begin(r, s, what) ==
  /\ op' = [op EXCEPT ![r] = what]
  /\ on' = [on EXCEPT ![r] = s]
  /\ calm' = [calm EXCEPT ![s] = @ /\ Others(r, s) = {} /\ forgets[s] = 0]

GoOn(r, next) == pc' = [pc EXCEPT ![r] = next]

\* The prompts whose session is removed from memory keep its handle.
Orphaned(gone, as) ==
  [r \in Requests |-> IF on[r] \in gone /\ turn[r] = "current" THEN as ELSE turn[r]]

(***************************************************************************)
(* Creating a session                                                      *)
(***************************************************************************)

ActiveSessions == {s \in Sessions : Active(s)}

\* load_workspace_for_session.
Create(r) ==
  /\ pc[r] = "idle"
  /\ "create" \in Operations
  /\ workspace
  /\ GoOn(r, "counting")
  /\ op' = [op EXCEPT ![r] = "create"]
  /\ UNCHANGED <<on, stage, seen, snap, turn, memoryVars, durableVars, historyVars>>

\* Mutant: the lock is not taken.
CountUnlocked(r) ==
  /\ pc[r] = "counting"
  /\ \/ /\ Cardinality(ActiveSessions) < SessionCap
        /\ GoOn(r, "inserting")
     \/ /\ Cardinality(ActiveSessions) >= SessionCap
        /\ GoOn(r, "done")
  /\ counting' = Nobody
  /\ UNCHANGED <<live, agent, bound, forgets, op, on, stage, seen, snap, turn>>
  /\ UNCHANGED <<durableVars, historyVars>>

\* create_session, under create_session_lock: the active sessions are counted
\* one by one.
Count(r) ==
  /\ pc[r] = "counting"
  /\ counting = Nobody
  /\ \/ /\ Cardinality(ActiveSessions) < SessionCap
        /\ counting' = r
        /\ GoOn(r, "inserting")
     \/ /\ Cardinality(ActiveSessions) >= SessionCap
        /\ GoOn(r, "done")
        /\ UNCHANGED counting
  /\ UNCHANGED <<live, agent, bound, forgets, op, on, stage, seen, snap, turn>>
  /\ UNCHANGED <<durableVars, historyVars>>

\* create_session inserts the handle and releases the lock.
Insert(r) ==
  /\ pc[r] = "inserting"
  /\ \E s \in Sessions \ used :
       /\ used' = used \cup {s}
       /\ live' = [live EXCEPT ![s] = NewSession]
       /\ on' = [on EXCEPT ![r] = s]
  /\ counting' = Nobody
  /\ snap' = [snap EXCEPT ![r] = Snapshot(NewSession)]
  /\ stage' = [stage EXCEPT ![r] = "provisioning"]
  /\ GoOn(r, "reading")
  /\ UNCHANGED <<agent, bound, forgets, row, dir, workspace, op, seen, turn, historyVars>>

\* persist_session_lifecycle reads the row in one transaction ...
ReadRow(r) ==
  /\ pc[r] = "reading"
  /\ seen' = [seen EXCEPT ![r] = Read(row[on[r]])]
  /\ GoOn(r, "writing")
  /\ UNCHANGED <<op, on, stage, snap, turn, memoryVars, durableVars, historyVars>>

\* ... and writes it in another; startup goes on with the next stage.
WriteRow(r) ==
  /\ pc[r] = "writing"
  /\ row' = [row EXCEPT ![on[r]] =
               LifecycleRow(seen[r], @, stage[r], dir[on[r]] /\ stage[r] = "starting")]
  /\ GoOn(r, CASE stage[r] = "provisioning" -> "reading"
               [] stage[r] = "cloning" -> "cloning"
               [] stage[r] = "starting" -> "launching"
               [] stage[r] = "failed" -> "rollback")
  /\ stage' = [stage EXCEPT ![r] = IF @ = "provisioning" THEN "cloning" ELSE @]
  /\ UNCHANGED <<used, dir, workspace, op, on, seen, snap, turn, memoryVars, historyVars>>

\* Neither is certain to work. The first failure leads to rollback_session_creation,
\* the next ones record the failure first; failing to record it changes nothing.
RowFails(r) ==
  /\ pc[r] \in {"reading", "writing"}
  /\ GoOn(r, CASE stage[r] = "cloning" -> "reading"
               [] stage[r] = "starting" -> "cleanup"
               [] OTHER -> "rollback")
  /\ stage' = [stage EXCEPT ![r] = IF @ = "cloning" THEN "failed" ELSE @]
  /\ UNCHANGED <<op, on, seen, snap, turn, memoryVars, durableVars, historyVars>>

\* prepare_checkout_sync clones into the session's directory, where whatever
\* was there is removed first.
Checkout(r) ==
  /\ pc[r] = "cloning"
  /\ dir' = [dir EXCEPT ![on[r]] = TRUE]
  /\ stage' = [stage EXCEPT ![r] = "starting"]
  /\ GoOn(r, "reading")
  /\ UNCHANGED <<used, row, workspace, op, on, seen, snap, turn, memoryVars, historyVars>>

\* A failed checkout leaves no directory.
CheckoutFails(r) ==
  /\ pc[r] = "cloning"
  /\ dir' = [dir EXCEPT ![on[r]] = FALSE]
  /\ stage' = [stage EXCEPT ![r] = "failed"]
  /\ GoOn(r, "reading")
  /\ UNCHANGED <<used, row, workspace, op, on, seen, snap, turn, memoryVars, historyVars>>

\* launch_session_blocking reserves the slot; it waits behind another launch.
\* To a restore an agent that is running is as good as its own.
Reserve(r) ==
  /\ pc[r] = "launching"
  /\ \/ /\ agent[on[r]] = "none"
        /\ agent' = [agent EXCEPT ![on[r]] = r]
        /\ GoOn(r, "awaiting agent")
     \/ /\ agent[on[r]] = "running"
        /\ GoOn(r, IF op[r] = "create" THEN "cleanup" ELSE "binding")
        /\ UNCHANGED agent
  /\ UNCHANGED <<live, counting, bound, forgets, op, on, stage, seen, snap, turn>>
  /\ UNCHANGED <<durableVars, historyVars>>

AgentStarts(r) ==
  /\ pc[r] = "awaiting agent"
  /\ agent[on[r]] = r
  /\ agent' = [agent EXCEPT ![on[r]] = "running"]
  /\ GoOn(r, "binding")
  /\ UNCHANGED <<live, counting, bound, forgets, op, on, stage, seen, snap, turn>>
  /\ UNCHANGED <<durableVars, historyVars>>

\* The launch failed, or forget_session cancelled it.
AgentFails(r) ==
  /\ pc[r] = "awaiting agent"
  /\ agent' = IF agent[on[r]] = r THEN WithoutAgent(on[r]) ELSE agent
  /\ GoOn(r, IF op[r] = "create" THEN "cleanup" ELSE "marking")
  /\ UNCHANGED <<live, counting, bound, forgets, op, on, stage, seen, snap, turn>>
  /\ UNCHANGED <<durableVars, historyVars>>

\* bind_session and bind_session_launch_metadata, or the first that fails.
Bind(r) ==
  /\ pc[r] = "binding"
  /\ op[r] = "create"
  /\ \/ /\ bound' = [bound EXCEPT ![on[r]] = TRUE]
        /\ GoOn(r, "priming")
     \/ /\ bound' \in {bound, [bound EXCEPT ![on[r]] = TRUE]}
        /\ GoOn(r, "cleanup")
  /\ UNCHANGED <<live, counting, agent, forgets, op, on, stage, seen, snap, turn>>
  /\ UNCHANGED <<durableVars, historyVars>>

\* prime_session_startup, without a hint to show.
Prime(r) ==
  /\ pc[r] = "priming"
  /\ GoOn(r, "persisting")
  /\ UNCHANGED <<op, on, stage, seen, snap, turn, memoryVars, durableVars, historyVars>>

\* append_assistant_message shows the hint.
PrimeWithHint(r) ==
  /\ pc[r] = "priming"
  /\ Active(on[r])
  /\ live' = [live EXCEPT ![on[r]].msgs = @ + 1]
  /\ snap' = [snap EXCEPT ![r] = Snapshot(live'[on[r]])]
  /\ GoOn(r, "persisting")
  /\ UNCHANGED <<counting, agent, bound, forgets, op, on, stage, seen, turn>>
  /\ UNCHANGED <<durableVars, historyVars>>

\* The agent cannot be reached, or the session took no hint any more.
PrimeFails(r) ==
  /\ pc[r] = "priming"
  /\ GoOn(r, "cleanup")
  /\ UNCHANGED <<op, on, stage, seen, snap, turn, memoryVars, durableVars, historyVars>>

\* cleanup_runtime_and_checkout_best_effort.
CleanUp(r) ==
  /\ pc[r] = "cleanup"
  /\ agent' = WithoutAgent(on[r])
  /\ dir' = [dir EXCEPT ![on[r]] = FALSE]
  /\ stage' = [stage EXCEPT ![r] = "failed"]
  /\ GoOn(r, "reading")
  /\ UNCHANGED <<live, counting, bound, forgets, used, row, workspace>>
  /\ UNCHANGED <<op, on, seen, snap, turn, historyVars>>

\* rollback_failed_session and rollback_restored_session: the handle is
\* discarded without being closed.
RollBack(r) ==
  /\ pc[r] = "rollback"
  /\ forgets' = [forgets EXCEPT ![on[r]] = @ + 1]
  /\ agent' = WithoutAgent(on[r])
  /\ live' = [live EXCEPT ![on[r]] = NotLive]
  /\ turn' = Orphaned({on[r]}, IF Active(on[r]) THEN "discarded" ELSE "removed")
  /\ GoOn(r, "done")
  /\ UNCHANGED <<counting, bound, op, on, stage, seen, snap, durableVars, historyVars>>

(***************************************************************************)
(* Reading a session, which may restore it                                 *)
(***************************************************************************)

\* load_or_restore_session, of a session that is not live.
Get(r, s) ==
  /\ pc[r] = "idle"
  /\ "get" \in Operations
  /\ s \in used
  /\ ~IsLive(s)
  /\ Begin(r, s, "get")
  /\ GoOn(r, "loading")
  /\ UNCHANGED <<stage, seen, snap, turn, restarts, memoryVars, durableVars>>

LoadMetadata(r) ==
  /\ pc[r] = "loading"
  /\ seen' = [seen EXCEPT ![r] = Read(row[on[r]])]
  /\ GoOn(r, "loading snapshot")
  /\ UNCHANGED <<op, on, stage, snap, turn, memoryVars, durableVars, historyVars>>

LoadSnapshot(r) ==
  /\ pc[r] = "loading snapshot"
  /\ LET w == row[on[r]] IN
       \/ /\ Restorable(w)
          /\ snap' = [snap EXCEPT ![r] = [status |-> w.status, msgs |-> w.msgs]]
          /\ GoOn(r, "restoring")
       \/ /\ ~Restorable(w)
          /\ GoOn(r, "done")
          /\ UNCHANGED snap
  /\ UNCHANGED <<op, on, stage, seen, turn, memoryVars, durableVars, historyVars>>

\* restore_session: of two that restore the same session the second finds the
\* entry occupied and goes by the session that is there.
Restore(r) ==
  /\ pc[r] = "restoring"
  /\ live' = IF IsLive(on[r]) THEN live ELSE [live EXCEPT ![on[r]] = Restored(snap[r])]
  /\ snap' = [snap EXCEPT ![r] = Snapshot(live'[on[r]])]
  /\ GoOn(r, "resolving")
  /\ UNCHANGED <<counting, agent, bound, forgets, op, on, stage, seen, turn>>
  /\ UNCHANGED <<durableVars, historyVars>>

\* bind_restored_session_to_checkout goes by the metadata read at first, and
\* launch_restored_agent_runtime by the status restored.
Resolve(r) ==
  /\ pc[r] = "resolving"
  /\ GoOn(r, IF ~seen[r].checkout THEN "marking"
             ELSE IF snap[r].status = "active" THEN "launching" ELSE "binding")
  /\ UNCHANGED <<op, on, stage, seen, snap, turn, memoryVars, durableVars, historyVars>>

\* bind_session and bind_restored_launch_metadata; a failure takes the session
\* down again.
BindRestored(r) ==
  /\ pc[r] = "binding"
  /\ op[r] = "get"
  /\ \/ /\ bound' = [bound EXCEPT ![on[r]] = TRUE]
        /\ GoOn(r, "done")
     \/ /\ bound' \in {bound, [bound EXCEPT ![on[r]] = TRUE]}
        /\ GoOn(r, "rollback")
  /\ UNCHANGED <<live, counting, agent, forgets, op, on, stage, seen, snap, turn>>
  /\ UNCHANGED <<durableVars, historyVars>>

\* mark_restored_runtime_unavailable: the transcript stays readable.
MarkUnavailable(r) ==
  /\ pc[r] = "marking"
  /\ live' = IF snap[r].status = "active" /\ Active(on[r])
             THEN [live EXCEPT ![on[r]].broken = TRUE] ELSE live
  /\ GoOn(r, "done")
  /\ UNCHANGED <<counting, agent, bound, forgets, op, on, stage, seen, snap, turn>>
  /\ UNCHANGED <<durableVars, historyVars>>

(***************************************************************************)
(* Closing, deleting, renaming                                             *)
(***************************************************************************)

\* close_live_session and delete_live_session look up the checkout first:
\* load_checkout_cleanup_path_best_effort.
Look(r, s, what) ==
  /\ pc[r] = "idle"
  /\ what \in Operations
  /\ s \in used
  /\ Begin(r, s, what)
  /\ seen' = [seen EXCEPT ![r] = Read(row[s])]
  /\ GoOn(r, "ending")
  /\ UNCHANGED <<stage, snap, turn, restarts, memoryVars, durableVars>>

\* It fails, and the session is ended without.
LookFails(r) ==
  /\ pc[r] = "ending"
  /\ seen[r].checkout
  /\ seen' = [seen EXCEPT ![r] = NothingRead]
  /\ calm' = [calm EXCEPT ![on[r]] = FALSE]
  /\ UNCHANGED <<pc, op, on, stage, snap, turn, memoryVars, durableVars, restarts>>

\* The session to end is not live, or to close is closed.
Refuse(r) ==
  /\ pc[r] = "ending"
  /\ ~IsLive(on[r]) \/ (op[r] = "close" /\ ~Active(on[r]))
  /\ GoOn(r, "done")
  /\ UNCHANGED <<op, on, stage, seen, snap, turn, memoryVars, durableVars, historyVars>>

\* The closed sessions prune_closed_sessions may keep when s was closed last.
Kept(s, closed) ==
  {kept \in SUBSET closed :
     /\ s \in kept
     /\ Cardinality(kept) = IF Cardinality(closed) <= ClosedLimit
                            THEN Cardinality(closed) ELSE ClosedLimit}

\* SessionStore::close_session, with its pruning.
CloseLive(r) ==
  /\ pc[r] = "ending"
  /\ op[r] = "close"
  /\ Active(on[r])
  /\ snap' = [snap EXCEPT ![r] = [status |-> "closed", msgs |-> live[on[r]].msgs]]
  /\ LET closed == {s \in Sessions : live[s].status = "closed"} \cup {on[r]} IN
       \E kept \in Kept(on[r], closed) :
         /\ live' = [s \in Sessions |-> IF s \in closed \ kept THEN NotLive
                                        ELSE IF s = on[r] THEN [live[s] EXCEPT !.status = "closed"]
                                        ELSE live[s]]
         /\ turn' = Orphaned(closed \ kept, "removed")
  /\ GoOn(r, "forgetting")
  /\ UNCHANGED <<counting, agent, bound, forgets, op, on, stage, seen, durableVars, historyVars>>

\* delete_live_session takes a snapshot ...
DeleteSnapshot(r) ==
  /\ pc[r] = "ending"
  /\ op[r] = "delete"
  /\ IsLive(on[r])
  /\ snap' = [snap EXCEPT ![r] = Snapshot(live[on[r]])]
  /\ GoOn(r, "deleting")
  /\ UNCHANGED <<op, on, stage, seen, turn, memoryVars, durableVars, historyVars>>

\* ... before SessionStore::delete_session removes the handle, unless another
\* request did.
DeleteLive(r) ==
  /\ pc[r] = "deleting"
  /\ GoOn(r, IF IsLive(on[r]) THEN "forgetting" ELSE "done")
  /\ live' = [live EXCEPT ![on[r]] = NotLive]
  /\ turn' = Orphaned({on[r]}, "removed")
  /\ UNCHANGED <<counting, agent, bound, forgets, op, on, stage, seen, snap>>
  /\ UNCHANGED <<durableVars, historyVars>>

\* ReplyProvider::forget_session spawns a task, AgentRuntimeManager's acts.
Forget(r) ==
  /\ pc[r] = "forgetting"
  /\ forgets' = [forgets EXCEPT ![on[r]] = @ + 1]
  /\ agent' = WithoutAgent(on[r])
  /\ GoOn(r, "persisting")
  /\ UNCHANGED <<live, counting, bound, op, on, stage, seen, snap, turn>>
  /\ UNCHANGED <<durableVars, historyVars>>

\* cleanup_checkout_path_best_effort.
RemoveCheckout(r) ==
  /\ pc[r] = "removing"
  /\ dir' = [dir EXCEPT ![on[r]] = @ /\ ~seen[r].checkout]
  /\ GoOn(r, "done")
  /\ UNCHANGED <<used, row, workspace, op, on, stage, seen, snap, turn>>
  /\ UNCHANGED <<memoryVars, historyVars>>

\* rename_session_title; of the session it only reads what is kept here.
Rename(r, s) ==
  /\ pc[r] = "idle"
  /\ "rename" \in Operations
  /\ IsLive(s)
  /\ Begin(r, s, "rename")
  /\ snap' = [snap EXCEPT ![r] = Snapshot(live[s])]
  /\ GoOn(r, "persisting")
  /\ UNCHANGED <<stage, seen, turn, restarts, memoryVars, durableVars>>

(***************************************************************************)
(* Prompts                                                                 *)
(***************************************************************************)

\* SessionStore::submit_prompt, from here on the prompt has a TurnHandle.
Submit(r, s) ==
  /\ pc[r] = "idle"
  /\ "prompt" \in Operations
  /\ Active(s)
  /\ ~live[s].broken
  /\ Begin(r, s, "prompt")
  /\ live' = [live EXCEPT ![s].msgs = @ + 1]
  /\ turn' = [turn EXCEPT ![r] = "current"]
  /\ stage' = [stage EXCEPT ![r] = "submitted"]
  /\ GoOn(r, "snapshotting")
  /\ UNCHANGED <<seen, snap, restarts, counting, agent, bound, forgets, durableVars>>

\* What a prompt does once its snapshot is stored or failed to be.
AfterPersisting(r) ==
  CASE op[r] \in {"close", "delete"} -> "removing"
    [] op[r] = "prompt" /\ stage[r] = "submitted" -> "working"
    [] OTHER -> "done"

SnapshotPrompt(r) ==
  /\ pc[r] = "snapshotting"
  /\ snap' = [snap EXCEPT ![r] = Snapshot(live[on[r]])]
  /\ GoOn(r, IF IsLive(on[r]) THEN "persisting" ELSE AfterPersisting(r))
  /\ UNCHANGED <<op, on, stage, seen, turn, memoryVars, durableVars, historyVars>>

\* The task of dispatch_assistant_request: request_reply returns, and forgets
\* a session that its turn finds closed; the turn is completed.
Complete(r) ==
  /\ pc[r] = "working"
  /\ LET s == on[r]
         closed == turn[r] = "removed" \/ (turn[r] = "current" /\ ~Active(s)) IN
       /\ bound' = IF closed THEN [bound EXCEPT ![s] = FALSE] ELSE bound
       /\ \E told \in 0..1 :
            live' = IF turn[r] = "current" /\ Active(s)
                    THEN [live EXCEPT ![s].msgs = @ + told] ELSE live
  /\ stage' = [stage EXCEPT ![r] = "completed"]
  /\ GoOn(r, "snapshotting")
  /\ UNCHANGED <<counting, agent, forgets, op, on, seen, snap, turn, durableVars, historyVars>>

(***************************************************************************)
(* The durable store                                                       *)
(***************************************************************************)

StatusToWrite(r) ==
  CASE op[r] = "close" -> "closed"
    [] op[r] = "delete" -> "deleted"
    [] OTHER -> snap[r].status

\* persist_session_snapshot, one transaction.
Persist(r) ==
  /\ pc[r] = "persisting"
  /\ workspace
  /\ row' = [row EXCEPT ![on[r]] = SnapshotRow(@, snap[r], StatusToWrite(r))]
  /\ GoOn(r, AfterPersisting(r))
  /\ UNCHANGED <<used, dir, workspace, op, on, stage, seen, snap, turn, memoryVars, historyVars>>

\* It fails; only a creation minds.
PersistFails(r) ==
  /\ pc[r] = "persisting"
  /\ GoOn(r, IF op[r] = "create" THEN "cleanup" ELSE AfterPersisting(r))
  /\ calm' = [calm EXCEPT ![on[r]] = @ /\ op[r] = "create"]
  /\ UNCHANGED <<op, on, stage, seen, snap, turn, memoryVars, durableVars, restarts>>

\* Mutant: closed sessions do not block.
DeleteWorkspaceWithClosed ==
  /\ workspace
  /\ \A s \in Sessions : row[s].status \in {"none", "closed"} \/ row[s].deleted
  /\ workspace' = FALSE
  /\ UNCHANGED <<used, row, dir, memoryVars, requestVars, historyVars>>

\* delete_workspace: ensure_workspace_can_be_deleted in the same transaction.
DeleteWorkspace ==
  /\ workspace
  /\ \A s \in Sessions : row[s].status = "none" \/ row[s].deleted
  /\ workspace' = FALSE
  /\ UNCHANGED <<used, row, dir, memoryVars, requestVars, historyVars>>

(***************************************************************************)
(* Tasks and restarts                                                      *)
(***************************************************************************)

\* The task of MockClient::forget_session.
ForgetBinding(s) ==
  /\ forgets[s] > 0
  /\ forgets' = [forgets EXCEPT ![s] = @ - 1]
  /\ bound' = [bound EXCEPT ![s] = FALSE]
  /\ UNCHANGED <<live, counting, agent, durableVars, requestVars, historyVars>>

Quiet(s) == forgets[s] = 0 /\ \A r \in Requests : UnderWay(r) => on[r] # s

\* The server stops at any point, with its agents, and is started again.
Restart ==
  /\ restarts < MaxRestarts
  /\ restarts' = restarts + 1
  /\ calm' = [s \in Sessions |-> calm[s] /\ Quiet(s)]
  /\ live' = [s \in Sessions |-> NotLive]
  /\ counting' = Nobody
  /\ agent' = [s \in Sessions |-> "none"]
  /\ bound' = [s \in Sessions |-> FALSE]
  /\ forgets' = [s \in Sessions |-> 0]
  /\ pc' = [r \in Requests |-> IF UnderWay(r) THEN "done" ELSE pc[r]]
  /\ UNCHANGED <<durableVars, op, on, stage, seen, snap, turn>>

(***************************************************************************)
(* The specification                                                       *)
(***************************************************************************)

\* The rows and checkouts an earlier server may have left, of sessions that
\* were active or closed when it stopped.
Left(status) == [status |-> status, deleted |-> FALSE, checkout |-> TRUE, msgs |-> 1]

LifecycleInit ==
  /\ live = [s \in Sessions |-> NotLive]
  /\ counting = Nobody
  /\ agent = [s \in Sessions |-> "none"]
  /\ bound = [s \in Sessions |-> FALSE]
  /\ forgets = [s \in Sessions |-> 0]
  /\ row \in [Sessions -> {NoRow, Left("active"), Left("closed")}]
  /\ used = {s \in Sessions : row[s] # NoRow}
  /\ Cardinality(used) <= MaxLeft
  /\ dir = [s \in Sessions |-> row[s].status = "active"]
  /\ workspace = TRUE
  /\ pc = [r \in Requests |-> "idle"]
  /\ op = [r \in Requests |-> "none"]
  /\ on = [r \in Requests |-> "none"]
  /\ stage = [r \in Requests |-> "none"]
  /\ seen = [r \in Requests |-> NothingRead]
  /\ snap = [r \in Requests |-> NoSnapshot]
  /\ turn = [r \in Requests |-> "none"]
  /\ restarts = 0
  /\ calm = [s \in Sessions |-> TRUE]

RequestStep(r) ==
  \/ Create(r) \/ Count(r) \/ Insert(r) \/ ReadRow(r) \/ WriteRow(r) \/ RowFails(r)
  \/ Checkout(r) \/ CheckoutFails(r) \/ Reserve(r) \/ AgentStarts(r) \/ AgentFails(r) \/ Bind(r)
  \/ Prime(r) \/ PrimeWithHint(r) \/ PrimeFails(r) \/ CleanUp(r) \/ RollBack(r)
  \/ LoadMetadata(r) \/ LoadSnapshot(r) \/ Restore(r) \/ Resolve(r) \/ BindRestored(r)
  \/ MarkUnavailable(r)
  \/ LookFails(r) \/ Refuse(r) \/ CloseLive(r) \/ DeleteSnapshot(r) \/ DeleteLive(r) \/ Forget(r)
  \/ RemoveCheckout(r) \/ SnapshotPrompt(r) \/ Complete(r) \/ Persist(r) \/ PersistFails(r)
  \/ \E s \in Sessions : \/ Get(r, s) \/ Look(r, s, "close") \/ Look(r, s, "delete")
                         \/ Rename(r, s) \/ Submit(r, s)

LifecycleNext ==
  \/ \E r \in Requests : RequestStep(r)
  \/ \E s \in Sessions : ForgetBinding(s)
  \/ DeleteWorkspace
  \/ Restart

LifecycleSpec == LifecycleInit /\ [][LifecycleNext]_lifecycleVars

(***************************************************************************)
(* Properties                                                              *)
(***************************************************************************)

Statuses == {"none", "provisioning", "cloning", "starting", "failed", "active", "closed", "deleted"}
Rows == [status : Statuses, deleted : BOOLEAN, checkout : BOOLEAN, msgs : Nat]
Steps == {"idle", "counting", "inserting", "reading", "writing", "cloning", "launching",
          "awaiting agent", "binding", "priming", "persisting", "cleanup", "rollback",
          "loading", "loading snapshot", "restoring", "resolving", "marking", "ending",
          "deleting", "forgetting", "removing", "snapshotting", "working", "done"}

\* Every variable keeps its type; an agent is reserved only by a request that
\* awaits it, about that session.
LifecycleTypeOK ==
  /\ live \in [Sessions -> [status : {"none", "active", "closed"}, broken : BOOLEAN,
                            restored : BOOLEAN, msgs : Nat]]
  /\ counting \in Requests \cup {Nobody}
  /\ agent \in [Sessions -> Requests \cup {"none", "running"}]
  /\ bound \in [Sessions -> BOOLEAN]
  /\ forgets \in [Sessions -> Nat]
  /\ used \in SUBSET Sessions
  /\ row \in [Sessions -> Rows]
  /\ dir \in [Sessions -> BOOLEAN]
  /\ workspace \in BOOLEAN
  /\ pc \in [Requests -> Steps]
  /\ op \in [Requests -> Operations \cup {"none"}]
  /\ on \in [Requests -> Sessions \cup {"none"}]
  /\ stage \in [Requests -> Statuses \cup {"submitted", "completed"}]
  /\ seen \in [Requests -> [deleted : BOOLEAN, checkout : BOOLEAN]]
  /\ snap \in [Requests -> [status : {"none", "active", "closed"}, msgs : Nat]]
  /\ turn \in [Requests -> {"none", "current", "removed", "discarded"}]
  /\ restarts \in 0..MaxRestarts
  /\ calm \in [Sessions -> BOOLEAN]

\* session_cap bounds the sessions that were created, whoever creates at the
\* same time (restored ones come on top: restoring does not count).
CreatedSessionsWithinCap ==
  Cardinality({s \in Sessions : Active(s) /\ ~live[s].restored}) <= SessionCap

\* A session that is deleted, is not live and is not being created or restored
\* by a request that began earlier never comes back, in memory or in the store.
CreatesOrRestores(r) == pc[r] \in {"reading", "writing", "restoring"}
GoneForGood ==
  [][\A s \in Sessions :
       /\ row[s].deleted
       /\ ~IsLive(s)
       /\ \A r \in Requests : on[r] = s => ~CreatesOrRestores(r)
       => ~IsLive(s)' /\ row'[s].deleted]_lifecycleVars

\* When nothing is under way about a session, and nothing overlapped or failed
\* to be stored before, its five places agree.
RestingSessionsAreConsistent ==
  \A s \in Sessions : calm[s] /\ Quiet(s)
    => /\ agent[s] = "running" <=> Active(s) /\ ~live[s].broken
       /\ Active(s) /\ ~live[s].broken => bound[s] /\ dir[s]
       /\ IsLive(s) => /\ Restorable(row[s])
                       /\ Snapshot(live[s]) = [status |-> row[s].status, msgs |-> row[s].msgs]
       /\ dir[s] => row[s].status = "active" /\ row[s].checkout

\* A workspace is soft-deleted only with all its sessions: at rest none of them
\* is live, has a checkout or can be restored.
DeletedWorkspaceIsEmpty ==
  ~workspace => \A s \in Sessions : calm[s] /\ Quiet(s)
                  => ~IsLive(s) /\ ~dir[s] /\ ~Restorable(row[s])

=============================================================================
