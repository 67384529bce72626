----------------------------- MODULE AgentRuntime -----------------------------
(* The manager of agent processes, FsAgentRuntimeManager in                *)
(* agent_runtime.rs. A registry behind one mutex gives every session a     *)
(* slot: empty, reserved by the launch that is under way, or holding the   *)
(* running agent. A launch reserves, prepares, spawns on a thread of its   *)
(* own, watches the agent start and stores it, each in its own critical    *)
(* section; the session may be forgotten at any point in between, and      *)
(* launches of a session that is reserved wait on a condition variable.    *)
(*                                                                         *)
(* A call of launch_session is a member of Callers. It stands for its      *)
(* launch id too, which next_launch_id gives out once in 2^64 launches,    *)
(* for the thread it spawns on and for the agent it starts.                *)
(*                                                                         *)
(* Left out: the poisoned mutex (no holder of it panics), launches without *)
(* a configuration, which change nothing, and the runtime directory: what  *)
(* it decides, that preparing or spawning fails, is free here. The control *)
(* groups are those of Linux; elsewhere nothing is killed through a path.  *)
EXTENDS FiniteSets

CONSTANTS
  Callers,   \* the calls of launch_session
  Sessions,  \* the sessions they are for
  Modes,     \* how agents run: "chroot", "host", or "stdio", a host agent
             \* that the reply provider starts itself
  Nobody     \* no caller

ASSUME RuntimeAssumption ==
  /\ Modes \subseteq {"chroot", "host", "stdio"}
  /\ Nobody \notin Callers

VARIABLES
  request,  \* the session and the mode each call is for
  slots,    \* registry.slots: the state of a session's slot, and whose it is
  pc,       \* where each call stands in launch_session
  spawner,  \* the thread of spawn_with_timeout, which offers its result on a
            \* channel without buffer
  agent,    \* the process a call started
  doomed,   \* agents that forget_session took out and still has to terminate
  dropped   \* the manager was dropped, when the server shut down

runtimeVars == <<request, slots, pc, spawner, agent, doomed, dropped>>

Empty == [state |-> "empty", by |-> Nobody]
Launching(c) == [state |-> "launching", by |-> c]
Running(c) == [state |-> "running", by |-> c]

SessionOf(c) == request[c].session
InCgroup(c) == request[c].mode = "chroot"

\* The slot that c reserved is still its own.
HoldsReservation(c) == slots[SessionOf(c)] = Launching(c)
Registered(c) == slots[SessionOf(c)] = Running(c)

\* Where a call has reserved and has yet to store or to clear.
UnderWay == {"preparing", "spawning", "readying", "storing", "clearing"}

\* Mutant: nobody is notified.
NotNotified(stage) == stage

\* notify_all: there is one condition variable for all sessions, so every
\* waiter looks at its slot again.
Notified(stage) ==
  [c \in Callers |-> IF stage[c] = "waiting" THEN "reserving" ELSE stage[c]]

(***************************************************************************)
(* Killing                                                                 *)
(***************************************************************************)

\* What cgroup.kill reaches: the group is named by the session alone, so it
\* holds every agent of the session that runs in a group.
CgroupOf(c) ==
  {d \in Callers : InCgroup(c) /\ InCgroup(d) /\ SessionOf(d) = SessionOf(c)}

Killed(victims) ==
  [d \in Callers |->
     IF d \in victims /\ agent[d] = "alive" THEN "killed" ELSE agent[d]]

\* terminate_agent_child: the control group, then the process group.
Terminated(c) == Killed(CgroupOf(c) \cup {c})

(***************************************************************************)
(* A launch                                                                *)
(***************************************************************************)

Launch(c) ==
  /\ pc[c] = "idle"
  /\ ~dropped
  /\ pc' = [pc EXCEPT ![c] = "reserving"]
  /\ UNCHANGED <<request, slots, spawner, agent, doomed, dropped>>

\* reserve_launch: take an empty slot, wait behind another launch, or answer
\* with the agent that is running.
Reserve(c) ==
  /\ pc[c] = "reserving"
  /\ \/ /\ slots[SessionOf(c)] = Empty
        /\ slots' = [slots EXCEPT ![SessionOf(c)] = Launching(c)]
        /\ pc' = [pc EXCEPT ![c] = "preparing"]
     \/ /\ slots[SessionOf(c)].state = "launching"
        /\ pc' = [pc EXCEPT ![c] = "waiting"]
        /\ UNCHANGED slots
     \/ /\ slots[SessionOf(c)].state = "running"
        /\ pc' = [pc EXCEPT ![c] = "returned"]
        /\ UNCHANGED slots
  /\ UNCHANGED <<request, spawner, agent, doomed, dropped>>

\* A condition variable may wake a waiter for no reason.
WakeSpuriously(c) ==
  /\ pc[c] = "waiting"
  /\ pc' = [pc EXCEPT ![c] = "reserving"]
  /\ UNCHANGED <<request, slots, spawner, agent, doomed, dropped>>

\* prepare_chroot_launch ends whatever is left in the session's control group;
\* prepare_host_launch touches no process. The spawning thread is started.
Prepare(c) ==
  /\ pc[c] = "preparing"
  /\ request[c].mode # "stdio"
  /\ agent' = Killed(CgroupOf(c))
  /\ pc' = [pc EXCEPT ![c] = "spawning"]
  /\ spawner' = [spawner EXCEPT ![c] = "spawning"]
  /\ UNCHANGED <<request, slots, doomed, dropped>>

\* Preparing fails, before or after it emptied the control group.
PrepareFails(c) ==
  /\ pc[c] = "preparing"
  /\ agent' \in {agent, Killed(CgroupOf(c))}
  /\ pc' = [pc EXCEPT ![c] = "clearing"]
  /\ UNCHANGED <<request, slots, spawner, doomed, dropped>>

\* launch_host, for a command without an endpoint: no process is started.
PrepareStdio(c) ==
  /\ pc[c] = "preparing"
  /\ request[c].mode = "stdio"
  /\ pc' = [pc EXCEPT ![c] = "clearing"]
  /\ UNCHANGED <<request, slots, spawner, agent, doomed, dropped>>

\* The thread spawns the agent, or fails to, and then blocks until its result
\* is taken or the channel is gone. An offer without an agent is an error.
Spawn(c) ==
  /\ spawner[c] = "spawning"
  /\ spawner' = [spawner EXCEPT ![c] = "offering"]
  /\ agent' \in {agent, [agent EXCEPT ![c] = "alive"]}
  /\ UNCHANGED <<request, slots, pc, doomed, dropped>>

\* recv_timeout delivers the result.
Receive(c) ==
  /\ pc[c] = "spawning"
  /\ spawner[c] = "offering"
  /\ spawner' = [spawner EXCEPT ![c] = "gone"]
  /\ pc' = [pc EXCEPT ![c] = IF agent[c] = "none" THEN "clearing" ELSE "readying"]
  /\ UNCHANGED <<request, slots, agent, doomed, dropped>>

\* recv_timeout gives up: launch_timed_out kills the control group and drops
\* the channel, and the thread is left to itself.
SpawnTimesOut(c) ==
  /\ pc[c] = "spawning"
  /\ agent' = Killed(CgroupOf(c))
  /\ pc' = [pc EXCEPT ![c] = "clearing"]
  /\ UNCHANGED <<request, slots, spawner, doomed, dropped>>

\* cleanup_unsent_spawn_result: nobody takes the offer any more.
SpawnerCleansUp(c) ==
  /\ spawner[c] = "offering"
  /\ pc[c] # "spawning"
  /\ spawner' = [spawner EXCEPT ![c] = "gone"]
  /\ agent' = IF agent[c] = "none" THEN agent ELSE Terminated(c)
  /\ UNCHANGED <<request, slots, pc, doomed, dropped>>

\* wait_for_acp_readiness: the agent did not exit during the grace period. A
\* chroot command without an endpoint is not watched at all.
AgentReady(c) ==
  /\ pc[c] = "readying"
  /\ agent[c] = "alive" \/ InCgroup(c)
  /\ pc' = [pc EXCEPT ![c] = "storing"]
  /\ UNCHANGED <<request, slots, spawner, agent, doomed, dropped>>

\* It exited, or its status cannot be read.
AgentNotReady(c) ==
  /\ pc[c] = "readying"
  /\ agent' = Terminated(c)
  /\ pc' = [pc EXCEPT ![c] = "clearing"]
  /\ UNCHANGED <<request, slots, spawner, doomed, dropped>>

\* Mutant: the agent of a cancelled launch is dropped, not terminated.
StoreOrDrop(c) ==
  /\ pc[c] = "storing"
  /\ slots' = IF HoldsReservation(c)
              THEN [slots EXCEPT ![SessionOf(c)] = Running(c)] ELSE slots
  /\ pc' = Notified([pc EXCEPT ![c] = "returned"])
  /\ UNCHANGED <<request, spawner, agent, doomed, dropped>>

\* store_launched_child: the reservation becomes the agent's slot; without it,
\* removed by forget_session and perhaps taken by another call since, the
\* launch was cancelled.
Store(c) ==
  /\ pc[c] = "storing"
  /\ \/ /\ HoldsReservation(c)
        /\ slots' = [slots EXCEPT ![SessionOf(c)] = Running(c)]
        /\ pc' = Notified([pc EXCEPT ![c] = "returned"])
        /\ UNCHANGED agent
     \/ /\ ~HoldsReservation(c)
        /\ agent' = Terminated(c)
        /\ pc' = [pc EXCEPT ![c] = "returned"]
        /\ UNCHANGED slots
  /\ UNCHANGED <<request, spawner, doomed, dropped>>

\* clear_launch_reservation, after a failure and for a stdio agent.
Clear(c) ==
  /\ pc[c] = "clearing"
  /\ \/ /\ HoldsReservation(c)
        /\ slots' = [slots EXCEPT ![SessionOf(c)] = Empty]
        /\ pc' = Notified([pc EXCEPT ![c] = "returned"])
     \/ /\ ~HoldsReservation(c)
        /\ pc' = [pc EXCEPT ![c] = "returned"]
        /\ UNCHANGED slots
  /\ UNCHANGED <<request, spawner, agent, doomed, dropped>>

(***************************************************************************)
(* Forgetting, shutting down, and what agents do by themselves             *)
(***************************************************************************)

\* forget_session, under the mutex: a reservation is cancelled, a running
\* agent is taken out.
Forget(s) ==
  /\ ~dropped
  /\ slots[s] # Empty
  /\ slots' = [slots EXCEPT ![s] = Empty]
  /\ pc' = Notified(pc)
  /\ doomed' = doomed \cup {c \in Callers : slots[s] = Running(c)}
  /\ UNCHANGED <<request, spawner, agent, dropped>>

\* forget_session, after the mutex was released.
TerminateForgotten(c) ==
  /\ c \in doomed
  /\ doomed' = doomed \ {c}
  /\ agent' = Terminated(c)
  /\ UNCHANGED <<request, slots, pc, spawner, dropped>>

\* drop: the last reference is gone, so no call is under way any more. The
\* spawning threads hold no reference.
DropManager ==
  /\ ~dropped
  /\ \A c \in Callers : pc[c] \in {"idle", "returned"}
  /\ doomed = {}
  /\ dropped' = TRUE
  /\ slots' = [s \in Sessions |-> Empty]
  /\ agent' = Killed(UNION {CgroupOf(c) \cup {c} : c \in {d \in Callers : Registered(d)}})
  /\ UNCHANGED <<request, pc, spawner, doomed>>

AgentExits(c) ==
  /\ agent[c] = "alive"
  /\ agent' = [agent EXCEPT ![c] = "exited"]
  /\ UNCHANGED <<request, slots, pc, spawner, doomed, dropped>>

(***************************************************************************)
(* Specification                                                           *)
(***************************************************************************)

RuntimeInit ==
  /\ request \in [Callers -> [session : Sessions, mode : Modes]]
  /\ slots = [s \in Sessions |-> Empty]
  /\ pc = [c \in Callers |-> "idle"]
  /\ spawner = [c \in Callers |-> "none"]
  /\ agent = [c \in Callers |-> "none"]
  /\ doomed = {}
  /\ dropped = FALSE

\* A step of the backend's own threads, which they take in the end.
LaunchStep(c) ==
  \/ Reserve(c) \/ Prepare(c) \/ PrepareFails(c) \/ PrepareStdio(c)
  \/ Receive(c) \/ SpawnTimesOut(c)
  \/ AgentReady(c) \/ AgentNotReady(c) \/ Store(c) \/ Clear(c)

RuntimeNext ==
  \/ \E c \in Callers :
       \/ Launch(c) \/ LaunchStep(c) \/ WakeSpuriously(c)
       \/ Spawn(c) \/ SpawnerCleansUp(c)
       \/ TerminateForgotten(c) \/ AgentExits(c)
  \/ \E s \in Sessions : Forget(s)
  \/ DropManager

RuntimeSpec == RuntimeInit /\ [][RuntimeNext]_runtimeVars

\* A launch runs on a blocking thread and every wait in it has a deadline. A
\* thread whose offer is refused goes on, and so does forget_session. Nothing
\* is assumed of a spawn, which may hang, or of the agents.
RuntimeFairness ==
  \A c \in Callers :
    /\ WF_runtimeVars(LaunchStep(c))
    /\ WF_runtimeVars(SpawnerCleansUp(c))
    /\ WF_runtimeVars(TerminateForgotten(c))

FairRuntimeSpec == RuntimeSpec /\ RuntimeFairness

(***************************************************************************)
(* Properties                                                              *)
(***************************************************************************)

\* Every variable keeps its type; a slot names the call that reserved it or
\* whose agent it holds, and that call is for the slot's session.
RuntimeTypeOK ==
  /\ request \in [Callers -> [session : Sessions, mode : Modes]]
  /\ DOMAIN slots = Sessions
  /\ \A s \in Sessions :
       \/ slots[s] = Empty
       \/ \E c \in Callers :
            /\ SessionOf(c) = s
            /\ slots[s] \in [state : {"launching", "running"}, by : {c}]
  /\ pc \in [Callers -> UnderWay \cup {"idle", "reserving", "waiting", "returned"}]
  /\ spawner \in [Callers -> {"none", "spawning", "offering", "gone"}]
  /\ agent \in [Callers -> {"none", "alive", "exited", "killed"}]
  /\ doomed \subseteq Callers
  /\ dropped \in BOOLEAN

\* No wakeup is lost: a call that waits on launch_notifications waits behind
\* a launch of its session that will notify it.
WaitersHaveALaunch ==
  \A c \in Callers :
    pc[c] = "waiting" => slots[SessionOf(c)].state = "launching"

\* No reservation is left behind: the launch that took it is still under way,
\* so launch_session of a session never blocks for ever.
LaunchingHasAnOwner ==
  \A s \in Sessions, c \in Callers :
    slots[s] = [state |-> "launching", by |-> c] =>
      /\ SessionOf(c) = s
      /\ pc[c] \in UnderWay

\* No agent is orphaned: a live agent is in the registry, or in the hands of
\* the launch, the spawning thread or the call of forget_session that will
\* store or terminate it.
EveryAgentIsHeld ==
  \A c \in Callers :
    agent[c] = "alive" =>
      \/ Registered(c)
      \/ pc[c] \in {"readying", "storing"}
      \/ spawner[c] = "offering"
      \/ c \in doomed

\* It holds of the agents on the host, whatever runs in control groups beside
\* them: the process group that is killed is that of one agent.
HostAgentIsNotKilled ==
  \A c \in Callers : Registered(c) /\ ~InCgroup(c) => agent[c] # "killed"

\* A launch that lost its reservation to forget_session never gets into the
\* registry again, even when the session has been reserved anew
\* (store_launched_child and clear_launch_reservation compare launch ids).
CancelledLaunchStaysCancelled ==
  [][\A c \in Callers :
       pc[c] \in UnderWay /\ slots[SessionOf(c)].by # c
         => slots'[SessionOf(c)].by # c]_runtimeVars

\* Every call of launch_session returns, whatever hangs, exits or is forgotten.
EveryLaunchReturns ==
  \A c \in Callers : pc[c] = "reserving" ~> pc[c] = "returned"

=============================================================================
