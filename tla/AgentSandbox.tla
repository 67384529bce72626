---------------------------- MODULE AgentSandbox ----------------------------
(***************************************************************************)
(* How agent_runtime.rs sets an agent's process up, between the            *)
(* reservation of the session's slot and the moment the agent is stored,   *)
(* which are AgentRuntime's.  The backend prepares a directory, a control  *)
(* group and a port; the child it forks confines itself call by call and   *)
(* then becomes the agent's program.  Each step may fail.                  *)
(*                                                                         *)
(* A launch is for a session of its own.  Files, names and values are      *)
(* members of small sets; a port is free to whoever binds it first, other  *)
(* programs of the machine among them.                                     *)
(***************************************************************************)
EXTENDS Naturals, FiniteSets

CONSTANTS
  Launches,  \* the launches
  Endpoints, \* the ports of 127.0.0.1 the kernel chooses from
  Files      \* bound: the files of a checkout

\* The directory of a checkout is below the backend's data directory.
ASSUME SandboxAssumption ==
  /\ Files \in Nat \ {0}
  /\ "/workspace" \notin Launches

NoEndpoint == "none"
Unbound == <<>>
Root == 0        \* the user and the group of the backend
AgentId == 1     \* those of an agent

VARIABLES
  platform,  \* "linux", "macos", or another
  server,    \* the variables of the backend's environment that have a value
  plan,      \* the configuration of each launch
  stage,     \* the next step of each
  owned,     \* the files of its checkout that belong to the agent
  group,     \* its control group exists
  port,      \* the port in its endpoint
  bound,     \* who listens at a port: nobody, a launch's reservation, its
             \* agent, or another program
  child      \* the process

sandboxVars == <<platform, server, plan, stage, owned, group, port, bound, child>>
preparedVars == <<owned, group, port>>
contextVars == <<platform, server, plan>>

\* A forked child is a copy of the backend. Its root and its directory are
\* those of the machine, or the name of the launch they are made for.
Forked ==
  [state |-> "forked", grouped |-> FALSE, leads |-> FALSE, locked |-> FALSE,
   root |-> "machine", cwd |-> "machine", groups |-> "backend", gid |-> Root, uid |-> Root, told |-> <<>>]
NoChild == [Forked EXCEPT !.state = "none"]

\* macOS has no control groups and no no_new_privs (prepare_macos_chroot_child).
HasGroups == platform = "linux"

Chrooted(l) == plan[l].mode = "chroot"
Proceed(l, next) == stage' = [stage EXCEPT ![l] = next]

(***************************************************************************)
(* The configuration                                                       *)
(***************************************************************************)

Configs ==
  [mode : {"chroot", "host"},
   command : {"none", "blank", "plain", "endpoint"},
   allowed : {{}, {"PATH"}, {"ACP_SESSION_ID", "ACP_ENDPOINT"}, {"1PATH"}},
   timeout : {0, 1}, uid : {Root, AgentId}, gid : {Root, AgentId}]

\* AgentLaunchConfig::validate.
Valid(c) ==
  /\ c.command \notin {"none", "blank"}
  /\ c.timeout # 0
  /\ c.mode = "chroot" => c.uid # Root /\ c.gid # Root
  /\ "1PATH" \notin c.allowed

\* contains_acp_placeholder.
WantsEndpoint(c) == c.command = "endpoint"

(***************************************************************************)
(* What the agent is told                                                  *)
(***************************************************************************)

\* checkout_root_for_mode: /workspace, or the directory of the launch's
\* checkout.
CheckoutRoot(l) == IF Chrooted(l) THEN "/workspace" ELSE l

\* Where a path leads a child: /workspace is below its root.
LeadsTo(c, path) == IF path = "/workspace" THEN c.root ELSE path

\* The variables that are the launch's own.
OwnEnv(l) ==
  LET place == [n \in {"ACP_SESSION_ID", "ACP_CHECKOUT_ROOT", "ACP_AGENT_LAUNCH_MODE"} |->
                  CASE n = "ACP_SESSION_ID" -> l
                    [] n = "ACP_CHECKOUT_ROOT" -> CheckoutRoot(l)
                    [] n = "ACP_AGENT_LAUNCH_MODE" -> plan[l].mode]
  IN  IF port[l] = NoEndpoint THEN place
      ELSE [n \in DOMAIN place \cup {"ACP_ENDPOINT"} |->
              IF n = "ACP_ENDPOINT" THEN port[l] ELSE place[n]]

\* The allowed variables of the backend.
Inherited(l) == [n \in plan[l].allowed \cap server |-> "inherited"]

\* Of two values of a name the later one counts.
Override(early, late) ==
  [n \in DOMAIN early \cup DOMAIN late |-> IF n \in DOMAIN late THEN late[n] ELSE early[n]]

\* Mutant: the allowed variables are set last.
AgentEnvOverridden(l) == Override(OwnEnv(l), Inherited(l))

\* agent_env.
AgentEnv(l) == Override(Inherited(l), OwnEnv(l))

\* expand_agent_argv: the arguments name the endpoint if they are to.
Expanded(l) == IF WantsEndpoint(plan[l]) THEN port[l] ELSE NoEndpoint

\* build_agent_command.
Told(l) == [env |-> AgentEnv(l), argv |-> Expanded(l)]

(***************************************************************************)
(* Preparing                                                               *)
(***************************************************************************)

\* launch_session: prepare_chroot_launch begins with the root directory.
Validate(l) ==
  /\ stage[l] = "idle"
  /\ Proceed(l, CASE ~Valid(plan[l]) -> "refused"
             [] Valid(plan[l]) /\ Chrooted(l) -> "owning"
             [] Valid(plan[l]) /\ ~Chrooted(l) -> "binding")
  /\ UNCHANGED <<contextVars, preparedVars, bound, child>>

\* chown_workspace_for_agent goes through the checkout file by file.
Chown(l) ==
  /\ stage[l] = "owning"
  /\ platform \in {"linux", "macos"}
  /\ \/ /\ owned[l] < Files
        /\ owned' = [owned EXCEPT ![l] = @ + 1]
        /\ UNCHANGED stage
     \/ /\ owned[l] = Files
        /\ Proceed(l, "grouping")
        /\ UNCHANGED owned
  /\ UNCHANGED <<contextVars, group, port, bound, child>>

\* prepare_session_cgroup; macOS has none.
PrepareGroup(l) ==
  /\ stage[l] = "grouping"
  /\ group' = [group EXCEPT ![l] = HasGroups]
  /\ Proceed(l, "binding")
  /\ UNCHANGED <<contextVars, owned, port, bound, child>>

\* AcpEndpoint::reserve_for_command: the listener holds the port until the
\* agent has been spawned.
ReservePort(l) ==
  /\ stage[l] = "binding"
  /\ IF WantsEndpoint(plan[l])
     THEN \E e \in Endpoints :
            /\ bound[e] = Unbound
            /\ port' = [port EXCEPT ![l] = e]
            /\ bound' = [bound EXCEPT ![e] = <<"reserved", l>>]
     ELSE UNCHANGED <<port, bound>>
  /\ Proceed(l, IF Chrooted(l) \/ WantsEndpoint(plan[l]) THEN "spawning" ELSE "stdio")
  /\ UNCHANGED <<contextVars, owned, group, child>>

\* agent_stdio_metadata: an agent on the host that wants no endpoint is for the
\* reply provider to start, as it is told here.
HandOver(l) ==
  /\ stage[l] = "stdio"
  /\ child' = [child EXCEPT ![l] = [Forked EXCEPT !.state = "handed over", !.cwd = l, !.told = Told(l)]]
  /\ Proceed(l, "over")
  /\ UNCHANGED <<contextVars, preparedVars, bound>>

\* Each of these may fail, and the launch with it: the listener is closed, what
\* was prepared stays for the next one.
SetUpFails(l) ==
  /\ stage[l] \in {"owning", "grouping", "binding"}
  /\ Proceed(l, "failed")
  /\ UNCHANGED <<contextVars, preparedVars, bound, child>>

(***************************************************************************)
(* The child                                                               *)
(***************************************************************************)

\* Command::spawn forks; configure_chroot_command has set the calls that the
\* child makes first, configure_host_command that it leads a process group.
ForkChild(l) ==
  /\ stage[l] = "spawning"
  /\ child' = [child EXCEPT ![l] = [Forked EXCEPT !.told = Told(l)]]
  /\ Proceed(l, IF Chrooted(l) THEN "joining" ELSE "hosting")
  /\ UNCHANGED <<contextVars, preparedVars, bound>>

\* prepare_host_launch: a process group of its own, and the checkout.
OnHost(l) == [child[l] EXCEPT !.leads = TRUE, !.cwd = l]

\* move_current_process_to_cgroup.
Grouped(l) == [child[l] EXCEPT !.grouped = HasGroups]

\* The calls of prepare_chroot_child_with, each at its stage: what it does to
\* the child, and the stage of the next.
Calls(l) ==
  {[at |-> "joining", next |-> "leading",
    does |-> Grouped(l)],
   [at |-> "leading", next |-> "locking", does |-> [child[l] EXCEPT !.leads = TRUE]],
   [at |-> "hosting", next |-> "executing", does |-> OnHost(l)],
   [at |-> "locking", next |-> "rooting", does |-> [child[l] EXCEPT !.locked = HasGroups]],
   [at |-> "rooting", next |-> "entering", does |-> [child[l] EXCEPT !.root = l]],
   [at |-> "entering", next |-> "ungrouping", does |-> [child[l] EXCEPT !.cwd = LeadsTo(child[l], "/workspace")]],
   [at |-> "ungrouping", next |-> "setting gid", does |-> [child[l] EXCEPT !.groups = "none"]],
   [at |-> "setting gid", next |-> "setting uid", does |-> [child[l] EXCEPT !.gid = plan[l].gid]],
   [at |-> "setting uid", next |-> "executing", does |-> [child[l] EXCEPT !.uid = plan[l].uid]]}

\* After setuid these are not for the child to do any more.
Privileged == {"rooting", "ungrouping", "setting gid", "setting uid"}
Allowed(l, at) == at \in Privileged => child[l].uid = Root

\* Mutant: a call that fails is passed over.
CallOrPassOver(l) ==
  \E c \in Calls(l) :
    /\ stage[l] = c.at
    /\ child' \in {child, [child EXCEPT ![l] = c.does]}
    /\ Proceed(l, c.next)
    /\ UNCHANGED <<contextVars, preparedVars, bound>>

ChildCall(l) ==
  \E c \in Calls(l) :
    /\ stage[l] = c.at
    /\ Allowed(l, c.at)
    /\ child' = [child EXCEPT ![l] = c.does]
    /\ Proceed(l, c.next)
    /\ UNCHANGED <<contextVars, preparedVars, bound>>

\* A call that fails ends the child; so does a program that cannot be run.
ChildCallFails(l) ==
  /\ child[l].state = "forked"
  /\ child' = [child EXCEPT ![l].state = "dead"]
  /\ Proceed(l, "unspawned")
  /\ UNCHANGED <<contextVars, preparedVars, bound>>

Exec(l) ==
  /\ stage[l] = "executing"
  /\ child' = [child EXCEPT ![l].state = "agent"]
  /\ Proceed(l, "releasing")
  /\ UNCHANGED <<contextVars, preparedVars, bound>>

(***************************************************************************)
(* The port, and the agent's start                                         *)
(***************************************************************************)

Unreserved(l) == [e \in Endpoints |-> IF bound[e] = <<"reserved", l>> THEN Unbound ELSE bound[e]]

\* spawn_agent_child drops the listener once the child runs, or has failed to;
\* then its control group is removed, as that of an agent that fails to start.
ReleasePort(l) ==
  /\ stage[l] \in {"releasing", "unspawned", "failed"}
  /\ bound' = Unreserved(l)
  /\ Proceed(l, IF stage[l] = "releasing" THEN "watching" ELSE "over")
  /\ group' = [group EXCEPT ![l] = @ /\ stage[l] # "unspawned"]
  /\ UNCHANGED <<contextVars, owned, port, child>>

\* An agent listens where it is told to, from when it runs, unless somebody
\* else does: the reservation that is still held, or whoever took the port
\* since.
AgentListens(l) ==
  /\ child[l].state = "agent"
  /\ port[l] # NoEndpoint
  /\ bound[port[l]] = Unbound
  /\ bound' = [bound EXCEPT ![port[l]] = <<"agent", l>>]
  /\ UNCHANGED <<contextVars, preparedVars, stage, child>>

ProgramExits(l) ==
  /\ child[l].state = "agent"
  /\ child' = [child EXCEPT ![l].state = "dead"]
  /\ bound' = [e \in Endpoints |-> IF bound[e] = <<"agent", l>> THEN Unbound ELSE bound[e]]
  /\ UNCHANGED <<contextVars, preparedVars, stage>>

OtherBinds(e) ==
  /\ bound[e] = Unbound
  /\ bound' = [bound EXCEPT ![e] = <<"other">>]
  /\ UNCHANGED <<contextVars, preparedVars, stage, child>>

OtherLeaves(e) ==
  /\ bound[e] = <<"other">>
  /\ bound' = [bound EXCEPT ![e] = Unbound]
  /\ UNCHANGED <<contextVars, preparedVars, stage, child>>

\* wait_for_acp_readiness: an agent that has exited within the grace has
\* failed to start, which ends what is left of it; whether it listens is not asked.
Ready(l) ==
  /\ stage[l] = "watching"
  /\ Proceed(l, IF child[l].state = "agent" THEN "running" ELSE "unspawned")
  /\ UNCHANGED <<contextVars, preparedVars, bound, child>>

(***************************************************************************)
(* Specification                                                           *)
(***************************************************************************)

SandboxInit ==
  /\ platform \in {"linux", "macos", "other"}
  /\ server \in {{}, {"PATH", "ACP_SESSION_ID", "ACP_ENDPOINT"}}
  /\ plan \in [Launches -> Configs]
  /\ stage = [l \in Launches |-> "idle"]
  /\ owned = [l \in Launches |-> 0]
  /\ group = [l \in Launches |-> FALSE]
  /\ port = [l \in Launches |-> NoEndpoint]
  /\ bound = [e \in Endpoints |-> Unbound]
  /\ child = [l \in Launches |-> NoChild]

SandboxStep(l) ==
  \/ Validate(l) \/ Chown(l) \/ PrepareGroup(l) \/ ReservePort(l) \/ HandOver(l) \/ SetUpFails(l)
  \/ ForkChild(l) \/ ChildCall(l) \/ ChildCallFails(l) \/ Exec(l)
  \/ ReleasePort(l) \/ AgentListens(l) \/ ProgramExits(l) \/ Ready(l)

SandboxNext ==
  \/ \E l \in Launches : SandboxStep(l)
  \/ \E e \in Endpoints : OtherBinds(e) \/ OtherLeaves(e)

SandboxSpec == SandboxInit /\ [][SandboxNext]_sandboxVars

(***************************************************************************)
(* Properties                                                              *)
(***************************************************************************)

\* No program of an agent ever runs but with all its confinement, whichever
\* call failed (prepare_chroot_child_with): it leads a process group, by which
\* it is killed, and is in its own checkout; in chroot mode it has a root of
\* its own and is neither root nor in a group of the backend's, every file of
\* the checkout belongs to it, and on Linux it is in its control group and
\* cannot gain privileges.
AgentsRunConfined ==
  \A l \in Launches :
     child[l].state = "agent" =>
       /\ child[l].leads
       /\ child[l].cwd = l
       /\ Chrooted(l) =>
            /\ child[l].root = l
            /\ child[l].uid # Root /\ child[l].gid # Root /\ child[l].groups = "none"
            /\ owned[l] = Files
            /\ platform = "linux" => child[l].grouped /\ child[l].locked

\* An agent is told its own session, a path that leads it to its own checkout
\* and the endpoint that the backend will connect to, whatever variables of
\* the backend it inherits (agent_env, expand_agent_arg).
AgentsAreToldTheirOwn ==
  \A l \in Launches :
     child[l].state \in {"agent", "handed over"} =>
       LET env == child[l].told.env
       IN  /\ env["ACP_SESSION_ID"] = l
           /\ LeadsTo(child[l], env["ACP_CHECKOUT_ROOT"]) = l
           /\ child[l].told.argv = port[l]
           /\ port[l] # NoEndpoint => env["ACP_ENDPOINT"] = port[l]
=============================================================================
