--------------------------- MODULE MCSessionSetup ---------------------------
(***************************************************************************)
(* Setting a session up on small instances: its checkout, the proxy it is  *)
(* fetched through, the sandbox of its agent, and the manager that         *)
(* launches and ends agents.  They hand results to each other but share no *)
(* state, so each behaviour explores one of them while the others stay as  *)
(* they were at first.                                                     *)
(***************************************************************************)
EXTENDS AgentRuntime, WorkspaceCheckout, GitProxy, AgentSandbox

VARIABLE explored  (* the part this behaviour explores *)

AllModes == {"chroot", "host", "stdio"}
MCLabels == {<<"a">>, <<"b", "a">>}
MCPorts == {<<"8">>, <<"9">>}

\* A part that is not explored begins in one state.
RestingRuntime ==
  request = CHOOSE r \in [Callers -> [session : Sessions, mode : Modes]] : TRUE
RestingCheckout ==
  /\ workspace = [url |-> "none", default |-> NoRef]
  /\ upstream = [head |-> [b \in Branches |-> b], default |-> 1, loose |-> NoCommit]
  /\ job = [j \in Jobs |-> NewJob("list", NoRef)]
RestingProxy ==
  /\ remote = CHOOSE r \in Remotes : TRUE
  /\ environment = CHOOSE e \in Environments : TRUE
RestingSandbox ==
  /\ platform = "linux"
  /\ server = {}
  /\ plan = [l \in Launches |-> CHOOSE c \in Configs : TRUE]

Init ==
  /\ explored \in {"runtime", "checkout", "proxy", "sandbox"}
  /\ explored # "runtime" => RestingRuntime
  /\ explored # "checkout" => RestingCheckout
  /\ explored # "proxy" => RestingProxy
  /\ explored # "sandbox" => RestingSandbox
  /\ RuntimeInit
  /\ CheckoutInit
  /\ ProxyInit
  /\ SandboxInit

Next ==
  /\ UNCHANGED <<explored, proxyVars>>
  /\ \/ /\ explored = "runtime"
        /\ RuntimeNext
        /\ UNCHANGED <<checkoutVars, sandboxVars>>
     \/ /\ explored = "checkout"
        /\ CheckoutNext
        /\ UNCHANGED <<runtimeVars, sandboxVars>>
     \/ /\ explored = "sandbox"
        /\ SandboxNext
        /\ UNCHANGED <<runtimeVars, checkoutVars>>

vars == <<explored, runtimeVars, checkoutVars, proxyVars, sandboxVars>>
Spec == Init /\ [][Next]_vars /\ RuntimeFairness
=============================================================================
