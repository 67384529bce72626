------------------------------ MODULE MCClients ------------------------------
(***************************************************************************)
(* The two clients on small instances: the chat of the command line, and   *)
(* the tabs of a browser with the accounts they act for.  They share no    *)
(* state, so each behaviour explores one of them while the other stays as  *)
(* it was at first.                                                        *)
(***************************************************************************)
EXTENDS CliChat, WebSignIn, TLC

VARIABLE explored  (* the client this behaviour explores *)

MCSymmetry == Permutations(Tabs) \cup Permutations(Users)

\* The browser begins in one state when it is not explored.
RestingBrowser ==
  /\ role = [u \in Users |-> "none"]
  /\ made = 0

Init ==
  /\ explored \in {"terminal", "browser"}
  /\ explored # "browser" => RestingBrowser
  /\ CliInit
  /\ SignInInit

Next ==
  /\ UNCHANGED explored
  /\ \/ /\ explored = "terminal"
        /\ CliNext
        /\ UNCHANGED signInVars
     \/ /\ explored = "browser"
        /\ SignInNext
        /\ UNCHANGED cliVars

vars == <<explored, cliVars, signInVars>>
Spec == Init /\ [][Next]_vars
=============================================================================
