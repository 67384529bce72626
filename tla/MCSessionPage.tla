--------------------------- MODULE MCSessionPage ---------------------------
(***************************************************************************)
(* The session page on small instances: its chat and its sidebar.  The two *)
(* share no signal but the one that tells whether the chat is busy, which  *)
(* SessionSidebar sets freely, so each behaviour explores one of the two   *)
(* while the other stays as it was at first.                               *)
(***************************************************************************)
EXTENDS WebChat, SessionSidebar, TLC

VARIABLE explored  (* the part of the page this behaviour explores *)

MCSymmetry == Permutations(Titles) \cup Permutations(Tasks)

NoSidebar ==
  /\ chat = [s \in Chats |-> "free"]
  /\ task = [t \in Tasks |-> NoTask]
  /\ bar = [NewSidebar EXCEPT !.open = FALSE]
  /\ crossed = FALSE

Init ==
  \/ explored = "chat" /\ WebInit /\ NoSidebar
  \/ explored = "sidebar" /\ WebInit /\ SidebarInit

Next ==
  /\ UNCHANGED explored
  /\ \/ explored = "chat" /\ WebNext /\ UNCHANGED sidebarVars
     \/ explored = "sidebar" /\ SidebarNext /\ UNCHANGED webVars

Spec == Init /\ [][Next]_<<explored, webVars, sidebarVars>>
=============================================================================
