-------------------------- MODULE MCAgentSessions --------------------------
EXTENDS AgentSessions, TLC

MCSymmetry == Permutations(Sessions) \cup Permutations(Calls)

(* What neither a step nor a property reads any more: the lock of a call   *)
(* that has ended, what it was answered unless cancelled, and its agent    *)
(* session unless it has sent a cancel.                                    *)
MCCall(c) ==
  IF call[c].stage # "ended" THEN call[c]
  ELSE [call[c] EXCEPT
    !.lock = None,
    !.agent = IF cancel[c].stage \in {"none", "lost"} THEN None ELSE @,
    !.session = IF cancel[c].stage \in {"none", "lost"}
                   /\ prompt[c].stage # "cancelled" THEN None ELSE @]

MCPrompt(c) ==
  IF prompt[c].stage \in {"started", "delayed"} THEN prompt[c]
  ELSE IF prompt[c].stage = "cancelled"
       THEN [NoPrompt EXCEPT !.stage = "cancelled", !.old = prompt[c].old]
       ELSE [NoPrompt EXCEPT !.stage =
              IF call[c].stage = "ended" THEN "none" ELSE prompt[c].stage]

MCCancel(c) ==
  IF cancel[c].stage = "counted" THEN cancel[c]
  ELSE [NoCancel EXCEPT !.stage =
         IF cancel[c].stage = "lost" THEN "none" ELSE cancel[c].stage]

MCView ==
  <<upstream, locks, forgetting, [c \in Calls |-> MCCall(c)], next, count,
    published, [c \in Calls |-> MCPrompt(c)], [c \in Calls |-> MCCancel(c)],
    forgets, restarts>>
=============================================================================
