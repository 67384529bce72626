----------------------------- MODULE AnswerLedger -----------------------------
(***************************************************************************)
(* What a session promises the people who read it, without turns, tasks,   *)
(* streams or a map of waiting completions: prompts are accepted one by    *)
(* one while the session is open, their answers are released in the order  *)
(* the prompts were accepted, each exactly once, and a released answer     *)
(* never changes.  SessionHandle implements it.                            *)
(***************************************************************************)
EXTENDS Integers

CONSTANTS
  Capacity,  (* bound: prompts of one session                              *)
  Answers,   (* what a prompt can be answered with                         *)
  NoAnswer

VARIABLES open, accepted, released, answers

ledgerVars == <<open, accepted, released, answers>>

Prompts == 0 .. Capacity - 1

(* A session may begin with prompts behind it, all of them answered.       *)
Init ==
  /\ open \in BOOLEAN
  /\ accepted \in 0 .. Capacity
  /\ released = accepted
  /\ answers \in [Prompts -> Answers \cup {NoAnswer}]
  /\ \A p \in Prompts : answers[p] = NoAnswer <=> released <= p

Accept ==
  /\ open
  /\ accepted < Capacity
  /\ accepted' = accepted + 1
  /\ UNCHANGED <<open, released, answers>>

(* The answers of one or more prompts next in line are released together.  *)
Release ==
  /\ open
  /\ \E next \in released + 1 .. accepted :
       /\ released' = next
       /\ answers' \in [Prompts -> Answers \cup {NoAnswer}]
       /\ \A p \in Prompts :
            IF p \in released .. next - 1
              THEN answers'[p] # NoAnswer
              ELSE answers'[p] = answers[p]
  /\ UNCHANGED <<open, accepted>>

Close ==
  /\ open
  /\ open' = FALSE
  /\ UNCHANGED <<accepted, released, answers>>

Next == Accept \/ Release \/ Close

Spec == Init /\ [][Next]_ledgerVars

=============================================================================
