-------------------------- MODULE PromptTurns_proofs --------------------------
(***************************************************************************)
(* Machine-checked facts about a session and its prompts, for every number *)
(* of prompts, permission requests, chunks and hints: first about the      *)
(* session handle, whoever calls it and in whatever order; then about the  *)
(* tasks that do, which keep to its operations, one roundtrip at a time    *)
(* holding the session lock and owning the active turn.                    *)
(***************************************************************************)
EXTENDS PromptTurns, FiniteSetTheorems, TLAPS

-----------------------------------------------------------------------------
(* Lemmas about the operators.                                             *)

(* Draining moves the sequence number by the number of events it pushes.   *)
LEMMA SequenceAfterType ==
  ASSUME latestSequence \in Nat,
         NEW pending, NEW first \in Int, NEW last \in Int
  PROVE  /\ SequenceAfter(pending, first, last) \in Nat
         /\ SequenceAfter(pending, first, last) >= latestSequence
<1> DEFINE slots == EventSlots(pending, first, last)
<1>1. IsFiniteSet((first .. last) \X (1 .. 2))
  <2>1. IsFiniteSet(first .. last)
    BY FS_Interval
  <2>2. IsFiniteSet(1 .. 2)
    <3>1. 1 \in Int /\ 2 \in Int
      OBVIOUS
    <3> QED
      BY <3>1, FS_Interval, Zenon
  <2> QED
    BY <2>1, <2>2, FS_Product
<1>2. slots \in SUBSET ((first .. last) \X (1 .. 2))
  BY DEF EventSlots
<1>3. IsFiniteSet(slots)
  BY <1>1, <1>2, FS_Subset
<1>4. Cardinality(slots) \in Nat
  BY <1>3, FS_CardinalityType
<1> QED
  BY <1>4 DEF SequenceAfter

(* The fields of a completion as its record is built.                      *)
LEMMA CompletionFields ==
  ASSUME NEW c \in Completions
  PROVE  /\ c.text \in Nat
         /\ c.kind # "absent" <=> c \in Answers
<1>1. CASE c \in Answers
  BY <1>1 DEF Answers
<1>2. CASE c = NoCompletion
  BY <1>2 DEF NoCompletion, Completion, Answers
<1> QED
  BY <1>1, <1>2 DEF Completions

(* A completion taken into the map keeps its kind, except that a streamed  *)
(* message turns "no output" into a reply.                                 *)
LEMMA WithStreamedMessageType ==
  ASSUME NEW completion \in Outcomes, NEW message \in Nat, BoundsAssumption
  PROVE  /\ WithStreamedMessage(completion, message) \in Completions
         /\ WithStreamedMessage(completion, message).kind # "absent"
<1>1. completion \in Answers
  BY DEF Outcomes, Completion, Answers, NoMessage, BoundsAssumption
<1>2. Completion("reply", 0) \in Answers
  BY DEF Completion, Answers, NoMessage
<1>3. WithStreamedMessage(completion, message) \in Answers
  BY <1>1, <1>2 DEF WithStreamedMessage, Answers
<1> QED
  BY <1>3 DEF Completions, Answers

(* The drained completions keep every variable they touch in its type.     *)
LEMMA DrainType ==
  ASSUME BoundsAssumption, HandleTypeOK,
         NEW pending \in [Orders -> Completions], Drain(pending)
  PROVE  /\ nextCompletionOrder' \in 0 .. MaxPrompts
         /\ pendingCompletions' \in [Orders -> Completions]
         /\ published' \in [Orders -> Completions]
         /\ latestSequence' \in Nat
         /\ messages' \in SUBSET Messages
<1>1. PICK gap \in nextCompletionOrder .. MaxPrompts :
        LET drained == nextCompletionOrder .. gap - 1 IN
        /\ nextCompletionOrder' = gap
        /\ pendingCompletions' = [o \in Orders |->
             IF o \in drained THEN NoCompletion ELSE pending[o]]
        /\ published' = [o \in Orders |->
             IF o \in drained THEN pending[o] ELSE published[o]]
        /\ latestSequence' = SequenceAfter(pending, nextCompletionOrder, gap - 1)
        /\ messages' =
             {Corrected(m, drained, pending) : m \in messages}
               \cup {Message(SequenceAfter(pending, nextCompletionOrder, o),
                             "assistant", o, pending[o].text) :
                       o \in {d \in drained : PushesMessage(pending[d])}}
  BY DEF Drain
<1> DEFINE drained == nextCompletionOrder .. gap - 1
<1>2. gap \in 0 .. MaxPrompts /\ drained \subseteq Orders /\ drained \subseteq Int
  BY DEF HandleTypeOK, Orders, BoundsAssumption
<1>3. NoCompletion \in Completions
  BY DEF NoCompletion, Completion, Completions, Answers, NoMessage
<1>4. latestSequence' \in Nat
  BY <1>1, <1>2, SequenceAfterType DEF HandleTypeOK
<1>5. ASSUME NEW m \in messages
      PROVE  Corrected(m, drained, pending) \in Messages
  <2>1. m \in Messages
    BY DEF HandleTypeOK
  <2> DEFINE replies == {o \in drained : /\ pending[o].kind = "reply"
                                         /\ pending[o].message = m.id
                                         /\ pending[o].text # 0}
  <2>2. CASE replies = {}
    BY <2>1, <2>2 DEF Corrected
  <2>3. CASE replies # {}
    <3>1. (CHOOSE o \in replies : TRUE) \in Orders
      BY <1>2, <2>3
    <3>2. pending[CHOOSE o \in replies : TRUE].text \in Nat
      BY <3>1, CompletionFields
    <3> QED
      BY <2>1, <3>2 DEF Corrected, Messages
  <2> QED
    BY <2>2, <2>3
<1>6. ASSUME NEW o \in drained
      PROVE  Message(SequenceAfter(pending, nextCompletionOrder, o),
                     "assistant", o, pending[o].text) \in Messages
  <2>1. SequenceAfter(pending, nextCompletionOrder, o) \in Nat
    BY <1>2, SequenceAfterType DEF HandleTypeOK
  <2>2. pending[o].text \in Nat
    BY <1>2, CompletionFields
  <2> QED
    BY <1>2, <2>1, <2>2 DEF Message, Messages
<1>7. messages' \in SUBSET Messages
  BY <1>1, <1>5, <1>6
<1> QED
  BY <1>1, <1>2, <1>3, <1>4, <1>7 DEF HandleTypeOK



(* The helpers that rewrite a whole table keep its type.                   *)
LEMMA TablesType ==
  ASSUME HandleTypeOK, NEW orders, NEW order
  PROVE  /\ PermissionsCancelled(orders) \in [PermissionIds -> Permissions]
         /\ CancelSent(cancelWatch, order)
              \in [Orders -> {"none", "open", "cancelled", "closed"}]
         /\ SenderDropped(cancelWatch, order)
              \in [Orders -> {"none", "open", "cancelled", "closed"}]
  BY DEF HandleTypeOK, PermissionsCancelled, CancelSent, SenderDropped, Permissions

(* The value of no active turn is a turn.                                  *)
LEMMA NoTurnType == NoTurn \in Turns
  BY DEF NoTurn, Turns, NoMessage

-----------------------------------------------------------------------------
(* Type correctness.                                                       *)

(* New and restored sessions have their types.                             *)
LEMMA TypeInit == BoundsAssumption /\ HandleInit => HandleTypeOK
<1> SUFFICES ASSUME BoundsAssumption, HandleInit PROVE HandleTypeOK
  OBVIOUS
<1>1. nextPromptOrder \in 0 .. MaxPrompts /\ status \in {"active", "closed"}
  <2>1. CASE status = "active" /\ nextPromptOrder = 0
    BY <2>1 DEF BoundsAssumption
  <2>2. CASE status \in {"active", "closed"} /\ nextPromptOrder \in RestoredPrompts
    BY <2>2 DEF BoundsAssumption
  <2> QED
    BY <2>1, <2>2 DEF HandleInit
<1>2. messages \in SUBSET Messages
  BY <1>1 DEF HandleInit, Message, Messages, Orders, BoundsAssumption
<1>3. /\ NoCompletion \in Completions
      /\ Completion("restored", 0) \in Completions
  BY DEF NoCompletion, Completion, Completions, Answers, NoMessage
<1>4. [state |-> "unused", prompt |-> NoOrder] \in Permissions
  BY DEF Permissions
<1>5. /\ latestSequence \in Nat
      /\ nextCompletionOrder \in 0 .. MaxPrompts
      /\ nextPermissionId \in 1 .. MaxPermissions + 1
  BY <1>1 DEF HandleInit, BoundsAssumption
<1>6. /\ pendingCompletions \in [Orders -> Completions]
      /\ published \in [Orders -> Completions]
      /\ permissions \in [PermissionIds -> Permissions]
      /\ cancelWatch \in [Orders -> {"none", "open", "cancelled", "closed"}]
  BY <1>3, <1>4 DEF HandleInit
<1>7. /\ unavailable \in BOOLEAN
      /\ activeTurn \in Turns
      /\ openPrompts \in SUBSET Orders
  BY NoTurnType DEF HandleInit
<1> QED
  BY <1>1, <1>2, <1>5, <1>6, <1>7 DEF HandleTypeOK

(* Every operation keeps the types.                                        *)
LEMMA TypeStep ==
  BoundsAssumption /\ HandleTypeOK /\ [HandleNext]_handleVars => HandleTypeOK'
<1> SUFFICES ASSUME BoundsAssumption, HandleTypeOK, [HandleNext]_handleVars
             PROVE  HandleTypeOK'
  OBVIOUS
<1> USE DEF Orders, PermissionIds
<1>1. CASE SubmitUserPrompt
  <2>1. Message(latestSequence + 1, "user", nextPromptOrder, 0) \in Messages
    BY <1>1 DEF SubmitUserPrompt, HandleTypeOK, Message, Messages, BoundsAssumption
  <2> QED
    BY <1>1, <2>1 DEF SubmitUserPrompt, HandleTypeOK, BoundsAssumption
<1>2. ASSUME NEW o \in Orders, StartTurn(o) PROVE HandleTypeOK'
  <2>1. activeTurn' \in Turns
    BY <1>2, NoTurnType DEF StartTurn, Turns
  <2>2. cancelWatch' \in [Orders -> {"none", "open", "cancelled", "closed"}]
    BY <1>2, TablesType DEF StartTurn
  <2> QED
    BY <1>2, <2>1, <2>2 DEF StartTurn, HandleTypeOK
<1>3. ASSUME NEW o \in Orders, StreamAssistantChunk(o) PROVE HandleTypeOK'
  <2>1. latestSequence' \in Nat
    BY <1>3 DEF StreamAssistantChunk, HandleTypeOK
  <2>2. Message(latestSequence + 1, "assistant", o, 1) \in Messages
    BY DEF HandleTypeOK, Message, Messages
  <2>3. ASSUME NEW m \in messages
        PROVE  /\ m \in Messages
               /\ [m EXCEPT !.text = @ + 1] \in Messages
    <3> DEFINE longer == m.text + 1
    <3>1. m \in Messages /\ longer \in Nat
      BY DEF HandleTypeOK, Messages
    <3> HIDE DEF longer
    <3>2. [m EXCEPT !.text = longer] \in Messages
      BY <3>1 DEF Messages
    <3> QED
      BY <3>1, <3>2 DEF longer
  <2>4. messages' \in SUBSET Messages
    <3>1. CASE HasAssistantMessage(activeTurn.message)
      <4>1. messages' = {IF m.id = activeTurn.message
                           THEN [m EXCEPT !.text = @ + 1] ELSE m : m \in messages}
        BY <1>3, <3>1 DEF StreamAssistantChunk
      <4> QED
        BY <4>1, <2>3
    <3>2. CASE ~HasAssistantMessage(activeTurn.message)
      BY <1>3, <3>2, <2>2 DEF StreamAssistantChunk, HandleTypeOK
    <3> QED
      BY <3>1, <3>2
  <2>5. activeTurn' \in Turns
    BY <1>3 DEF StreamAssistantChunk, HandleTypeOK, Turns
  <2> QED
    BY <1>3, <2>1, <2>4, <2>5 DEF StreamAssistantChunk, HandleTypeOK
<1>4. ASSUME NEW o \in Orders, RegisterPermissionRequest(o) PROVE HandleTypeOK'
  BY <1>4 DEF RegisterPermissionRequest, HandleTypeOK, Permissions, BoundsAssumption
<1>5. ASSUME NEW r \in PermissionIds, NEW d \in {"approved", "denied"},
             ResolvePermission(r, d)
      PROVE  HandleTypeOK'
  BY <1>5 DEF ResolvePermission, HandleTypeOK, Permissions
<1>6. CASE CancelActiveTurn
  <2>1. activeTurn' \in Turns
    BY <1>6 DEF CancelActiveTurn, HandleTypeOK, Turns
  <2> QED
    BY <1>6, <2>1, TablesType DEF CancelActiveTurn, HandleTypeOK
<1>7. ASSUME NEW o \in Orders, NEW c \in Outcomes, CompletePrompt(o, c)
      PROVE  HandleTypeOK'
  <2> DEFINE pending == [pendingCompletions EXCEPT
                           ![o] = WithStreamedMessage(c, StreamedMessage(o))]
  <2>1. StreamedMessage(o) \in Nat
    BY DEF StreamedMessage, HandleTypeOK, Turns, NoMessage
  <2>2. pending \in [Orders -> Completions]
    BY <2>1, WithStreamedMessageType DEF HandleTypeOK
  <2>3. Drain(pending)
    BY <1>7 DEF CompletePrompt
  <2>4. /\ nextCompletionOrder' \in 0 .. MaxPrompts
        /\ pendingCompletions' \in [Orders -> Completions]
        /\ published' \in [Orders -> Completions]
        /\ latestSequence' \in Nat
        /\ messages' \in SUBSET Messages
    BY <2>2, <2>3, DrainType
  <2>5. /\ activeTurn' \in Turns
        /\ cancelWatch' \in [Orders -> {"none", "open", "cancelled", "closed"}]
        /\ permissions' \in [PermissionIds -> Permissions]
    BY <1>7, TablesType, NoTurnType DEF CompletePrompt, HandleTypeOK
  <2> QED
    BY <1>7, <2>4, <2>5 DEF CompletePrompt, HandleTypeOK
<1>8. ASSUME NEW o \in Orders, CompleteAfterClose(o) PROVE HandleTypeOK'
  BY <1>8 DEF CompleteAfterClose, HandleTypeOK
<1>9. CancelAllTurns =>
        /\ permissions' \in [PermissionIds -> Permissions]
        /\ cancelWatch' \in [Orders -> {"none", "open", "cancelled", "closed"}]
        /\ activeTurn' \in Turns
  BY TablesType, NoTurnType DEF CancelAllTurns
<1>10. [o \in Orders |-> NoCompletion] \in [Orders -> Completions]
  BY DEF NoCompletion, Completion, Completions, Answers, NoMessage
<1>11. CASE MarkRuntimeUnavailable
  BY <1>9, <1>11 DEF MarkRuntimeUnavailable, HandleTypeOK
<1>12. CASE Close
  <2>1. latestSequence' \in Nat /\ status' = "closed"
    BY <1>12 DEF Close, HandleTypeOK
  <2>2. pendingCompletions' \in [Orders -> Completions]
    BY <1>10, <1>12 DEF Close
  <2> QED
    BY <1>9, <1>12, <2>1, <2>2 DEF Close, HandleTypeOK
<1>13. CASE PrepareDelete
  BY <1>9, <1>10, <1>13 DEF PrepareDelete, HandleTypeOK
<1>14. CASE AppendMessage
  <2>1. Message(latestSequence + 1, "assistant", NoOrder, 1) \in Messages
    BY DEF HandleTypeOK, Message, Messages
  <2> QED
    BY <1>14, <2>1 DEF AppendMessage, HandleTypeOK
<1>15. CASE UNCHANGED handleVars
  BY <1>15 DEF handleVars, HandleTypeOK
<1> QED
  BY <1>1, <1>2, <1>3, <1>4, <1>5, <1>6, <1>7, <1>8, <1>11, <1>12, <1>13,
     <1>14, <1>15 DEF HandleNext

(* Every variable of a session keeps its type, whatever the callers do.    *)
THEOREM HandleTypeCorrect == HandleSpec => []HandleTypeOK
<1>1. HandleInit => HandleTypeOK
  BY TypeInit, BoundsAssumption
<1>2. HandleTypeOK /\ [HandleNext]_handleVars => HandleTypeOK'
  BY TypeStep, BoundsAssumption
<1> QED
  BY <1>1, <1>2, PTL DEF HandleSpec
-----------------------------------------------------------------------------
(* The invariants that together are inductive.                             *)
HandleInv ==
  /\ HandleTypeOK
  /\ AnswersAccounted
  /\ NoAnswerHeldBack
  /\ PendingPermissionsHaveATask
  /\ OnlyTheActiveTurnIsCancellable
  /\ NothingPendingWhenClosed

(* What a completion drains, and where the drain stops.                    *)
LEMMA DrainFacts ==
  ASSUME BoundsAssumption, HandleTypeOK, AnswersAccounted, status = "active",
         NEW order \in openPrompts,
         NEW c \in Completions, c.kind # "absent",
         Drain([pendingCompletions EXCEPT ![order] = c])
  PROVE  LET pending == [pendingCompletions EXCEPT ![order] = c] IN
         /\ nextCompletionOrder' \in nextCompletionOrder .. nextPromptOrder
         /\ \A o \in Orders :
              IF o \in nextCompletionOrder .. nextCompletionOrder' - 1
                THEN /\ pending[o].kind # "absent"
                     /\ pendingCompletions'[o] = NoCompletion
                     /\ published'[o] = pending[o]
                ELSE /\ pendingCompletions'[o] = pending[o]
                     /\ published'[o] = published[o]
         /\ nextCompletionOrder' \in Orders =>
              pending[nextCompletionOrder'].kind = "absent"
<1> DEFINE pending == [pendingCompletions EXCEPT ![order] = c]
<1>1. PICK gap \in nextCompletionOrder .. MaxPrompts :
        /\ \A o \in nextCompletionOrder .. gap - 1 : pending[o].kind # "absent"
        /\ gap \in Orders => pending[gap].kind = "absent"
        /\ nextCompletionOrder' = gap
        /\ pendingCompletions' = [o \in Orders |->
             IF o \in nextCompletionOrder .. gap - 1 THEN NoCompletion ELSE pending[o]]
        /\ published' = [o \in Orders |->
             IF o \in nextCompletionOrder .. gap - 1 THEN pending[o] ELSE published[o]]
  BY DEF Drain
<1>2. nextCompletionOrder \in 0 .. MaxPrompts /\ nextPromptOrder \in 0 .. MaxPrompts
  BY DEF HandleTypeOK
<1>3. \A o \in Orders : pending[o].kind # "absent" => o < nextPromptOrder
  BY DEF HandleTypeOK, AnswersAccounted
<1>4. gap \in nextCompletionOrder .. nextPromptOrder
  <2>1. CASE gap = nextCompletionOrder
    BY <2>1, <1>2 DEF AnswersAccounted
  <2>2. CASE gap # nextCompletionOrder
    <3>1. gap - 1 \in nextCompletionOrder .. gap - 1 /\ gap - 1 \in Orders
      BY <2>2, <1>2 DEF Orders, BoundsAssumption
    <3>2. gap - 1 < nextPromptOrder
      BY <3>1, <1>1, <1>3
    <3> QED
      BY <3>2, <1>2
  <2> QED
    BY <2>1, <2>2
<1>5. \A o \in nextCompletionOrder .. gap - 1 : pending[o].kind # "absent"
  BY <1>1
<1> HIDE DEF pending
<1>6. \A o \in Orders :
        IF o \in nextCompletionOrder .. gap - 1
          THEN /\ pending[o].kind # "absent"
               /\ pendingCompletions'[o] = NoCompletion
               /\ published'[o] = pending[o]
          ELSE /\ pendingCompletions'[o] = pending[o]
               /\ published'[o] = published[o]
  BY <1>1, <1>5
<1> QED
  BY <1>1, <1>4, <1>6 DEF pending

(* New and restored sessions satisfy the invariant.                        *)
LEMMA InvInit == BoundsAssumption /\ HandleInit => HandleInv
<1> SUFFICES ASSUME BoundsAssumption, HandleInit PROVE HandleInv
  OBVIOUS
<1>1. HandleTypeOK
  BY TypeInit
<1>2. /\ NoCompletion.kind = "absent"
      /\ Completion("restored", 0).kind = "restored"
  BY DEF NoCompletion, Completion
<1>3. /\ openPrompts = {} /\ activeTurn = NoTurn
      /\ nextCompletionOrder = nextPromptOrder
      /\ pendingCompletions = [o \in Orders |-> NoCompletion]
      /\ permissions = [r \in PermissionIds |-> [state |-> "unused", prompt |-> NoOrder]]
      /\ cancelWatch = [o \in Orders |-> "none"]
      /\ published = [o \in Orders |-> IF o < nextPromptOrder
                                         THEN Completion("restored", 0)
                                         ELSE NoCompletion]
  BY DEF HandleInit
<1>4. \A o \in Orders : pendingCompletions[o].kind = "absent"
  BY <1>2, <1>3
<1>5. PendingRequests = {}
  BY <1>3 DEF PendingRequests
<1>6. \A o \in Orders : published[o].kind # "absent" <=> o < nextCompletionOrder
  BY <1>2, <1>3
<1>7. AnswersAccounted
  <2>1. nextCompletionOrder \in Int /\ nextPromptOrder \in Int /\ Orders \subseteq Int
    BY <1>1 DEF HandleTypeOK, Orders
  <2>2. \A o \in Orders : ~(nextCompletionOrder <= o /\ o < nextPromptOrder)
    BY <1>3, <2>1
  <2> QED
    BY <1>3, <1>4, <1>6, <2>1, <2>2 DEF AnswersAccounted
<1>8. OnlyTheActiveTurnIsCancellable
  BY <1>3 DEF OnlyTheActiveTurnIsCancellable, NoTurn
<1> QED
  BY <1>1, <1>3, <1>4, <1>5, <1>7, <1>8
  DEF HandleInv, NoAnswerHeldBack, PendingPermissionsHaveATask, NothingPendingWhenClosed

(* Membership of an interval that ends before its bound.                   *)
LEMMA BelowInterval ==
  ASSUME NEW first \in Int, NEW next \in Int, NEW o \in Int
  PROVE  o \in first .. next - 1 <=> first <= o /\ o < next
  OBVIOUS

(* An interval ends before its upper bound's successor.                    *)
LEMMA PastInterval ==
  ASSUME NEW first \in Int, NEW next \in Int
  PROVE  next \notin first .. next - 1
  OBVIOUS

(* A completion is accounted for, released or waiting behind a gap.        *)
LEMMA CompletionAccounted ==
  ASSUME BoundsAssumption, HandleInv, NEW order \in Orders, NEW outcome \in Outcomes,
         CompletePrompt(order, outcome)
  PROVE  AnswersAccounted' /\ NoAnswerHeldBack'
<1> DEFINE c == WithStreamedMessage(outcome, StreamedMessage(order))
           next == nextCompletionOrder'
           pending == [pendingCompletions EXCEPT ![order] = c]
<1>1. /\ order \in openPrompts /\ status = "active" /\ status' = status
      /\ openPrompts' = openPrompts \ {order}
      /\ nextPromptOrder' = nextPromptOrder
      /\ Drain(pending)
  BY DEF CompletePrompt
<1>2. c \in Completions /\ c.kind # "absent"
  <2>1. StreamedMessage(order) \in Nat
    BY DEF StreamedMessage, HandleInv, HandleTypeOK, Turns, NoMessage
  <2> QED
    BY <2>1, WithStreamedMessageType
<1> HIDE DEF c
<1>3. /\ next \in nextCompletionOrder .. nextPromptOrder
      /\ \A o \in Orders :
           IF o \in nextCompletionOrder .. next - 1
             THEN /\ pending[o].kind # "absent"
                  /\ pendingCompletions'[o] = NoCompletion
                  /\ published'[o] = pending[o]
             ELSE /\ pendingCompletions'[o] = pending[o]
                  /\ published'[o] = published[o]
      /\ next \in Orders => pending[next].kind = "absent"
  BY <1>1, <1>2, DrainFacts DEF HandleInv
<1>4. /\ nextCompletionOrder \in 0 .. MaxPrompts
      /\ nextPromptOrder \in 0 .. MaxPrompts
      /\ pendingCompletions \in [Orders -> Completions]
  BY DEF HandleInv, HandleTypeOK
<1>5. /\ nextCompletionOrder <= nextPromptOrder
      /\ \A o \in Orders :
           /\ o \in openPrompts <=> /\ nextCompletionOrder <= o
                                    /\ o < nextPromptOrder
                                    /\ pendingCompletions[o].kind = "absent"
           /\ pendingCompletions[o].kind # "absent" =>
                nextCompletionOrder <= o /\ o < nextPromptOrder
           /\ published[o].kind # "absent" <=> o < nextCompletionOrder
  BY <1>1 DEF HandleInv, AnswersAccounted
<1>6. NoCompletion.kind = "absent"
  BY DEF NoCompletion, Completion
<1>6a. /\ next \in Int /\ nextCompletionOrder <= next /\ next <= nextPromptOrder
      /\ nextCompletionOrder \in Int /\ nextPromptOrder \in Int
      /\ \A o \in Orders : o \in Int
  BY <1>3, <1>4 DEF Orders
<1>7. \A o \in Orders :
        pending[o].kind = IF o = order THEN c.kind ELSE pendingCompletions[o].kind
  BY <1>4
<1> HIDE DEF pending
<1>8. ASSUME NEW o \in Orders
      PROVE  /\ o \in openPrompts' <=> /\ next <= o
                                       /\ o < nextPromptOrder'
                                       /\ pendingCompletions'[o].kind = "absent"
             /\ pendingCompletions'[o].kind # "absent" =>
                  next <= o /\ o < nextPromptOrder'
             /\ published'[o].kind # "absent" <=> o < next
  <2>1. CASE o \in nextCompletionOrder .. next - 1
    <3>1. /\ pending[o].kind # "absent"
          /\ pendingCompletions'[o].kind = "absent"
          /\ published'[o].kind # "absent"
      BY <1>3, <1>6, <2>1
    <3>2. o = order \/ o \notin openPrompts
      BY <1>2, <1>5, <1>7, <3>1
    <3>3. nextCompletionOrder <= o /\ o < next
      BY <1>6a, <2>1, BelowInterval
    <3> QED
      BY <1>1, <1>6a, <3>1, <3>2, <3>3
  <2>2. CASE o \notin nextCompletionOrder .. next - 1
    <3>1. /\ pendingCompletions'[o].kind = pending[o].kind
          /\ published'[o].kind = published[o].kind
      BY <1>3, <2>2
    <3>2. o < nextCompletionOrder \/ next <= o
      BY <1>6a, <2>2, BelowInterval
    <3>3. o = order =>
            /\ nextCompletionOrder <= o /\ o < nextPromptOrder
            /\ pendingCompletions'[o].kind # "absent"
      BY <1>1, <1>2, <1>5, <1>7, <3>1
    <3>4. o # order => pendingCompletions'[o].kind = pendingCompletions[o].kind
      BY <1>7, <3>1
    <3>5. o < nextCompletionOrder <=> o < next
      BY <1>6a, <3>2
    <3> QED
      BY <1>1, <1>5, <1>6a, <3>1, <3>2, <3>3, <3>4, <3>5
  <2> QED
    BY <2>1, <2>2
<1>9. AnswersAccounted'
  BY <1>1, <1>3, <1>4, <1>8 DEF AnswersAccounted
<1>10. NoAnswerHeldBack'
  <2> SUFFICES ASSUME NEW o \in Orders, pendingCompletions'[o].kind # "absent"
               PROVE  next \in openPrompts'
    BY DEF NoAnswerHeldBack
  <2>1. next <= o /\ o < nextPromptOrder' /\ next \in Orders
    BY <1>3, <1>4, <1>8 DEF Orders
  <2>2. next \notin nextCompletionOrder .. next - 1
    <3>1. next \in Int /\ nextCompletionOrder \in Int
      BY <1>6a
    <3> QED
      BY <3>1, PastInterval
  <2>3. pendingCompletions'[next].kind = "absent"
    BY <1>3, <2>1, <2>2
  <2> QED
    BY <1>1, <1>3, <1>4, <1>8, <2>1, <2>3 DEF Orders
<1> QED
  BY <1>9, <1>10

answerVars == <<status, openPrompts, nextCompletionOrder, nextPromptOrder,
                pendingCompletions, published>>

(* Every step keeps the accounts of the answers.                           *)
LEMMA AnswersStep ==
  BoundsAssumption /\ HandleInv /\ [HandleNext]_handleVars
    => AnswersAccounted' /\ NoAnswerHeldBack'
<1> SUFFICES ASSUME BoundsAssumption, HandleInv, [HandleNext]_handleVars
             PROVE  AnswersAccounted' /\ NoAnswerHeldBack'
  OBVIOUS
<1>1. CASE UNCHANGED answerVars
  BY <1>1 DEF answerVars, HandleInv, AnswersAccounted, NoAnswerHeldBack
<1>2. CASE SubmitUserPrompt
  <2>1. /\ nextPromptOrder \in Orders /\ nextPromptOrder \in Int
        /\ nextCompletionOrder \in Int /\ nextCompletionOrder <= nextPromptOrder
        /\ \A o \in Orders : o \in Int
    BY <1>2 DEF SubmitUserPrompt, HandleInv, HandleTypeOK, AnswersAccounted, Orders,
                BoundsAssumption
  <2>2. AnswersAccounted'
    BY <1>2, <2>1 DEF SubmitUserPrompt, HandleInv, AnswersAccounted
  <2>3. NoAnswerHeldBack'
    BY <1>2 DEF SubmitUserPrompt, HandleInv, NoAnswerHeldBack
  <2> QED
    BY <2>2, <2>3
<1>3. ASSUME NEW o \in Orders, NEW c \in Outcomes, CompletePrompt(o, c)
      PROVE  AnswersAccounted' /\ NoAnswerHeldBack'
  BY <1>3, CompletionAccounted
<1>4. ASSUME NEW o \in Orders, CompleteAfterClose(o)
      PROVE  AnswersAccounted' /\ NoAnswerHeldBack'
  BY <1>4 DEF CompleteAfterClose, HandleInv, NothingPendingWhenClosed,
              AnswersAccounted, NoAnswerHeldBack
<1>5. CASE Close \/ PrepareDelete
  <2>1. status' = "closed" /\ pendingCompletions' = [o \in Orders |-> NoCompletion]
    BY <1>5 DEF Close, PrepareDelete
  <2> QED
    BY <2>1 DEF AnswersAccounted, NoAnswerHeldBack, NoCompletion, Completion
<1>6. ASSUME NEW o \in Orders,
             \/ StartTurn(o)
             \/ StreamAssistantChunk(o)
             \/ RegisterPermissionRequest(o)
      PROVE  UNCHANGED answerVars
  BY <1>6 DEF StartTurn, StreamAssistantChunk, RegisterPermissionRequest, answerVars
<1>7. ASSUME NEW r \in PermissionIds, NEW d \in {"approved", "denied"},
             ResolvePermission(r, d)
      PROVE  UNCHANGED answerVars
  BY <1>7 DEF ResolvePermission, answerVars
<1>8. CASE CancelActiveTurn \/ MarkRuntimeUnavailable \/ AppendMessage
  BY <1>1, <1>8 DEF CancelActiveTurn, MarkRuntimeUnavailable, AppendMessage, answerVars
<1>9. CASE UNCHANGED handleVars
  BY <1>1, <1>9 DEF handleVars, answerVars
<1> QED
  BY <1>1, <1>2, <1>3, <1>4, <1>5, <1>6, <1>7, <1>8, <1>9 DEF HandleNext

turnVars == <<status, openPrompts, pendingCompletions, permissions, activeTurn,
              cancelWatch>>

TurnInv ==
  /\ PendingPermissionsHaveATask
  /\ OnlyTheActiveTurnIsCancellable
  /\ NothingPendingWhenClosed

(* Cancelling every turn leaves no request, no turn and no open channel.   *)
LEMMA AllCancelled ==
  ASSUME HandleInv, CancelAllTurns
  PROVE  /\ PendingRequests' = {}
         /\ activeTurn' = NoTurn
         /\ \A o \in Orders : cancelWatch'[o] # "open"
<1>1. \A r \in PermissionIds : permissions[r].state = "pending" =>
        permissions[r].prompt \in Orders
  BY DEF HandleInv, HandleTypeOK, PendingPermissionsHaveATask, PendingRequests
<1>2. \A r \in PermissionIds : permissions'[r].state # "pending"
  <2> SUFFICES ASSUME NEW r \in PermissionIds PROVE permissions'[r].state # "pending"
    OBVIOUS
  <2>1. permissions[r] \in Permissions
    BY DEF HandleInv, HandleTypeOK
  <2> QED
    BY <1>1, <2>1 DEF CancelAllTurns, PermissionsCancelled, Permissions
<1>3. \A o \in Orders : cancelWatch'[o] # "open"
  BY DEF HandleInv, OnlyTheActiveTurnIsCancellable, CancelAllTurns, CancelSent
<1> QED
  BY <1>2, <1>3 DEF CancelAllTurns, PendingRequests

(* Every step keeps turns, channels and requests together.                 *)
LEMMA TurnStep ==
  BoundsAssumption /\ HandleInv /\ [HandleNext]_handleVars => TurnInv'
<1> SUFFICES ASSUME BoundsAssumption, HandleInv, [HandleNext]_handleVars
             PROVE  TurnInv'
  OBVIOUS
<1>0. TurnInv /\ HandleTypeOK
  BY DEF HandleInv, TurnInv
<1> USE DEF TurnInv
<1>1. CASE UNCHANGED turnVars
  BY <1>0, <1>1 DEF turnVars, PendingPermissionsHaveATask, PendingRequests,
     OnlyTheActiveTurnIsCancellable, NothingPendingWhenClosed
<1>2. CASE SubmitUserPrompt
  BY <1>0, <1>2 DEF SubmitUserPrompt, PendingPermissionsHaveATask, PendingRequests,
     OnlyTheActiveTurnIsCancellable, NothingPendingWhenClosed
<1>3. ASSUME NEW o \in Orders, StartTurn(o) PROVE TurnInv'
  <2>1. /\ activeTurn' = [NoTurn EXCEPT !.order = o]
        /\ activeTurn'.order = o /\ ~activeTurn'.cancelled
        /\ o \in openPrompts' /\ status' = "active"
    BY <1>3 DEF StartTurn, NoTurn
  <2>2. /\ cancelWatch'[o] = "open"
        /\ \A p \in Orders : cancelWatch'[p] = "open" => p = o
    BY <1>0, <1>3 DEF StartTurn, SenderDropped, HandleTypeOK,
       OnlyTheActiveTurnIsCancellable
  <2>3. OnlyTheActiveTurnIsCancellable'
    BY <2>1, <2>2 DEF OnlyTheActiveTurnIsCancellable
  <2>4. PendingPermissionsHaveATask' /\ NothingPendingWhenClosed'
    BY <1>0, <1>3 DEF StartTurn, PendingPermissionsHaveATask, PendingRequests,
       NothingPendingWhenClosed
  <2> QED
    BY <2>3, <2>4
<1>4. ASSUME NEW o \in Orders, StreamAssistantChunk(o) PROVE TurnInv'
  <2>1. /\ activeTurn'.order = activeTurn.order
        /\ activeTurn'.cancelled = activeTurn.cancelled
        /\ status = "active"
        /\ UNCHANGED <<status, openPrompts, permissions, cancelWatch>>
    BY <1>0, <1>4 DEF StreamAssistantChunk, HandleTypeOK, Turns
  <2> QED
    BY <1>0, <2>1 DEF PendingPermissionsHaveATask, PendingRequests,
       OnlyTheActiveTurnIsCancellable, NothingPendingWhenClosed
<1>5. ASSUME NEW o \in Orders, RegisterPermissionRequest(o) PROVE TurnInv'
  BY <1>0, <1>5 DEF RegisterPermissionRequest, HandleTypeOK,
     PendingPermissionsHaveATask, PendingRequests, OnlyTheActiveTurnIsCancellable,
     NothingPendingWhenClosed
<1>6. ASSUME NEW r \in PermissionIds, NEW d \in {"approved", "denied"},
             ResolvePermission(r, d)
      PROVE  TurnInv'
  <2>1. \A s \in PermissionIds : permissions'[s].state = "pending" =>
          permissions'[s] = permissions[s]
    BY <1>0, <1>6 DEF ResolvePermission, HandleTypeOK, Permissions
  <2> QED
    BY <1>0, <1>6, <2>1 DEF ResolvePermission, PendingPermissionsHaveATask,
       PendingRequests, OnlyTheActiveTurnIsCancellable, NothingPendingWhenClosed
<1>7. CASE CancelActiveTurn
  <2>1. /\ activeTurn'.order = activeTurn.order /\ activeTurn'.cancelled
        /\ activeTurn.order \in Orders
        /\ status = "active" /\ status' = "active"
        /\ UNCHANGED openPrompts
    BY <1>0, <1>7 DEF CancelActiveTurn, HandleTypeOK, Turns
  <2>2. \A p \in Orders :
          cancelWatch'[p] = IF p = activeTurn.order THEN "cancelled" ELSE cancelWatch[p]
    BY <1>7 DEF CancelActiveTurn, CancelSent
  <2>3. \A s \in PermissionIds : permissions'[s].state = "pending" =>
          permissions'[s] = permissions[s]
    BY <1>0, <1>7 DEF CancelActiveTurn, PermissionsCancelled, HandleTypeOK, Permissions
  <2> QED
    BY <1>0, <2>1, <2>2, <2>3 DEF PendingPermissionsHaveATask, PendingRequests,
       OnlyTheActiveTurnIsCancellable, NothingPendingWhenClosed
<1>8. ASSUME NEW o \in Orders, NEW c \in Outcomes, CompletePrompt(o, c)
      PROVE  TurnInv'
  <2>1. /\ status = "active" /\ status' = "active"
        /\ openPrompts' = openPrompts \ {o}
        /\ activeTurn' = IF activeTurn.order = o THEN NoTurn ELSE activeTurn
        /\ cancelWatch' = IF activeTurn.order = o
                            THEN SenderDropped(cancelWatch, o) ELSE cancelWatch
        /\ permissions' = PermissionsCancelled({o})
    BY <1>8 DEF CompletePrompt
  <2>2. \A s \in PermissionIds : permissions'[s].state = "pending" =>
          permissions'[s] = permissions[s] /\ permissions[s].prompt # o
    BY <1>0, <2>1 DEF PermissionsCancelled, HandleTypeOK, Permissions
  <2>3. PendingPermissionsHaveATask'
    BY <1>0, <2>1, <2>2 DEF PendingPermissionsHaveATask, PendingRequests
  <2>4. OnlyTheActiveTurnIsCancellable'
    BY <1>0, <2>1 DEF OnlyTheActiveTurnIsCancellable, SenderDropped, NoTurn
  <2> QED
    BY <2>1, <2>3, <2>4 DEF NothingPendingWhenClosed
<1>9. ASSUME NEW o \in Orders, CompleteAfterClose(o) PROVE TurnInv'
  BY <1>0, <1>9 DEF CompleteAfterClose, PendingPermissionsHaveATask, PendingRequests,
     OnlyTheActiveTurnIsCancellable, NothingPendingWhenClosed, NoTurn
<1>10. CASE MarkRuntimeUnavailable \/ Close \/ PrepareDelete
  <2>1. CancelAllTurns
    BY <1>10 DEF MarkRuntimeUnavailable, Close, PrepareDelete
  <2>2. \/ status' = "active"
        \/ pendingCompletions' = [o \in Orders |-> NoCompletion]
    BY <1>10 DEF MarkRuntimeUnavailable, Close, PrepareDelete
  <2> QED
    BY <2>1, <2>2, AllCancelled DEF PendingPermissionsHaveATask,
       OnlyTheActiveTurnIsCancellable, NothingPendingWhenClosed, NoTurn,
       NoCompletion, Completion
<1>11. CASE AppendMessage
  BY <1>1, <1>11 DEF AppendMessage, turnVars
<1>12. CASE UNCHANGED handleVars
  BY <1>1, <1>12 DEF handleVars, turnVars
<1> QED
  BY <1>2, <1>3, <1>4, <1>5, <1>6, <1>7, <1>8, <1>9, <1>10, <1>11, <1>12
  DEF HandleNext

(* The inductive invariant of a session: types, the accounts of the        *)
(* answers, the requests, the turn and the closed session support each     *)
(* other under every operation of sessions/handle.rs.                      *)
THEOREM HandleInvariant == HandleSpec => []HandleInv
<1>1. HandleInit => HandleInv
  BY InvInit, BoundsAssumption
<1>2. HandleInv /\ [HandleNext]_handleVars => HandleInv'
  <2> SUFFICES ASSUME HandleInv, [HandleNext]_handleVars PROVE HandleInv'
    OBVIOUS
  <2>1. HandleTypeOK'
    BY TypeStep, BoundsAssumption DEF HandleInv
  <2>2. AnswersAccounted' /\ NoAnswerHeldBack'
    BY AnswersStep, BoundsAssumption
  <2>3. TurnInv'
    BY TurnStep, BoundsAssumption
  <2> QED
    BY <2>1, <2>2, <2>3 DEF HandleInv, TurnInv
<1> QED
  BY <1>1, <1>2, PTL DEF HandleSpec

(* No accepted prompt of an active session falls out of the accounts.      *)
THEOREM EveryAnswerAccounted == HandleSpec => []AnswersAccounted
BY HandleInvariant, PTL DEF HandleInv

(* Completions wait only for a prompt that is still with its task.         *)
THEOREM NothingHeldBack == HandleSpec => []NoAnswerHeldBack
BY HandleInvariant, PTL DEF HandleInv

(* No request waits for a user when nothing would take the answer.         *)
THEOREM RequestsHaveATask == HandleSpec => []PendingPermissionsHaveATask
BY HandleInvariant, PTL DEF HandleInv

(* The turn a user cancels and the channel its task listens to agree.      *)
THEOREM OneCancellableTurn == HandleSpec => []OnlyTheActiveTurnIsCancellable
BY HandleInvariant, PTL DEF HandleInv

(* A closed session has nothing left to resolve, cancel or drain.          *)
THEOREM ClosedIsQuiet == HandleSpec => []NothingPendingWhenClosed
BY HandleInvariant, PTL DEF HandleInv

-----------------------------------------------------------------------------
(* Closing is final: no operation changes a closed session's status, its   *)
(* messages, its sequence number or the answers it released.               *)
THEOREM ClosingIsFinal == HandleSpec => ClosedIsFinal
<1> DEFINE Final == status = "closed" =>
                      /\ status' = "closed"
                      /\ UNCHANGED <<messages, latestSequence, published>>
<1>1. [HandleNext]_handleVars => [Final]_handleVars
  <2> SUFFICES ASSUME HandleNext, status = "closed" PROVE Final
    OBVIOUS
  <2>1. \/ \E o \in Orders : CompleteAfterClose(o)
        \/ PrepareDelete
    BY DEF HandleNext, SubmitUserPrompt, StartTurn, StreamAssistantChunk,
       RegisterPermissionRequest, ResolvePermission, CancelActiveTurn,
       CompletePrompt, MarkRuntimeUnavailable, Close, AppendMessage
  <2> QED
    BY <2>1 DEF CompleteAfterClose, PrepareDelete
<1> QED
  BY <1>1, PTL DEF HandleSpec, ClosedIsFinal

-----------------------------------------------------------------------------
(* The cancelled turn.                                                     *)

(* Every message was introduced by an event of the session; what a turn    *)
(* or a waiting completion takes for its streamed message belongs to its   *)
(* own prompt; and no turn means no cancelled turn.                        *)
MessagesHaveAnOwner ==
  /\ \A m \in messages : 0 < m.id /\ m.id <= latestSequence
  /\ activeTurn.message <= latestSequence
  /\ \A m \in messages : m.id = activeTurn.message => m.prompt = activeTurn.order
  /\ \A o \in Orders :
       /\ pendingCompletions[o].message <= latestSequence
       /\ \A m \in messages : m.id = pendingCompletions[o].message => m.prompt = o
  /\ activeTurn.cancelled => activeTurn.order # NoOrder

(* The invariant with the owners of the messages.                          *)
MuteInv == HandleInv /\ MessagesHaveAnOwner

(* The message a completion carries is a natural number, as every id.      *)
LEMMA CompletionMessage ==
  ASSUME NEW c \in Completions
  PROVE  c.message \in Nat
BY DEF Completions, Answers, NoCompletion, Completion, NoMessage

(* A completion takes the streamed message it is given, whatever its kind. *)
LEMMA TakesTheStreamedMessage ==
  ASSUME NEW completion \in Outcomes, NEW message \in Nat
  PROVE  WithStreamedMessage(completion, message).message = message
BY DEF WithStreamedMessage, Outcomes, Completion, NoMessage

(* A pushed reply is counted by the sequence number it gets, and the       *)
(* number reached in the end counts it too.                                *)
LEMMA PushedIdsAreNew ==
  ASSUME latestSequence \in Nat, NEW pending, NEW first \in Int, NEW last \in Int,
         NEW o \in first .. last, pending[o].kind = "reply"
  PROVE  /\ latestSequence < SequenceAfter(pending, first, o)
         /\ SequenceAfter(pending, first, o) <= SequenceAfter(pending, first, last)
<1> DEFINE upTo == EventSlots(pending, first, o)
           slots == EventSlots(pending, first, last)
<1>1. IsFiniteSet((first .. last) \X (1 .. 2))
  <2>1. IsFiniteSet(first .. last)
    BY FS_Interval
  <2>2. IsFiniteSet(1 .. 2)
    <3>1. 1 \in Int /\ 2 \in Int
      OBVIOUS
    <3> QED
      BY <3>1, FS_Interval, Zenon
  <2> QED
    BY <2>1, <2>2, FS_Product
<1>2. slots \in SUBSET ((first .. last) \X (1 .. 2)) /\ upTo \in SUBSET slots
  BY DEF EventSlots
<1>3. IsFiniteSet(slots)
  BY <1>1, <1>2, FS_Subset
<1>4. IsFiniteSet(upTo) /\ Cardinality(upTo) <= Cardinality(slots)
  BY <1>2, <1>3, FS_Subset
<1>5. <<o, 1>> \in upTo
  BY DEF EventSlots, EventCount
<1>6. Cardinality(upTo) \in Nat /\ Cardinality(slots) \in Nat
  BY <1>3, <1>4, FS_CardinalityType
<1>7. Cardinality(upTo) # 0
  BY <1>4, <1>5, FS_EmptySet
<1> QED
  BY <1>4, <1>6, <1>7 DEF SequenceAfter

(* A correction keeps a message's id and its prompt.                       *)
LEMMA CorrectionKeepsTheOwner ==
  ASSUME NEW m \in Messages, NEW drained, NEW pending
  PROVE  /\ Corrected(m, drained, pending).id = m.id
         /\ Corrected(m, drained, pending).prompt = m.prompt
BY DEF Corrected, Messages

(* What a completion does to the messages: those there are corrected, and  *)
(* the new ones are of the prompts that are drained.                       *)
LEMMA DrainedMessages ==
  ASSUME BoundsAssumption, HandleInv, status = "active",
         NEW order \in openPrompts, NEW c \in Completions, c.kind # "absent",
         Drain([pendingCompletions EXCEPT ![order] = c])
  PROVE  LET pending == [pendingCompletions EXCEPT ![order] = c]
             drained == nextCompletionOrder .. nextCompletionOrder' - 1 IN
         /\ drained \subseteq Orders
         /\ \A o \in drained : pending[o].kind # "absent"
         /\ \A o \in Orders : pendingCompletions'[o] =
              IF o \in drained THEN NoCompletion ELSE pending[o]
         /\ latestSequence' \in Nat /\ latestSequence <= latestSequence'
         /\ \A n \in messages' :
              \/ \E m \in messages : n = Corrected(m, drained, pending)
              \/ /\ n.prompt \in drained
                 /\ latestSequence < n.id /\ n.id <= latestSequence'
         /\ \A m \in messages : Corrected(m, drained, pending) \in messages'
<1> DEFINE pending == [pendingCompletions EXCEPT ![order] = c]
           drained == nextCompletionOrder .. nextCompletionOrder' - 1
<1>1. PICK gap \in nextCompletionOrder .. MaxPrompts :
        /\ \A o \in nextCompletionOrder .. gap - 1 : pending[o].kind # "absent"
        /\ nextCompletionOrder' = gap
        /\ pendingCompletions' = [o \in Orders |->
             IF o \in nextCompletionOrder .. gap - 1 THEN NoCompletion ELSE pending[o]]
        /\ latestSequence' = SequenceAfter(pending, nextCompletionOrder, gap - 1)
        /\ messages' =
             {Corrected(m, nextCompletionOrder .. gap - 1, pending) : m \in messages}
               \cup {Message(SequenceAfter(pending, nextCompletionOrder, o),
                             "assistant", o, pending[o].text) :
                       o \in {d \in nextCompletionOrder .. gap - 1 :
                                PushesMessage(pending[d])}}
  BY DEF Drain
<1>2. /\ nextCompletionOrder \in Int /\ gap - 1 \in Int /\ latestSequence \in Nat
      /\ drained = nextCompletionOrder .. gap - 1 /\ drained \subseteq Orders
  BY <1>1 DEF HandleInv, HandleTypeOK, Orders, BoundsAssumption
<1> HIDE DEF pending
<1>3. latestSequence' \in Nat /\ latestSequence <= latestSequence'
  BY <1>1, <1>2, SequenceAfterType
<1>4. ASSUME NEW o \in drained, PushesMessage(pending[o])
      PROVE  /\ latestSequence < SequenceAfter(pending, nextCompletionOrder, o)
             /\ SequenceAfter(pending, nextCompletionOrder, o) <= latestSequence'
  BY <1>1, <1>2, <1>4, PushedIdsAreNew DEF PushesMessage
<1>5. \A n \in messages' :
        \/ \E m \in messages : n = Corrected(m, drained, pending)
        \/ /\ n.prompt \in drained
           /\ latestSequence < n.id /\ n.id <= latestSequence'
  BY <1>1, <1>2, <1>4 DEF Message
<1>6. \A m \in messages : Corrected(m, drained, pending) \in messages'
  BY <1>1, <1>2
<1>7. \A o \in drained : pending[o].kind # "absent"
  BY <1>1, <1>2
<1>8. \A o \in Orders : pendingCompletions'[o] =
        IF o \in drained THEN NoCompletion ELSE pending[o]
  BY <1>1, <1>2
<1> QED
  BY <1>2, <1>3, <1>5, <1>6, <1>7, <1>8 DEF pending

(* New and restored sessions know the owners of their messages.            *)
LEMMA OwnersInit == BoundsAssumption /\ HandleInit => MessagesHaveAnOwner
<1> SUFFICES ASSUME BoundsAssumption, HandleInit PROVE MessagesHaveAnOwner
  OBVIOUS
<1>1. latestSequence \in Nat /\ nextPromptOrder \in Nat /\ latestSequence = nextPromptOrder
  BY TypeInit DEF HandleTypeOK, HandleInit, BoundsAssumption
<1>2. \A m \in messages : 0 < m.id /\ m.id <= latestSequence
  BY <1>1 DEF HandleInit, Message
<1>3. \A o \in Orders : pendingCompletions[o].message = 0
  BY DEF HandleInit, NoCompletion, Completion, NoMessage
<1>4. activeTurn.message = 0 /\ ~activeTurn.cancelled
  BY DEF HandleInit, NoTurn, NoMessage
<1> QED
  BY <1>1, <1>2, <1>3, <1>4 DEF MessagesHaveAnOwner

(* No operation gives a message of one prompt to another.                  *)
LEMMA OwnersStep ==
  ASSUME BoundsAssumption, MuteInv, [HandleNext]_handleVars
  PROVE  MessagesHaveAnOwner'
<1>0. /\ HandleTypeOK /\ MessagesHaveAnOwner
      /\ latestSequence \in Nat /\ messages \subseteq Messages
      /\ activeTurn \in Turns
      /\ pendingCompletions \in [Orders -> Completions]
      /\ \A m \in messages : m.id \in Nat
      /\ activeTurn.message \in Nat
      /\ \A o \in Orders : pendingCompletions[o].message \in Nat
  <2>1. HandleTypeOK /\ MessagesHaveAnOwner
    BY DEF MuteInv, HandleInv
  <2> QED
    BY <2>1, CompletionMessage DEF HandleTypeOK, Messages, Turns
<1>1. NoTurn.message = 0 /\ NoTurn.cancelled = FALSE /\ NoCompletion.message = 0
  BY DEF NoTurn, NoCompletion, Completion, NoMessage
<1>2. CASE SubmitUserPrompt
  <2> DEFINE new == Message(latestSequence + 1, "user", nextPromptOrder, 0)
  <2>1. new.id = latestSequence + 1
    BY DEF Message
  <2> HIDE DEF new
  <2>2. /\ messages' = messages \cup {new}
        /\ latestSequence' = latestSequence + 1
        /\ UNCHANGED <<activeTurn, pendingCompletions>>
    BY <1>2 DEF SubmitUserPrompt, new
  <2> QED
    BY <1>0, <2>1, <2>2 DEF MessagesHaveAnOwner
<1>3. ASSUME NEW o \in Orders, StartTurn(o) PROVE MessagesHaveAnOwner'
  <2>1. activeTurn'.message = 0 /\ ~activeTurn'.cancelled
    BY <1>3 DEF StartTurn, NoTurn, NoMessage
  <2>2. UNCHANGED <<messages, latestSequence, pendingCompletions>>
    BY <1>3 DEF StartTurn
  <2> QED
    BY <1>0, <2>1, <2>2 DEF MessagesHaveAnOwner
<1>4. ASSUME NEW o \in Orders, StreamAssistantChunk(o) PROVE MessagesHaveAnOwner'
  <2>1. /\ latestSequence' = latestSequence + 1 /\ UNCHANGED pendingCompletions
        /\ activeTurn.order = o /\ o # NoOrder /\ ~activeTurn.cancelled
    BY <1>4 DEF StreamAssistantChunk, AcceptsOutput, Orders, NoOrder
  <2>2. CASE HasAssistantMessage(activeTurn.message)
    <3>1. /\ messages' = {IF m.id = activeTurn.message
                            THEN [m EXCEPT !.text = @ + 1] ELSE m : m \in messages}
          /\ UNCHANGED activeTurn
      BY <1>4, <2>2 DEF StreamAssistantChunk
    <3>2. \A m \in messages : /\ [m EXCEPT !.text = @ + 1].id = m.id
                              /\ [m EXCEPT !.text = @ + 1].prompt = m.prompt
      BY <1>0 DEF Messages
    <3>3. \A n \in messages' : \E m \in messages : n.id = m.id /\ n.prompt = m.prompt
      BY <3>1, <3>2
    <3> QED
      BY <1>0, <2>1, <3>1, <3>3 DEF MessagesHaveAnOwner
  <2>3. CASE ~HasAssistantMessage(activeTurn.message)
    <3> DEFINE new == Message(latestSequence + 1, "assistant", o, 1)
    <3>1. new.id = latestSequence + 1 /\ new.prompt = o
      BY DEF Message
    <3> HIDE DEF new
    <3>2. /\ messages' = messages \cup {new}
          /\ activeTurn' = [activeTurn EXCEPT !.message = latestSequence + 1]
      BY <1>4, <2>3 DEF StreamAssistantChunk, new
    <3>3. /\ activeTurn'.message = latestSequence + 1
          /\ activeTurn'.order = o /\ ~activeTurn'.cancelled
      BY <1>0, <2>1, <3>2 DEF Turns
    <3> QED
      BY <1>0, <2>1, <3>1, <3>2, <3>3 DEF MessagesHaveAnOwner
  <2> QED
    BY <2>2, <2>3
<1>5. ASSUME NEW o \in Orders, RegisterPermissionRequest(o) PROVE MessagesHaveAnOwner'
  BY <1>0, <1>5 DEF RegisterPermissionRequest, MessagesHaveAnOwner
<1>6. ASSUME NEW r \in PermissionIds, NEW d \in {"approved", "denied"},
             ResolvePermission(r, d)
      PROVE  MessagesHaveAnOwner'
  BY <1>0, <1>6 DEF ResolvePermission, MessagesHaveAnOwner
<1>7. CASE CancelActiveTurn
  <2>1. /\ activeTurn'.order = activeTurn.order /\ activeTurn.order # NoOrder
        /\ activeTurn'.message = activeTurn.message
        /\ UNCHANGED <<messages, latestSequence, pendingCompletions>>
    BY <1>0, <1>7 DEF CancelActiveTurn, Turns
  <2> QED
    BY <1>0, <2>1 DEF MessagesHaveAnOwner
<1>8. ASSUME NEW o \in Orders, NEW outcome \in Outcomes, CompletePrompt(o, outcome)
      PROVE  MessagesHaveAnOwner'
  <2> DEFINE c == WithStreamedMessage(outcome, StreamedMessage(o))
             pending == [pendingCompletions EXCEPT ![o] = c]
             drained == nextCompletionOrder .. nextCompletionOrder' - 1
  <2>1. StreamedMessage(o) \in Nat
    BY <1>0 DEF StreamedMessage, NoMessage
  <2>2. c \in Completions /\ c.kind # "absent" /\ c.message = StreamedMessage(o)
    BY <2>1, WithStreamedMessageType, TakesTheStreamedMessage
  <2>3. c.message <= latestSequence /\ \A m \in messages : m.id = c.message => m.prompt = o
    BY <1>0, <2>2 DEF StreamedMessage, MessagesHaveAnOwner, NoMessage
  <2>4. /\ o \in openPrompts /\ status = "active" /\ Drain(pending)
        /\ activeTurn' = IF activeTurn.order = o THEN NoTurn ELSE activeTurn
    BY <1>8 DEF CompletePrompt
  <2> HIDE DEF c
  <2>5. /\ \A p \in Orders : pendingCompletions'[p] =
             IF p \in drained THEN NoCompletion ELSE pending[p]
        /\ latestSequence' \in Nat /\ latestSequence <= latestSequence'
        /\ \A n \in messages' :
             \/ \E m \in messages : n = Corrected(m, drained, pending)
             \/ /\ n.prompt \in drained
                /\ latestSequence < n.id /\ n.id <= latestSequence'
    BY <2>2, <2>4, DrainedMessages DEF MuteInv
  <2>6. \A p \in Orders : /\ pending[p].message \in Nat
                          /\ pending[p].message <= latestSequence
                          /\ \A m \in messages : m.id = pending[p].message => m.prompt = p
    BY <1>0, <2>2, <2>3, CompletionMessage DEF MessagesHaveAnOwner
  <2> HIDE DEF pending, drained
  <2>7. \A n \in messages' :
          \/ \E m \in messages : n.id = m.id /\ n.prompt = m.prompt
          \/ latestSequence < n.id /\ n.id <= latestSequence'
    BY <1>0, <2>5, CorrectionKeepsTheOwner
  <2>8. \A n \in messages' : n.id \in Nat
    BY TypeStep DEF MuteInv, HandleInv, HandleTypeOK, Messages
  <2>9. \A n \in messages' : 0 < n.id /\ n.id <= latestSequence'
    BY <1>0, <2>5, <2>7, <2>8 DEF MessagesHaveAnOwner
  <2>10. \A p \in Orders :
           /\ pendingCompletions'[p].message <= latestSequence'
           /\ \A n \in messages' : n.id = pendingCompletions'[p].message => n.prompt = p
    <3> SUFFICES ASSUME NEW p \in Orders
                 PROVE  /\ pendingCompletions'[p].message <= latestSequence'
                        /\ \A n \in messages' :
                             n.id = pendingCompletions'[p].message => n.prompt = p
      OBVIOUS
    <3>1. CASE p \in drained
      BY <1>1, <2>5, <2>9, <3>1
    <3>2. CASE p \notin drained
      <4>1. pendingCompletions'[p] = pending[p]
        BY <2>5, <3>2
      <4> QED
        BY <1>0, <2>5, <2>6, <2>7, <2>8, <4>1
    <3> QED
      BY <3>1, <3>2
  <2>11. /\ activeTurn'.message <= latestSequence'
         /\ \A n \in messages' : n.id = activeTurn'.message => n.prompt = activeTurn'.order
         /\ activeTurn'.cancelled => activeTurn'.order # NoOrder
    <3>1. CASE activeTurn.order = o
      BY <1>1, <2>4, <2>5, <2>9, <3>1
    <3>2. CASE activeTurn.order # o
      BY <1>0, <2>4, <2>5, <2>7, <2>8, <3>2 DEF MessagesHaveAnOwner
    <3> QED
      BY <3>1, <3>2
  <2> QED
    BY <2>9, <2>10, <2>11 DEF MessagesHaveAnOwner
<1>9. ASSUME NEW o \in Orders, CompleteAfterClose(o) PROVE MessagesHaveAnOwner'
  BY <1>0, <1>9 DEF CompleteAfterClose, MessagesHaveAnOwner
<1>10. CASE MarkRuntimeUnavailable \/ Close \/ PrepareDelete
  <2>1. /\ activeTurn' = NoTurn /\ UNCHANGED messages
        /\ latestSequence' \in {latestSequence, latestSequence + 1}
        /\ \/ UNCHANGED pendingCompletions
           \/ pendingCompletions' = [o \in Orders |-> NoCompletion]
    BY <1>10 DEF MarkRuntimeUnavailable, Close, PrepareDelete, CancelAllTurns
  <2>2. \A o \in Orders : \/ pendingCompletions'[o].message = pendingCompletions[o].message
                          \/ pendingCompletions'[o].message = 0
    BY <1>1, <2>1
  <2> QED
    BY <1>0, <1>1, <2>1, <2>2 DEF MessagesHaveAnOwner
<1>11. CASE AppendMessage
  <2> DEFINE new == Message(latestSequence + 1, "assistant", NoOrder, 1)
  <2>1. new.id = latestSequence + 1
    BY DEF Message
  <2> HIDE DEF new
  <2>2. /\ messages' = messages \cup {new}
        /\ latestSequence' = latestSequence + 1
        /\ UNCHANGED <<activeTurn, pendingCompletions>>
    BY <1>11 DEF AppendMessage, new
  <2> QED
    BY <1>0, <2>1, <2>2 DEF MessagesHaveAnOwner
<1>12. CASE UNCHANGED handleVars
  BY <1>0, <1>12 DEF handleVars, MessagesHaveAnOwner
<1> QED
  BY <1>2, <1>3, <1>4, <1>5, <1>6, <1>7, <1>8, <1>9, <1>10, <1>11, <1>12
  DEF HandleNext

(* The owners of messages are part of what every operation keeps.          *)
THEOREM MuteInvariant == HandleSpec => []MuteInv
<1>1. HandleInit => MessagesHaveAnOwner
  BY OwnersInit, BoundsAssumption
<1>2. HandleInv /\ MessagesHaveAnOwner /\ [HandleNext]_handleVars => MessagesHaveAnOwner'
  BY OwnersStep, BoundsAssumption DEF MuteInv
<1> QED
  BY <1>1, <1>2, HandleInvariant, PTL DEF HandleSpec, MuteInv

(* The messages of a prompt whose turn is the active one and cancelled.    *)
LEMMA MuteStep ==
  ASSUME BoundsAssumption, MuteInv, [HandleNext]_handleVars,
         activeTurn.cancelled, activeTurn'.order = activeTurn.order
  PROVE  /\ activeTurn'.cancelled
         /\ {m \in messages' : m.prompt = activeTurn.order} =
            {m \in messages : m.prompt = activeTurn.order}
<1> DEFINE t == activeTurn.order
           Mute == /\ activeTurn'.cancelled
                   /\ {m \in messages' : m.prompt = t} = {m \in messages : m.prompt = t}
<1>0. /\ HandleTypeOK /\ MessagesHaveAnOwner /\ AnswersAccounted
      /\ activeTurn \in Turns /\ messages \subseteq Messages
      /\ status = "active" /\ t \in Orders /\ t \in Int /\ t # NoOrder
      /\ t \in openPrompts /\ cancelWatch[t] = "cancelled"
  <2>1. HandleTypeOK /\ MessagesHaveAnOwner /\ AnswersAccounted
    BY DEF MuteInv, HandleInv
  <2>2. activeTurn \in Turns /\ messages \subseteq Messages /\ t # NoOrder
    BY <2>1 DEF HandleTypeOK, MessagesHaveAnOwner
  <2>3. t \in Orders /\ t \in openPrompts /\ cancelWatch[t] = "cancelled"
    BY <2>2 DEF MuteInv, HandleInv, OnlyTheActiveTurnIsCancellable, Turns
  <2>4. status = "active"
    BY <2>1, <2>2 DEF MuteInv, HandleInv, NothingPendingWhenClosed, HandleTypeOK, NoTurn
  <2> QED
    BY <2>1, <2>2, <2>3, <2>4 DEF Orders
<1>1. ASSUME UNCHANGED <<activeTurn, messages>> PROVE Mute
  BY <1>1
<1>2. CASE SubmitUserPrompt
  <2>1. nextPromptOrder # t
    BY <1>0 DEF AnswersAccounted, HandleTypeOK
  <2> QED
    BY <1>2, <2>1 DEF SubmitUserPrompt, Message
<1>3. ASSUME NEW o \in Orders, StartTurn(o) PROVE Mute
  <2>1. activeTurn'.order = o /\ cancelWatch[o] = "none"
    BY <1>3 DEF StartTurn, NoTurn
  <2> QED
    BY <1>0, <2>1
<1>4. ASSUME NEW o \in Orders, StreamAssistantChunk(o) \/ RegisterPermissionRequest(o)
      PROVE  Mute
  BY <1>4 DEF StreamAssistantChunk, RegisterPermissionRequest, AcceptsOutput
<1>5. ASSUME NEW r \in PermissionIds, NEW d \in {"approved", "denied"},
             ResolvePermission(r, d)
      PROVE  Mute
  BY <1>5 DEF ResolvePermission
<1>6. CASE CancelActiveTurn
  BY <1>0, <1>6 DEF CancelActiveTurn, Turns
<1>7. ASSUME NEW o \in Orders, NEW outcome \in Outcomes, CompletePrompt(o, outcome)
      PROVE  Mute
  <2> DEFINE c == WithStreamedMessage(outcome, StreamedMessage(o))
             pending == [pendingCompletions EXCEPT ![o] = c]
             drained == nextCompletionOrder .. nextCompletionOrder' - 1
  <2>1. /\ o \in openPrompts /\ Drain(pending)
        /\ activeTurn' = IF t = o THEN NoTurn ELSE activeTurn
    BY <1>7 DEF CompletePrompt
  <2>2. t # o /\ UNCHANGED activeTurn
    BY <1>0, <2>1 DEF NoTurn
  <2>3. StreamedMessage(o) = 0
    BY <2>2 DEF StreamedMessage, NoMessage
  <2>4. c \in Completions /\ c.kind # "absent" /\ c.message = 0
    BY <2>3, WithStreamedMessageType, TakesTheStreamedMessage
  <2> HIDE DEF c
  <2>5. /\ drained \subseteq Orders
        /\ \A p \in drained : pending[p].kind # "absent"
        /\ \A n \in messages' :
             \/ \E m \in messages : n = Corrected(m, drained, pending)
             \/ n.prompt \in drained
        /\ \A m \in messages : Corrected(m, drained, pending) \in messages'
    BY <1>0, <2>1, <2>4, DrainedMessages, ZenonT(60) DEF MuteInv
  <2>6. pendingCompletions[t].kind = "absent"
    BY <1>0 DEF AnswersAccounted
  <2>7. t \notin drained
    BY <1>0, <2>2, <2>5, <2>6 DEF HandleTypeOK
  <2>8. \A p \in drained, m \in messages : m.prompt = t => pending[p].message # m.id
    BY <1>0, <2>4, <2>5, <2>7 DEF MessagesHaveAnOwner, HandleTypeOK
  <2>9. \A m \in messages : m.prompt = t => Corrected(m, drained, pending) = m
    BY <2>8 DEF Corrected
  <2>10. \A m \in messages : Corrected(m, drained, pending).prompt = m.prompt
    BY <1>0, CorrectionKeepsTheOwner
  <2> QED
    BY <2>2, <2>5, <2>7, <2>9, <2>10
<1>8. ASSUME NEW o \in Orders, CompleteAfterClose(o) PROVE Mute
  BY <1>8 DEF CompleteAfterClose
<1>9. CASE MarkRuntimeUnavailable \/ Close \/ PrepareDelete
  BY <1>0, <1>9 DEF MarkRuntimeUnavailable, Close, PrepareDelete, CancelAllTurns, NoTurn
<1>10. CASE AppendMessage
  BY <1>0, <1>10 DEF AppendMessage, Message
<1>11. CASE UNCHANGED handleVars
  BY <1>11 DEF handleVars
<1> QED
  BY <1>1, <1>2, <1>3, <1>4, <1>5, <1>6, <1>7, <1>8, <1>9, <1>10, <1>11
  DEF HandleNext

(* Once a turn is cancelled nothing of its prompt is added to or changed   *)
(* in the transcript while it stays the active turn, and nothing revives   *)
(* it: the completions of other prompts neither push nor correct one of    *)
(* its messages.                                                           *)
THEOREM CancelledTurnsAreMute == HandleSpec => CancelledTurnIsMute
<1>1. MuteInv /\ [HandleNext]_handleVars =>
        [activeTurn.cancelled /\ activeTurn'.order = activeTurn.order =>
           /\ activeTurn'.cancelled
           /\ {m \in messages' : m.prompt = activeTurn.order} =
              {m \in messages : m.prompt = activeTurn.order}]_handleVars
  BY MuteStep, BoundsAssumption
<1> QED
  BY <1>1, MuteInvariant, PTL DEF HandleSpec, CancelledTurnIsMute

-----------------------------------------------------------------------------
(* The refinement of AnswerLedger.                                         *)

(* A new or restored session starts as a ledger with its prompts answered. *)
LEMMA LedgerInit == BoundsAssumption /\ HandleInit => Ledger!Init
<1> SUFFICES ASSUME BoundsAssumption, HandleInit PROVE Ledger!Init
  OBVIOUS
<1>1. HandleInv
  BY InvInit
<1>2. /\ nextCompletionOrder = nextPromptOrder
      /\ nextPromptOrder \in 0 .. MaxPrompts
      /\ published = [o \in Orders |-> IF o < nextPromptOrder
                                         THEN Completion("restored", 0)
                                         ELSE NoCompletion]
  BY <1>1 DEF HandleInit, HandleInv, HandleTypeOK
<1>3. /\ Completion("restored", 0) \in Answers
      /\ Completion("restored", 0) # NoCompletion
  BY DEF Completion, Answers, NoCompletion, NoMessage
<1>4. \A o \in Orders : o \in Int
  BY DEF Orders
<1>5. published \in [Orders -> Answers \cup {NoCompletion}]
  BY <1>2, <1>3
<1>6. \A o \in Orders : published[o] = NoCompletion <=> nextCompletionOrder <= o
  BY <1>2, <1>3, <1>4
<1> QED
  BY <1>2, <1>5, <1>6 DEF Ledger!Init, Ledger!Prompts, Orders

(* complete_prompt releases the answers next in line, or changes nothing a *)
(* reader sees.                                                            *)
LEMMA CompletionReleases ==
  ASSUME BoundsAssumption, HandleInv, HandleTypeOK',
         NEW order \in Orders, NEW outcome \in Outcomes,
         CompletePrompt(order, outcome)
  PROVE  Ledger!Release \/ UNCHANGED Ledger!ledgerVars
<1> DEFINE c == WithStreamedMessage(outcome, StreamedMessage(order))
           next == nextCompletionOrder'
           pending == [pendingCompletions EXCEPT ![order] = c]
<1>1. /\ order \in openPrompts /\ status = "active" /\ status' = status
      /\ nextPromptOrder' = nextPromptOrder
      /\ Drain(pending)
  BY DEF CompletePrompt
<1>2. c \in Completions /\ c.kind # "absent"
  <2>1. StreamedMessage(order) \in Nat
    BY DEF StreamedMessage, HandleInv, HandleTypeOK, Turns, NoMessage
  <2> QED
    BY <2>1, WithStreamedMessageType
<1> HIDE DEF c
<1>3. /\ next \in nextCompletionOrder .. nextPromptOrder
      /\ \A o \in Orders :
           IF o \in nextCompletionOrder .. next - 1
             THEN /\ pending[o].kind # "absent"
                  /\ published'[o] = pending[o]
             ELSE published'[o] = published[o]
  BY <1>1, <1>2, DrainFacts DEF HandleInv
<1>4. /\ published \in [Orders -> Completions]
      /\ published' \in [Orders -> Completions]
      /\ nextCompletionOrder \in Int /\ nextPromptOrder \in Int /\ next \in Int
  BY <1>1, <1>3 DEF HandleInv, HandleTypeOK
<1>5. NoCompletion.kind = "absent" /\ NoCompletion \in Completions
  BY DEF NoCompletion, Completion, Completions, Answers, NoMessage
<1> HIDE DEF pending
<1>6. CASE next = nextCompletionOrder
  <2>1. \A o \in Orders : o \notin nextCompletionOrder .. next - 1
    BY <1>4, <1>6, BelowInterval DEF Orders
  <2>2. \A o \in Orders : published'[o] = published[o]
    BY <1>3, <2>1
  <2>3. published' = published
    BY <1>4, <2>2
  <2> QED
    BY <1>1, <1>6, <2>3 DEF Ledger!ledgerVars
<1>7. CASE next # nextCompletionOrder
  <2>1. next \in nextCompletionOrder + 1 .. nextPromptOrder
    BY <1>3, <1>4, <1>7
  <2>2. \A o \in Orders :
          IF o \in nextCompletionOrder .. next - 1
            THEN published'[o] # NoCompletion
            ELSE published'[o] = published[o]
    BY <1>3, <1>5
  <2> QED
    BY <1>1, <1>4, <2>1, <2>2 DEF Ledger!Release, Ledger!Prompts, Orders, Completions
<1> QED
  BY <1>6, <1>7

(* Every operation is a step of the ledger or leaves it as it is.          *)
LEMMA LedgerStep ==
  BoundsAssumption /\ HandleInv /\ HandleTypeOK' /\ [HandleNext]_handleVars
    => [Ledger!Next]_Ledger!ledgerVars
<1> SUFFICES ASSUME BoundsAssumption, HandleInv, HandleTypeOK', [HandleNext]_handleVars
             PROVE  Ledger!Next \/ UNCHANGED Ledger!ledgerVars
  BY DEF Ledger!ledgerVars
<1>1. CASE UNCHANGED answerVars
  BY <1>1 DEF answerVars, Ledger!ledgerVars
<1>2. CASE SubmitUserPrompt
  BY <1>2 DEF SubmitUserPrompt, Ledger!Next, Ledger!Accept
<1>3. ASSUME NEW o \in Orders, NEW c \in Outcomes, CompletePrompt(o, c)
      PROVE  Ledger!Next \/ UNCHANGED Ledger!ledgerVars
  BY <1>3, CompletionReleases DEF Ledger!Next
<1>4. ASSUME NEW o \in Orders, CompleteAfterClose(o)
      PROVE  UNCHANGED Ledger!ledgerVars
  BY <1>4 DEF CompleteAfterClose, Ledger!ledgerVars
<1>5. CASE Close \/ PrepareDelete
  <2>1. /\ status' = "closed"
        /\ UNCHANGED <<nextPromptOrder, nextCompletionOrder, published>>
    BY <1>5 DEF Close, PrepareDelete
  <2> QED
    BY <2>1 DEF Ledger!Next, Ledger!Close, Ledger!ledgerVars
<1>6. ASSUME NEW o \in Orders,
             \/ StartTurn(o)
             \/ StreamAssistantChunk(o)
             \/ RegisterPermissionRequest(o)
      PROVE  UNCHANGED answerVars
  BY <1>6 DEF StartTurn, StreamAssistantChunk, RegisterPermissionRequest, answerVars
<1>7. ASSUME NEW r \in PermissionIds, NEW d \in {"approved", "denied"},
             ResolvePermission(r, d)
      PROVE  UNCHANGED answerVars
  BY <1>7 DEF ResolvePermission, answerVars
<1>8. CASE CancelActiveTurn \/ MarkRuntimeUnavailable \/ AppendMessage
  BY <1>1, <1>8 DEF CancelActiveTurn, MarkRuntimeUnavailable, AppendMessage, answerVars
<1>9. CASE UNCHANGED handleVars
  BY <1>1, <1>9 DEF handleVars, answerVars
<1> QED
  BY <1>1, <1>2, <1>3, <1>4, <1>5, <1>6, <1>7, <1>8, <1>9 DEF HandleNext

(* A session implements the ledger of prompts and answers: every step of   *)
(* its turns, tasks and waiting completions accepts a prompt, releases     *)
(* answers in prompt order, closes, or changes nothing a reader sees.      *)
THEOREM SessionImplementsLedger == HandleSpec => ImplementsLedger
<1>1. HandleInit => Ledger!Init
  BY LedgerInit, BoundsAssumption
<1>2. HandleInv /\ HandleTypeOK' /\ [HandleNext]_handleVars
        => [Ledger!Next]_Ledger!ledgerVars
  BY LedgerStep, BoundsAssumption
<1> QED
  BY <1>1, <1>2, HandleInvariant, HandleTypeCorrect, PTL
  DEF HandleSpec, ImplementsLedger, Ledger!Spec

-----------------------------------------------------------------------------
(* The tasks.                                                              *)

(* What a returned roundtrip leaves for its task is a completion the       *)
(* session knows, and a reply is not empty.                                *)
ResultsAreOutcomes ==
  \A o \in Orders : stage[o] = "finished" =>
    /\ result[o] \in {"reply", "status", "none"}
    /\ result[o] = "reply" => collected[o] # 0

(* A prompt that was not yet accepted has no task.                         *)
LaterPromptsAreIdle ==
  \A o \in Orders : nextPromptOrder <= o => stage[o] = "idle"

(* The inductive invariant of the tasks.                                   *)
TaskInv ==
  /\ HandleInv
  /\ TaskTypeOK
  /\ EachPromptHasOneTask
  /\ RunningRoundtripOwnsTheTurn
  /\ ResultsAreOutcomes
  /\ LaterPromptsAreIdle

(* The steps that move one task along without touching the session.        *)
Quiet(o) ==
  \/ Dispatch(o) \/ ClientDisconnects(o) \/ AcquireLock(o)
  \/ SendPrompt(o) \/ CollectChunk(o) \/ NoticeCancel(o)
  \/ \E s \in {"answered", "stopped"} : AgentResponds(o, s)

(* The steps that end a roundtrip.                                         *)
Ends(o) ==
  CancelledBeforePrompt(o) \/ ReturnReply(o) \/ ReturnCancelled(o) \/ Fail(o)

(* The requests of the users and the restored session's lost runtime.      *)
Request ==
  \/ UserCancels
  \/ \E r \in PermissionIds, d \in {"approved", "denied"} : UserDecides(r, d)
  \/ UserCloses \/ UserDeletes \/ RuntimeIsLost \/ HintArrives

(* The steps of the whole, by what they do to the session and the tasks.   *)
LEMMA StepsByKind ==
  ASSUME [Next]_vars
  PROVE  \/ Submit
         \/ \E o \in Orders : Quiet(o)
         \/ \E o \in Orders : Ends(o)
         \/ \E o \in Orders : BeginTurn(o)
         \/ \E o \in Orders : ForwardChunk(o)
         \/ \E o \in Orders : AskPermission(o)
         \/ \E o \in Orders : Complete(o)
         \/ Request
         \/ UNCHANGED vars
BY DEF Next, TaskStep, Quiet, Ends, Request

(* A returned result is one of the completions a task may deliver.         *)
LEMMA OutcomeIsKnown ==
  ASSUME BoundsAssumption, TaskInv, NEW o \in Orders, stage[o] = "finished"
  PROVE  Outcome(o) \in Outcomes
<1>1. /\ result[o] \in {"reply", "status", "none"}
      /\ result[o] = "reply" => collected[o] \in 1 .. MaxChunks
  BY DEF TaskInv, ResultsAreOutcomes, TaskTypeOK, BoundsAssumption
<1>2. CASE result[o] = "reply"
  BY <1>1, <1>2 DEF Outcome, Outcomes
<1>3. CASE result[o] # "reply"
  BY <1>1, <1>3 DEF Outcome, Outcomes
<1> QED
  BY <1>2, <1>3

(* The tasks reach the session only through the operations of its handle.  *)
LEMMA StepOfTheHandle ==
  BoundsAssumption /\ TaskInv /\ [Next]_vars => [HandleNext]_handleVars
<1> SUFFICES ASSUME BoundsAssumption, TaskInv, [Next]_vars
             PROVE  [HandleNext]_handleVars
  OBVIOUS
<1>1. CASE Submit
  BY <1>1 DEF Submit, HandleNext
<1>2. ASSUME NEW o \in Orders, Quiet(o) PROVE UNCHANGED handleVars
  BY <1>2 DEF Quiet, Dispatch, ClientDisconnects, AcquireLock, SendPrompt,
     CollectChunk, NoticeCancel, AgentResponds
<1>3. ASSUME NEW o \in Orders, Ends(o) PROVE UNCHANGED handleVars
  BY <1>3 DEF Ends, CancelledBeforePrompt, ReturnReply, ReturnCancelled, Fail, Returns
<1>4. ASSUME NEW o \in Orders, BeginTurn(o) PROVE HandleNext
  BY <1>4 DEF BeginTurn, HandleNext
<1>5. ASSUME NEW o \in Orders, ForwardChunk(o) PROVE [HandleNext]_handleVars
  BY <1>5 DEF ForwardChunk, HandleNext
<1>6. ASSUME NEW o \in Orders, AskPermission(o) PROVE HandleNext
  BY <1>6 DEF AskPermission, HandleNext
<1>7. ASSUME NEW o \in Orders, Complete(o) PROVE HandleNext
  <2>1. stage[o] = "finished"
    BY <1>7 DEF Complete, Moves
  <2>2. Outcome(o) \in Outcomes
    BY <2>1, OutcomeIsKnown
  <2>3. CompletePrompt(o, Outcome(o)) \/ CompleteAfterClose(o)
    BY <1>7 DEF Complete
  <2> QED
    BY <2>2, <2>3 DEF HandleNext
<1>8. CASE Request
  BY <1>8 DEF Request, UserCancels, UserDecides, UserCloses, UserDeletes,
     RuntimeIsLost, HintArrives, HandleNext
<1>9. CASE UNCHANGED vars
  BY <1>9 DEF vars
<1> QED
  BY <1>1, <1>2, <1>3, <1>4, <1>5, <1>6, <1>7, <1>8, <1>9, StepsByKind

-----------------------------------------------------------------------------
(* The lock and the stages.                                                *)

(* A step that keeps a task inside or outside its roundtrip keeps the lock *)
(* and the stages in agreement.                                            *)
LEMMA MoveKeepsTheLock ==
  ASSUME TaskTypeOK, NEW o \in Orders, NEW to \in Stages, UNCHANGED lockHolder,
         stage' = [stage EXCEPT ![o] = to],
         stage[o] \in Roundtrip <=> to \in Roundtrip
  PROVE  /\ stage' \in [Orders -> Stages]
         /\ lockHolder' \in Orders \cup {NoOrder}
         /\ \A p \in Orders : lockHolder' = p <=> stage'[p] \in Roundtrip
BY DEF TaskTypeOK

(* The tasks' variables keep their types and agree with the lock.          *)
LEMMA TaskTypeStep ==
  ASSUME BoundsAssumption, TaskInv, [Next]_vars
  PROVE  TaskTypeOK'
<1>0. TaskTypeOK
  BY DEF TaskInv
<1> DEFINE TypesKept == /\ restored' \in BOOLEAN
                        /\ collected' \in [Orders -> 0 .. MaxChunks]
                        /\ inFlight' \in [Orders -> BOOLEAN]
                        /\ result' \in [Orders -> {"absent", "reply", "status", "none"}]
           LockKept == /\ stage' \in [Orders -> Stages]
                       /\ lockHolder' \in Orders \cup {NoOrder}
                       /\ \A p \in Orders : lockHolder' = p <=> stage'[p] \in Roundtrip
<1>1. CASE UNCHANGED taskVars
  BY <1>0, <1>1 DEF taskVars, TaskTypeOK
<1>2. CASE Submit
  <2>1. /\ nextPromptOrder \in Orders
        /\ stage[nextPromptOrder] \in {"idle", "done"}
    <3>1. nextPromptOrder \in Orders /\ nextPromptOrder \notin openPrompts
      BY <1>2 DEF Submit, SubmitUserPrompt, TaskInv, HandleInv, HandleTypeOK,
         AnswersAccounted, Orders, BoundsAssumption
    <3> QED
      BY <1>0, <3>1 DEF TaskInv, EachPromptHasOneTask, TaskTypeOK
  <2>2. LockKept
    <3>1. stage' = [stage EXCEPT ![nextPromptOrder] = "accepted"] /\ UNCHANGED lockHolder
      BY <1>2 DEF Submit
    <3>2. /\ "accepted" \in Stages
          /\ stage[nextPromptOrder] \in Roundtrip <=> "accepted" \in Roundtrip
      BY <2>1 DEF Stages, Roundtrip
    <3> QED
      BY <1>0, <2>1, <3>1, <3>2, MoveKeepsTheLock
  <2> QED
    BY <1>0, <1>2, <2>2 DEF Submit, TaskTypeOK
<1>3. ASSUME NEW o \in Orders, Quiet(o) PROVE TaskTypeOK'
  <2>1. CASE AcquireLock(o)
    <3>1. LockKept
      <4>1. /\ stage' = [stage EXCEPT ![o] = "connecting"] /\ lockHolder' = o
            /\ lockHolder = NoOrder
        BY <2>1 DEF AcquireLock, Moves
      <4>2. \A p \in Orders : stage[p] \notin Roundtrip
        BY <1>0, <4>1 DEF TaskTypeOK, NoOrder, Orders
      <4>3. "connecting" \in Roundtrip /\ "connecting" \in Stages
        BY DEF Roundtrip, Stages
      <4>4. stage \in [Orders -> Stages]
        BY <1>0 DEF TaskTypeOK
      <4> QED
        BY <4>1, <4>2, <4>3, <4>4
    <3> QED
      BY <1>0, <2>1, <3>1 DEF AcquireLock, TaskTypeOK
  <2>2. CASE CollectChunk(o)
    <3>1. collected[o] + 1 \in 0 .. MaxChunks
      BY <1>0, <2>2 DEF CollectChunk, TaskTypeOK, BoundsAssumption
    <3> QED
      BY <1>0, <2>2, <3>1 DEF CollectChunk, TaskTypeOK
  <2>3. CASE \/ Dispatch(o) \/ ClientDisconnects(o) \/ SendPrompt(o) \/ NoticeCancel(o)
             \/ \E s \in {"answered", "stopped"} : AgentResponds(o, s)
    <3>1. LockKept
      BY <1>0, <2>3, MoveKeepsTheLock DEF Dispatch, ClientDisconnects, SendPrompt,
         NoticeCancel, AgentResponds, Moves, Stages, Roundtrip
    <3>2. UNCHANGED <<restored, collected, inFlight, result>>
      BY <2>3 DEF Dispatch, ClientDisconnects, SendPrompt, NoticeCancel, AgentResponds
    <3> QED
      BY <1>0, <3>1, <3>2 DEF TaskTypeOK
  <2> QED
    BY <1>3, <2>1, <2>2, <2>3 DEF Quiet
<1>4. ASSUME NEW o \in Orders, Ends(o) PROVE TaskTypeOK'
  <2>1. /\ stage[o] \in Roundtrip
        /\ \E outcome \in {"reply", "status", "none"} : Returns(o, outcome)
    BY <1>4 DEF Ends, CancelledBeforePrompt, ReturnReply, ReturnCancelled, Fail, Roundtrip
  <2>2. LockKept
    BY <1>0, <2>1 DEF Returns, TaskTypeOK, Stages, Roundtrip, NoOrder, Orders
  <2> QED
    BY <1>0, <2>1, <2>2 DEF Returns, TaskTypeOK
<1>5. ASSUME NEW o \in Orders, BeginTurn(o) PROVE TaskTypeOK'
  <2>1. LockKept
    BY <1>0, <1>5, MoveKeepsTheLock DEF BeginTurn, Moves, Stages, Roundtrip
  <2> QED
    BY <1>0, <1>5, <2>1 DEF BeginTurn, TaskTypeOK
<1>6. ASSUME NEW o \in Orders, ForwardChunk(o) PROVE TaskTypeOK'
  BY <1>0, <1>6 DEF ForwardChunk, TaskTypeOK
<1>7. ASSUME NEW o \in Orders, Complete(o) PROVE TaskTypeOK'
  <2>1. LockKept
    BY <1>0, <1>7, MoveKeepsTheLock DEF Complete, Moves, Stages, Roundtrip
  <2> QED
    BY <1>0, <1>7, <2>1 DEF Complete, TaskTypeOK
<1>8. ASSUME NEW o \in Orders, AskPermission(o) PROVE UNCHANGED taskVars
  BY <1>8 DEF AskPermission
<1>9. CASE Request
  BY <1>1, <1>9 DEF Request, UserCancels, UserDecides, UserCloses, UserDeletes,
     RuntimeIsLost, HintArrives
<1>10. CASE UNCHANGED vars
  BY <1>1, <1>10 DEF vars
<1> QED
  BY <1>1, <1>2, <1>3, <1>4, <1>5, <1>6, <1>7, <1>8, <1>9, <1>10, StepsByKind

-----------------------------------------------------------------------------
(* One task per prompt.                                                    *)

Early == {"idle", "accepted", "lost", "queued", "connecting"}

(* A turn a user can cancel belongs to a task that has begun it.           *)
LEMMA ActiveTurnHasBegun ==
  ASSUME TaskInv, NEW o \in Orders, stage[o] \in Early
  PROVE  activeTurn.order # o
<1>1. o # NoOrder
  BY DEF Orders, NoOrder
<1>2. cancelWatch[o] = "none"
  BY DEF TaskInv, EachPromptHasOneTask, Early
<1> QED
  BY <1>1, <1>2 DEF TaskInv, HandleInv, OnlyTheActiveTurnIsCancellable

(* Requests leave the open prompts alone and touch only begun turns.       *)
LEMMA RequestsSpareTheTasks ==
  ASSUME TaskInv, Request
  PROVE  /\ UNCHANGED <<openPrompts, nextPromptOrder, taskVars>>
         /\ \A o \in Orders : stage[o] \in Early => cancelWatch'[o] = cancelWatch[o]
<1>1. UNCHANGED <<openPrompts, nextPromptOrder, taskVars>>
  BY DEF Request, UserCancels, UserDecides, UserCloses, UserDeletes, RuntimeIsLost,
     HintArrives, CancelActiveTurn, ResolvePermission, Close, PrepareDelete,
     MarkRuntimeUnavailable, AppendMessage
<1>2. \/ cancelWatch' = cancelWatch
      \/ cancelWatch' = CancelSent(cancelWatch, activeTurn.order)
  BY DEF Request, UserCancels, UserDecides, UserCloses, UserDeletes, RuntimeIsLost,
     HintArrives, CancelActiveTurn, ResolvePermission, Close, PrepareDelete,
     MarkRuntimeUnavailable, AppendMessage, CancelAllTurns
<1>3. ASSUME NEW o \in Orders, stage[o] \in Early
      PROVE  cancelWatch'[o] = cancelWatch[o]
  BY <1>2, <1>3, ActiveTurnHasBegun DEF CancelSent
<1> QED
  BY <1>1, <1>3

(* Every step keeps prompts, tasks and turns together.                     *)
LEMMA OneTaskStep ==
  ASSUME BoundsAssumption, TaskInv, [Next]_vars
  PROVE  EachPromptHasOneTask' /\ LaterPromptsAreIdle'
<1>0. /\ EachPromptHasOneTask /\ LaterPromptsAreIdle
      /\ stage \in [Orders -> Stages]
      /\ cancelWatch \in [Orders -> {"none", "open", "cancelled", "closed"}]
      /\ nextPromptOrder \in 0 .. MaxPrompts
  BY DEF TaskInv, TaskTypeOK, HandleInv, HandleTypeOK
<1>1. CASE UNCHANGED vars
  BY <1>0, <1>1 DEF vars, handleVars, taskVars, EachPromptHasOneTask, LaterPromptsAreIdle
<1>2. CASE Submit
  <2>1. /\ openPrompts' = openPrompts \cup {nextPromptOrder}
        /\ nextPromptOrder' = nextPromptOrder + 1
        /\ stage' = [stage EXCEPT ![nextPromptOrder] = "accepted"]
        /\ cancelWatch' = cancelWatch
    BY <1>2 DEF Submit, SubmitUserPrompt
  <2>2. nextPromptOrder \in Orders
    BY <1>0, <1>2 DEF Submit, SubmitUserPrompt, Orders, BoundsAssumption
  <2>3. stage[nextPromptOrder] = "idle"
    BY <1>0, <2>2 DEF LaterPromptsAreIdle, Orders
  <2>4. EachPromptHasOneTask'
    BY <1>0, <2>1, <2>2, <2>3 DEF EachPromptHasOneTask, Stages
  <2>5. LaterPromptsAreIdle'
    <3> SUFFICES ASSUME NEW o \in Orders, nextPromptOrder + 1 <= o
                 PROVE  stage'[o] = "idle"
      BY <2>1 DEF LaterPromptsAreIdle
    <3>1. o # nextPromptOrder /\ nextPromptOrder <= o
      BY <1>0 DEF Orders
    <3> QED
      BY <1>0, <2>1, <3>1 DEF LaterPromptsAreIdle
  <2> QED
    BY <2>4, <2>5
<1>3. ASSUME NEW o \in Orders, Quiet(o)
      PROVE  EachPromptHasOneTask' /\ LaterPromptsAreIdle'
  <2>1. UNCHANGED <<openPrompts, cancelWatch, nextPromptOrder>>
    BY <1>3 DEF Quiet, Dispatch, ClientDisconnects, AcquireLock, SendPrompt,
       CollectChunk, NoticeCancel, AgentResponds, handleVars
  <2>2. \/ stage' = stage
        \/ \E to \in Stages :
             /\ stage' = [stage EXCEPT ![o] = to]
             /\ stage[o] \notin {"idle", "done"} /\ to \notin {"idle", "done"}
             /\ to \in Early => stage[o] \in Early
    BY <1>3 DEF Quiet, Dispatch, ClientDisconnects, AcquireLock, SendPrompt,
       CollectChunk, NoticeCancel, AgentResponds, Moves, Stages, Early
  <2> QED
    BY <1>0, <2>1, <2>2 DEF EachPromptHasOneTask, LaterPromptsAreIdle, Early
<1>4. ASSUME NEW o \in Orders, Ends(o)
      PROVE  EachPromptHasOneTask' /\ LaterPromptsAreIdle'
  <2>1. /\ UNCHANGED <<openPrompts, cancelWatch, nextPromptOrder>>
        /\ stage' = [stage EXCEPT ![o] = "finished"]
    BY <1>4 DEF Ends, CancelledBeforePrompt, ReturnReply, ReturnCancelled, Fail,
       Returns, handleVars
  <2>2. stage[o] \notin {"idle", "done"}
    BY <1>4 DEF Ends, CancelledBeforePrompt, ReturnReply, ReturnCancelled, Fail, Roundtrip
  <2> QED
    BY <1>0, <2>1, <2>2 DEF EachPromptHasOneTask, LaterPromptsAreIdle, Stages
<1>5. ASSUME NEW o \in Orders, BeginTurn(o)
      PROVE  EachPromptHasOneTask' /\ LaterPromptsAreIdle'
  <2>1. /\ UNCHANGED <<openPrompts, nextPromptOrder>>
        /\ stage[o] = "connecting"
        /\ stage' = [stage EXCEPT ![o] = "starting"]
    BY <1>5 DEF BeginTurn, StartTurn, Moves
  <2>2. \A p \in Orders : p # o /\ cancelWatch[p] = "none" => cancelWatch'[p] = "none"
    BY <1>0, <1>5 DEF BeginTurn, StartTurn, SenderDropped
  <2> QED
    BY <1>0, <2>1, <2>2 DEF EachPromptHasOneTask, LaterPromptsAreIdle, Stages
<1>6. ASSUME NEW o \in Orders, ForwardChunk(o) \/ AskPermission(o)
      PROVE  EachPromptHasOneTask' /\ LaterPromptsAreIdle'
  <2>1. UNCHANGED <<openPrompts, cancelWatch, nextPromptOrder, stage>>
    BY <1>6 DEF ForwardChunk, AskPermission, StreamAssistantChunk,
       RegisterPermissionRequest, taskVars, handleVars
  <2> QED
    BY <1>0, <2>1 DEF EachPromptHasOneTask, LaterPromptsAreIdle
<1>7. ASSUME NEW o \in Orders, Complete(o)
      PROVE  EachPromptHasOneTask' /\ LaterPromptsAreIdle'
  <2>1. /\ openPrompts' = openPrompts \ {o} /\ nextPromptOrder' = nextPromptOrder
        /\ stage[o] = "finished"
        /\ stage' = [stage EXCEPT ![o] = "done"]
    BY <1>7 DEF Complete, CompletePrompt, CompleteAfterClose, Moves
  <2>2. \A p \in Orders : cancelWatch[p] = "none" => cancelWatch'[p] = "none"
    BY <1>0, <1>7 DEF Complete, CompletePrompt, CompleteAfterClose, SenderDropped
  <2> QED
    BY <1>0, <2>1, <2>2 DEF EachPromptHasOneTask, LaterPromptsAreIdle, Stages
<1>8. CASE Request
  <2>1. /\ UNCHANGED <<openPrompts, nextPromptOrder, stage>>
        /\ \A o \in Orders : stage[o] \in Early => cancelWatch'[o] = cancelWatch[o]
    BY <1>8, RequestsSpareTheTasks DEF taskVars
  <2> QED
    BY <1>0, <2>1 DEF EachPromptHasOneTask, LaterPromptsAreIdle, Early
<1> QED
  BY <1>1, <1>2, <1>3, <1>4, <1>5, <1>6, <1>7, <1>8, StepsByKind

-----------------------------------------------------------------------------
(* The running roundtrip and the active turn.                              *)

(* At most one roundtrip runs.                                             *)
LEMMA OneRoundtrip ==
  ASSUME TaskTypeOK, NEW o \in Orders, NEW p \in Orders,
         stage[o] \in Roundtrip, stage[p] \in Roundtrip
  PROVE  o = p
BY DEF TaskTypeOK

(* No step takes the turn, or its channel, from a running roundtrip.       *)
LEMMA TurnOwnedStep ==
  ASSUME BoundsAssumption, TaskInv, [Next]_vars
  PROVE  RunningRoundtripOwnsTheTurn'
<1>0. RunningRoundtripOwnsTheTurn /\ TaskTypeOK /\ stage \in [Orders -> Stages]
  BY DEF TaskInv, TaskTypeOK
<1> SUFFICES ASSUME NEW o \in Orders, stage'[o] \in InTurn, status' = "active",
                    ~unavailable'
             PROVE  activeTurn'.order = o /\ cancelWatch'[o] # "closed"
  BY DEF RunningRoundtripOwnsTheTurn
<1> DEFINE Kept == /\ stage[o] \in InTurn /\ status = "active" /\ ~unavailable
                   /\ activeTurn'.order = activeTurn.order
                   /\ cancelWatch'[o] = cancelWatch[o] \/ cancelWatch'[o] = "cancelled"
           Goal == activeTurn'.order = o /\ cancelWatch'[o] # "closed"
<1>1. ASSUME Kept PROVE Goal
  BY <1>0, <1>1 DEF RunningRoundtripOwnsTheTurn
<1>2. CASE UNCHANGED vars
  BY <1>1, <1>2 DEF vars, handleVars, taskVars
<1>3. CASE Submit
  <2>1. stage[o] \in InTurn
    BY <1>0, <1>3 DEF Submit, InTurn, Roundtrip
  <2> QED
    BY <1>1, <1>3, <2>1 DEF Submit, SubmitUserPrompt
<1>4. ASSUME NEW p \in Orders, Quiet(p) PROVE Goal
  <2>1. UNCHANGED <<status, unavailable, activeTurn, cancelWatch>>
    BY <1>4 DEF Quiet, Dispatch, ClientDisconnects, AcquireLock, SendPrompt,
       CollectChunk, NoticeCancel, AgentResponds, handleVars
  <2>2. stage[o] \in InTurn
    BY <1>0, <1>4 DEF Quiet, Dispatch, ClientDisconnects, AcquireLock, SendPrompt,
       CollectChunk, NoticeCancel, AgentResponds, Moves, InTurn, Roundtrip
  <2> QED
    BY <1>1, <2>1, <2>2
<1>5. ASSUME NEW p \in Orders, Ends(p) PROVE Goal
  <2>1. /\ UNCHANGED <<status, unavailable, activeTurn, cancelWatch>>
        /\ stage' = [stage EXCEPT ![p] = "finished"]
    BY <1>5 DEF Ends, CancelledBeforePrompt, ReturnReply, ReturnCancelled, Fail,
       Returns, handleVars
  <2>2. stage[o] \in InTurn
    BY <1>0, <2>1 DEF InTurn, Roundtrip
  <2> QED
    BY <1>1, <2>1, <2>2
<1>6. ASSUME NEW p \in Orders, BeginTurn(p) PROVE Goal
  <2>1. /\ stage[p] = "connecting" /\ stage' = [stage EXCEPT ![p] = "starting"]
        /\ activeTurn' = [NoTurn EXCEPT !.order = p]
        /\ cancelWatch' = [SenderDropped(cancelWatch, activeTurn.order) EXCEPT ![p] = "open"]
    BY <1>6 DEF BeginTurn, StartTurn, Moves
  <2>2. o = p
    <3> SUFFICES ASSUME o # p PROVE FALSE
      OBVIOUS
    <3>1. stage[o] \in Roundtrip /\ stage[p] \in Roundtrip
      BY <1>0, <2>1 DEF InTurn, Roundtrip
    <3> QED
      BY <1>0, <3>1, OneRoundtrip
  <2>3. activeTurn'.order = p
    BY <2>1 DEF NoTurn
  <2>4. cancelWatch'[p] = "open"
    BY <2>1 DEF SenderDropped
  <2> QED
    BY <2>2, <2>3, <2>4
<1>7. ASSUME NEW p \in Orders, ForwardChunk(p) \/ AskPermission(p) PROVE Goal
  <2>1. /\ UNCHANGED <<status, unavailable, cancelWatch, stage>>
        /\ activeTurn'.order = activeTurn.order
    <3>1. CASE UNCHANGED activeTurn
      BY <1>7, <3>1 DEF ForwardChunk, AskPermission, StreamAssistantChunk,
         RegisterPermissionRequest, taskVars, handleVars
    <3>2. CASE activeTurn' = [activeTurn EXCEPT !.message = latestSequence + 1]
      <4>1. activeTurn \in Turns
        BY DEF TaskInv, HandleInv, HandleTypeOK
      <4>2. activeTurn'.order = activeTurn.order
        BY <3>2, <4>1 DEF Turns
      <4> QED
        BY <1>7, <4>2 DEF ForwardChunk, AskPermission, StreamAssistantChunk,
           RegisterPermissionRequest, taskVars, handleVars
    <3> QED
      BY <1>7, <3>1, <3>2 DEF ForwardChunk, AskPermission, StreamAssistantChunk,
         RegisterPermissionRequest, taskVars, handleVars
  <2> QED
    BY <1>1, <2>1
<1>8. ASSUME NEW p \in Orders, Complete(p) PROVE Goal
  <2>1. stage[p] = "finished" /\ stage' = [stage EXCEPT ![p] = "done"]
    BY <1>8 DEF Complete, Moves
  <2>2. o # p /\ stage[o] \in InTurn
    BY <1>0, <2>1 DEF InTurn, Roundtrip
  <2>3. /\ UNCHANGED <<status, unavailable>>
        /\ activeTurn.order # p => UNCHANGED <<activeTurn, cancelWatch>>
    BY <1>8 DEF Complete, CompletePrompt, CompleteAfterClose
  <2>4. activeTurn.order = o
    BY <1>0, <2>2, <2>3 DEF RunningRoundtripOwnsTheTurn
  <2> QED
    BY <1>1, <2>2, <2>3, <2>4
<1>9. CASE Request
  <2>1. UNCHANGED stage
    BY <1>9, RequestsSpareTheTasks DEF taskVars
  <2>2. CASE CancelActiveTurn
    <3>1. /\ UNCHANGED <<status, unavailable>>
          /\ activeTurn' = [activeTurn EXCEPT !.cancelled = TRUE]
          /\ cancelWatch' = CancelSent(cancelWatch, activeTurn.order)
      BY <2>2 DEF CancelActiveTurn
    <3>2. activeTurn'.order = activeTurn.order
      BY <3>1 DEF TaskInv, HandleInv, HandleTypeOK, Turns
    <3>3. cancelWatch'[o] = cancelWatch[o] \/ cancelWatch'[o] = "cancelled"
      BY <3>1 DEF CancelSent
    <3> QED
      BY <1>1, <2>1, <3>1, <3>2, <3>3
  <2>3. CASE \/ \E r \in PermissionIds, d \in {"approved", "denied"} : ResolvePermission(r, d)
             \/ AppendMessage
    BY <1>1, <2>1, <2>3 DEF ResolvePermission, AppendMessage
  <2>4. CASE MarkRuntimeUnavailable \/ Close \/ PrepareDelete
    BY <2>4 DEF MarkRuntimeUnavailable, Close, PrepareDelete
  <2> QED
    BY <1>9, <2>2, <2>3, <2>4 DEF Request, UserCancels, UserDecides, UserCloses,
       UserDeletes, RuntimeIsLost, HintArrives
<1> QED
  BY <1>2, <1>3, <1>4, <1>5, <1>6, <1>7, <1>8, <1>9, StepsByKind

(* What a roundtrip returns stays as it is until its task delivers it.     *)
LEMMA ResultStep ==
  ASSUME BoundsAssumption, TaskInv, [Next]_vars
  PROVE  ResultsAreOutcomes'
<1>0. /\ ResultsAreOutcomes /\ stage \in [Orders -> Stages]
      /\ collected \in [Orders -> 0 .. MaxChunks]
      /\ result \in [Orders -> {"absent", "reply", "status", "none"}]
  BY DEF TaskInv, TaskTypeOK
<1> SUFFICES ASSUME NEW o \in Orders, stage'[o] = "finished"
             PROVE  /\ result'[o] \in {"reply", "status", "none"}
                    /\ result'[o] = "reply" => collected'[o] # 0
  BY DEF ResultsAreOutcomes
<1> DEFINE Goal == /\ result'[o] \in {"reply", "status", "none"}
                   /\ result'[o] = "reply" => collected'[o] # 0
           Kept == /\ stage[o] = "finished"
                   /\ result'[o] = result[o] /\ collected'[o] = collected[o]
<1>1. ASSUME Kept PROVE Goal
  BY <1>0, <1>1 DEF ResultsAreOutcomes
<1>2. CASE UNCHANGED taskVars
  BY <1>1, <1>2 DEF taskVars
<1>3. CASE Submit
  BY <1>0, <1>1, <1>3 DEF Submit
<1>4. ASSUME NEW p \in Orders, Quiet(p) PROVE Kept
  <2>1. CASE CollectChunk(p)
    <3>1. p # o
      BY <2>1 DEF CollectChunk, Streaming, InTurn, Roundtrip
    <3> QED
      BY <1>0, <2>1, <3>1 DEF CollectChunk
  <2>2. CASE ~CollectChunk(p)
    BY <1>0, <1>4, <2>2 DEF Quiet, Dispatch, ClientDisconnects, AcquireLock, SendPrompt,
       NoticeCancel, AgentResponds, Moves
  <2> QED
    BY <2>1, <2>2
<1>5. ASSUME NEW p \in Orders, Ends(p) PROVE Goal
  <2>1. PICK outcome \in {"reply", "status", "none"} :
          Returns(p, outcome) /\ (outcome = "reply" => collected[p] # 0)
    BY <1>5 DEF Ends, CancelledBeforePrompt, ReturnReply, ReturnCancelled, Fail
  <2>2. CASE o = p
    BY <1>0, <2>1, <2>2 DEF Returns
  <2>3. CASE o # p
    BY <1>0, <1>1, <2>1, <2>3 DEF Returns
  <2> QED
    BY <2>2, <2>3
<1>6. ASSUME NEW p \in Orders, BeginTurn(p) \/ ForwardChunk(p) \/ Complete(p) PROVE Kept
  BY <1>0, <1>6 DEF BeginTurn, ForwardChunk, Complete, Moves
<1>7. ASSUME NEW p \in Orders, AskPermission(p) PROVE UNCHANGED taskVars
  BY <1>7 DEF AskPermission
<1>8. CASE Request
  BY <1>2, <1>8, RequestsSpareTheTasks
<1> QED
  BY <1>1, <1>2, <1>3, <1>4, <1>5, <1>6, <1>7, <1>8, StepsByKind DEF vars

-----------------------------------------------------------------------------
(* The theorems.                                                           *)

(* A session starts with every task idle and no lock held.                 *)
LEMMA TaskInit == BoundsAssumption /\ Init => TaskInv
<1> SUFFICES ASSUME BoundsAssumption, Init PROVE TaskInv
  OBVIOUS
<1>1. HandleInv
  BY InvInit DEF Init
<1>2. \A o \in Orders : stage[o] = "idle" /\ cancelWatch[o] = "none"
  BY DEF Init, HandleInit
<1>3. openPrompts = {} /\ lockHolder = NoOrder
  BY DEF Init, HandleInit
<1>4. TaskTypeOK
  BY <1>2 DEF Init, TaskTypeOK, Stages, Roundtrip, Orders, NoOrder, BoundsAssumption
<1>5. EachPromptHasOneTask
  BY <1>2, <1>3 DEF EachPromptHasOneTask
<1>6. RunningRoundtripOwnsTheTurn
  BY <1>2 DEF RunningRoundtripOwnsTheTurn, InTurn, Roundtrip
<1>7. ResultsAreOutcomes /\ LaterPromptsAreIdle
  BY <1>2 DEF ResultsAreOutcomes, LaterPromptsAreIdle
<1> QED
  BY <1>1, <1>4, <1>5, <1>6, <1>7 DEF TaskInv

(* The inductive invariant of the whole: the session's own, the lock, one  *)
(* task per prompt and the running roundtrip's turn carry each other.      *)
THEOREM TaskInvariant == Spec => []TaskInv
<1>1. Init => TaskInv
  BY TaskInit, BoundsAssumption
<1>2. TaskInv /\ [Next]_vars => TaskInv'
  <2> SUFFICES ASSUME TaskInv, [Next]_vars PROVE TaskInv'
    OBVIOUS
  <2>1. [HandleNext]_handleVars
    BY StepOfTheHandle, BoundsAssumption
  <2>2. HandleTypeOK'
    BY <2>1, TypeStep, BoundsAssumption DEF TaskInv, HandleInv
  <2>3. AnswersAccounted' /\ NoAnswerHeldBack'
    BY <2>1, AnswersStep, BoundsAssumption DEF TaskInv
  <2>4. TurnInv'
    BY <2>1, TurnStep, BoundsAssumption DEF TaskInv
  <2>5. HandleInv'
    BY <2>2, <2>3, <2>4 DEF HandleInv, TurnInv
  <2>6. TaskTypeOK' /\ RunningRoundtripOwnsTheTurn' /\ ResultsAreOutcomes'
    BY TaskTypeStep, TurnOwnedStep, ResultStep, BoundsAssumption
  <2>7. EachPromptHasOneTask' /\ LaterPromptsAreIdle'
    BY OneTaskStep, BoundsAssumption
  <2> QED
    BY <2>5, <2>6, <2>7 DEF TaskInv
<1> QED
  BY <1>1, <1>2, PTL DEF Spec

(* The tasks' variables keep their types, and the session lock is held by  *)
(* the one roundtrip that runs.                                            *)
THEOREM OneRoundtripAtATime == Spec => []TaskTypeOK
BY TaskInvariant, PTL DEF TaskInv

(* The next prompt's turn cannot take over from a running roundtrip.       *)
THEOREM TurnIsOwned == Spec => []RunningRoundtripOwnsTheTurn
BY TaskInvariant, PTL DEF TaskInv

(* A prompt is open exactly from its acceptance to its one completion.     *)
THEOREM OneTaskPerPrompt == Spec => []EachPromptHasOneTask
BY TaskInvariant, PTL DEF TaskInv

(* The tasks implement the session handle's specification: whatever is     *)
(* proved of the handle under free callers holds with the real ones.       *)
THEOREM TasksImplementHandle == Spec => HandleSpec
<1>1. Init => HandleInit
  BY DEF Init
<1>2. TaskInv /\ [Next]_vars => [HandleNext]_handleVars
  BY StepOfTheHandle, BoundsAssumption
<1> QED
  BY <1>1, <1>2, TaskInvariant, PTL DEF Spec, HandleSpec

(* With the real callers too a cancelled turn adds nothing to the          *)
(* transcript while it is the active one.                                  *)
THEOREM CancelledTurnsStayMute == Spec => CancelledTurnIsMute
BY TasksImplementHandle, CancelledTurnsAreMute

(* With the real callers too a session releases its answers as the ledger  *)
(* says: in prompt order, each once, none after it was closed.             *)
THEOREM TasksImplementLedger == Spec => ImplementsLedger
BY TasksImplementHandle, SessionImplementsLedger

===============================================================================
