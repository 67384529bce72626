------------------------- MODULE BundledStack_proofs -------------------------
(***************************************************************************)
(* Theorems about the stack the launcher starts and about the bundled      *)
(* agent in it, which all sessions of the stack share.                     *)
(*                                                                         *)
(* Launchers, any number of them: one of them starts the stack, and one    *)
(* that fails stops the services it started.  Sessions that share the      *)
(* agent do not share a session of it, and a cancel stays in its session - *)
(* while the agent that numbers its sessions lives.                        *)
(***************************************************************************)
EXTENDS LauncherStack, AgentSessions, FiniteSetTheorems, TLAPS

-----------------------------------------------------------------------------
(* The launcher.                                                           *)

(* A launcher that is still looking for a stack has started none, and one   *)
(* that starts its backend has none yet.                                    *)
ServicesFollowTheStage ==
  \A l \in Launchers :
    /\ pc[l] \notin {"starting backend", "saving", "writing", "returning", "failing"}
                      \cup Ended
         => mock[l] = "none"
    /\ pc[l] \notin {"saving", "writing", "returning", "failing"} \cup Ended
         => backend[l] = "none"

(* What a launcher probes, it may return.                                   *)
ProbedStacksServe ==
  \A l \in Launchers :
    At(l, "probing") => seen[l] # Nobody /\ Supports(seen[l], l)

(* A launcher that tries for the lock has not used up its attempts.         *)
AttemptsLeft ==
  \A l \in Launchers : pc[l] \in {"locking", "checking", "evicting"} => tries[l] # 0

(* Where a launcher without a stack goes.                                   *)
LEMMA WithoutStackFacts ==
  ASSUME NEW l \in Launchers
  PROVE  /\ WithoutStack(l) \in {"starting mock", "failed", "locking"}
         /\ WithoutStack(l) = "starting mock" <=> holds[l]
         /\ WithoutStack(l) = "locking" => tries[l] # 0
  BY DEF WithoutStack

(* A lock file is absent or has an owner among the launchers.               *)
LEMMA LockFacts ==
  ASSUME lockFile \in Locks
  PROVE  /\ NoLock \in Locks
         /\ NoLock.owner \notin Launchers
         /\ \A l \in Launchers : [owner |-> l, pid |-> FALSE, old |-> FALSE] \in Locks
         /\ lockFile # NoLock => /\ lockFile.owner \in Launchers
                                /\ [lockFile EXCEPT !.pid = TRUE] \in Locks
                                /\ [lockFile EXCEPT !.old = TRUE] \in Locks
  BY LauncherAssumption DEF Locks, NoLock

(* A valid state names a launcher.                                          *)
LEMMA StateFacts ==
  ASSUME stateFile \in States
  PROVE  /\ stateFile.form = "valid" => stateFile.stack \in Launchers
         /\ NoState \in States
         /\ Truncated \in States
         /\ Garbled \in States
         /\ \A l \in Launchers : Recorded(l) \in States
<1>1. ASSUME stateFile.form = "valid" PROVE stateFile.stack \in Launchers
  <2>1. stateFile \notin {NoState, Truncated, Garbled}
    BY <1>1 DEF NoState, Truncated, Garbled
  <2>2. PICK l \in Launchers : stateFile = Recorded(l)
    BY <2>1 DEF States
  <2> QED
    BY <2>2 DEF Recorded
<1> QED
  BY <1>1 DEF States

(* Reading the state leads one of three ways.                               *)
LEMMA ReadStateFacts ==
  ASSUME LauncherTypeOK, NEW l \in Launchers, ReadState(l)
  PROVE  /\ pc' \in [Launchers -> Stages]
         /\ seen' \in [Launchers -> Launchers \cup {Nobody}]
         /\ \A m \in Launchers \ {l} : pc'[m] = pc[m] /\ seen'[m] = seen[m]
         /\ pc'[l] \in {"doubting", "probing", WithoutStack(l)}
         /\ pc'[l] = "probing" => seen'[l] \in Launchers /\ Supports(seen'[l], l)
         /\ wants' = wants /\ tries' = tries /\ holds' = holds /\ handle' = handle
         /\ mock' = mock /\ backend' = backend
         /\ lockFile' = lockFile /\ stateFile' = stateFile /\ calm' = calm
<1>1. /\ wants' = wants /\ tries' = tries /\ holds' = holds /\ handle' = handle
      /\ mock' = mock /\ backend' = backend
      /\ lockFile' = lockFile /\ stateFile' = stateFile /\ calm' = calm
  BY DEF ReadState, serviceVars
<1>2. /\ pc \in [Launchers -> Stages]
      /\ seen \in [Launchers -> Launchers \cup {Nobody}]
      /\ stateFile \in States
  BY DEF LauncherTypeOK
<1>3. WithoutStack(l) # "probing" /\ {"doubting", "probing", WithoutStack(l)} \subseteq Stages
  BY WithoutStackFacts DEF Stages, StartStages, Ended
<1>4. CASE pc' = [pc EXCEPT ![l] = "doubting"] /\ seen' = seen
  BY <1>1, <1>2, <1>3, <1>4
<1>5. CASE pc' = [pc EXCEPT ![l] = WithoutStack(l)] /\ seen' = seen
  BY <1>1, <1>2, <1>3, <1>5
<1>6. CASE /\ stateFile.form = "valid"
           /\ Supports(stateFile.stack, l)
           /\ pc' = [pc EXCEPT ![l] = "probing"]
           /\ seen' = [seen EXCEPT ![l] = stateFile.stack]
  <2>1. stateFile.stack \in Launchers
    BY <1>2, <1>6, StateFacts
  <2>2. Supports(seen'[l], l)
    BY <1>2, <1>6
  <2> QED
    BY <1>1, <1>2, <1>3, <1>6, <2>1, <2>2
<1> QED
  BY <1>4, <1>5, <1>6 DEF ReadState, Goto

(* The lock file keeps its type when a launcher takes it.                   *)
LEMMA TryLockKeepsType ==
  ASSUME lockFile \in Locks, NEW l \in Launchers, TryLock(l)
  PROVE  lockFile' \in Locks
  BY LockFacts DEF TryLock

(* Counting an attempt that is left.                                        *)
LEMMA TriesFacts ==
  ASSUME tries \in [Launchers -> 0..MaxTries],
         NEW l \in Launchers, tries[l] # 0
  PROVE  [tries EXCEPT ![l] = @ - 1] \in [Launchers -> 0..MaxTries]
<1>1. tries[l] - 1 \in 0..MaxTries
  BY LauncherAssumption
<1> QED
  BY <1>1

-----------------------------------------------------------------------------
(* The type invariant                                                      *)

TypeInv == LauncherTypeOK /\ AttemptsLeft

LEMMA TypeInit ==
  ASSUME LauncherInit
  PROVE  TypeInv
  BY LauncherAssumption DEF LauncherInit, TypeInv, AttemptsLeft, LauncherTypeOK,
         Services, Stages, Locks, States

LEMMA TypeStep ==
  ASSUME TypeInv, [LauncherNext]_launcherVars
  PROVE  TypeInv'
<1> USE LauncherAssumption
    DEF TypeInv, LauncherTypeOK, AttemptsLeft, Goto, At, Stages, StartStages, Ended,
        launcherVars, ownVars,
        serviceVars
<1>1. ASSUME NEW l \in Launchers, LookForState(l) PROVE TypeInv'
  BY <1>1, WithoutStackFacts DEF LookForState
<1>2. ASSUME NEW l \in Launchers, StateVanishes(l) PROVE TypeInv'
  BY <1>2 DEF StateVanishes
<1>3. ASSUME NEW l \in Launchers, ReadState(l) PROVE TypeInv'
  <2>1. LauncherTypeOK'
    BY <1>3, ReadStateFacts
  <2>2. AttemptsLeft'
    BY <1>3, ReadStateFacts, WithoutStackFacts
  <2> QED
    BY <2>1, <2>2
<1>4. ASSUME NEW l \in Launchers, DoubtState(l) PROVE TypeInv'
  BY <1>4, WithoutStackFacts DEF DoubtState
<1>5. ASSUME NEW l \in Launchers, RemoveState(l) PROVE TypeInv'
  BY <1>5, WithoutStackFacts, StateFacts DEF RemoveState
<1>6. ASSUME NEW l \in Launchers, StackAnswers(l) PROVE TypeInv'
  BY <1>6 DEF StackAnswers
<1>7. ASSUME NEW l \in Launchers, StackDoesNotAnswer(l) PROVE TypeInv'
  BY <1>7, WithoutStackFacts DEF StackDoesNotAnswer
<1>8. ASSUME NEW l \in Launchers, TryLock(l) PROVE TypeInv'
  <2>1. lockFile' \in Locks
    BY <1>8, TryLockKeepsType
  <2> QED
    BY <1>8, <2>1 DEF TryLock
<1>9. ASSUME NEW l \in Launchers, WriteOwner(l) PROVE TypeInv'
  <2>1. lockFile' \in Locks
    BY <1>9, LockFacts DEF WriteOwner
  <2> QED
    BY <1>9, <2>1 DEF WriteOwner
<1>10. ASSUME NEW l \in Launchers, WriteOwnerFails(l) PROVE TypeInv'
  BY <1>10, LockFacts DEF WriteOwnerFails
<1>11. ASSUME NEW l \in Launchers, CheckLock(l) PROVE TypeInv'
  <2>1. [tries EXCEPT ![l] = @ - 1] \in [Launchers -> 0..MaxTries]
    BY <1>11, TriesFacts DEF CheckLock
  <2> QED
    BY <1>11, <2>1 DEF CheckLock, NextTry
<1>12. ASSUME NEW l \in Launchers, Evict(l) PROVE TypeInv'
  <2>1. [tries EXCEPT ![l] = @ - 1] \in [Launchers -> 0..MaxTries]
    BY <1>12, TriesFacts DEF Evict
  <2> QED
    BY <1>12, <2>1, LockFacts DEF Evict, NextTry
<1>13. ASSUME NEW l \in Launchers, MockStarts(l) PROVE TypeInv'
  BY <1>13 DEF MockStarts, Services
<1>14. ASSUME NEW l \in Launchers, MockFails(l) PROVE TypeInv'
  BY <1>14 DEF MockFails, Services
<1>15. ASSUME NEW l \in Launchers, BackendStarts(l) PROVE TypeInv'
  BY <1>15 DEF BackendStarts, Services
<1>16. ASSUME NEW l \in Launchers, BackendFails(l) PROVE TypeInv'
  BY <1>16 DEF BackendFails, Services
<1>17. ASSUME NEW l \in Launchers, TruncateState(l) PROVE TypeInv'
  BY <1>17, StateFacts DEF TruncateState
<1>18. ASSUME NEW l \in Launchers, WriteState(l) PROVE TypeInv'
  BY <1>18, StateFacts DEF WriteState
<1>19. ASSUME NEW l \in Launchers, SaveFails(l) PROVE TypeInv'
  BY <1>19 DEF SaveFails, Services
<1>20. ASSUME NEW l \in Launchers, ReturnStack(l) PROVE TypeInv'
  BY <1>20, LockFacts DEF ReturnStack, Release
<1>21. ASSUME NEW l \in Launchers, ReturnError(l) PROVE TypeInv'
  BY <1>21, LockFacts DEF ReturnError, Release
<1>22. ASSUME NEW l \in Launchers, Crash(l) PROVE TypeInv'
  BY <1>22 DEF Crash
<1>23. ASSUME NEW l \in Launchers, ServiceStops(l) PROVE TypeInv'
  BY <1>23 DEF ServiceStops, Services
<1>24. ASSUME LockAges PROVE TypeInv'
  BY <1>24, LockFacts DEF LockAges
<1>25. ASSUME UNCHANGED launcherVars PROVE TypeInv'
  BY <1>25
<1> QED
  BY <1>1, <1>2, <1>3, <1>4, <1>5, <1>6, <1>7, <1>8, <1>9, <1>10, <1>11, <1>12, <1>13,
     <1>14, <1>15, <1>16, <1>17, <1>18, <1>19, <1>20, <1>21, <1>22, <1>23, <1>24, <1>25
     DEF LauncherNext, LauncherStep

-----------------------------------------------------------------------------
(* The services of a launcher and the answers it gives                     *)

LEMMA SafetyInit ==
  ASSUME LauncherInit
  PROVE  ServicesFollowTheStage /\ FailedLaunchersStopTheirServices
  BY DEF LauncherInit, ServicesFollowTheStage, FailedLaunchersStopTheirServices, Ended

LEMMA ServicesStep ==
  ASSUME LauncherTypeOK, ServicesFollowTheStage, FailedLaunchersStopTheirServices,
         [LauncherNext]_launcherVars
  PROVE  (ServicesFollowTheStage /\ FailedLaunchersStopTheirServices)'
<1> USE DEF LauncherTypeOK, ServicesFollowTheStage, FailedLaunchersStopTheirServices,
            Goto, At, Ended, launcherVars, ownVars, serviceVars
<1> DEFINE Goal == ServicesFollowTheStage /\ FailedLaunchersStopTheirServices
<1>1. ASSUME NEW l \in Launchers, LookForState(l) PROVE Goal'
  BY <1>1, WithoutStackFacts DEF LookForState
<1>2. ASSUME NEW l \in Launchers, StateVanishes(l) PROVE Goal'
  BY <1>2 DEF StateVanishes
<1>3. ASSUME NEW l \in Launchers, ReadState(l) PROVE Goal'
  BY <1>3, WithoutStackFacts DEF ReadState
<1>4. ASSUME NEW l \in Launchers, DoubtState(l) PROVE Goal'
  BY <1>4, WithoutStackFacts DEF DoubtState
<1>5. ASSUME NEW l \in Launchers, RemoveState(l) PROVE Goal'
  BY <1>5, WithoutStackFacts DEF RemoveState
<1>6. ASSUME NEW l \in Launchers, StackAnswers(l) PROVE Goal'
  BY <1>6 DEF StackAnswers
<1>7. ASSUME NEW l \in Launchers, StackDoesNotAnswer(l) PROVE Goal'
  BY <1>7, WithoutStackFacts DEF StackDoesNotAnswer
<1>8. ASSUME NEW l \in Launchers, TryLock(l) PROVE Goal'
  BY <1>8 DEF TryLock
<1>9. ASSUME NEW l \in Launchers, WriteOwner(l) PROVE Goal'
  BY <1>9 DEF WriteOwner
<1>10. ASSUME NEW l \in Launchers, WriteOwnerFails(l) PROVE Goal'
  BY <1>10 DEF WriteOwnerFails
<1>11. ASSUME NEW l \in Launchers, CheckLock(l) PROVE Goal'
  BY <1>11 DEF CheckLock, NextTry
<1>12. ASSUME NEW l \in Launchers, Evict(l) PROVE Goal'
  BY <1>12 DEF Evict, NextTry
<1>13. ASSUME NEW l \in Launchers, MockStarts(l) PROVE Goal'
  BY <1>13 DEF MockStarts
<1>14. ASSUME NEW l \in Launchers, MockFails(l) PROVE Goal'
  BY <1>14 DEF MockFails
<1>15. ASSUME NEW l \in Launchers, BackendStarts(l) PROVE Goal'
  BY <1>15 DEF BackendStarts
<1>16. ASSUME NEW l \in Launchers, BackendFails(l) PROVE Goal'
  BY <1>16 DEF BackendFails
<1>17. ASSUME NEW l \in Launchers, TruncateState(l) PROVE Goal'
  BY <1>17 DEF TruncateState
<1>18. ASSUME NEW l \in Launchers, WriteState(l) PROVE Goal'
  BY <1>18 DEF WriteState
<1>19. ASSUME NEW l \in Launchers, SaveFails(l) PROVE Goal'
  BY <1>19 DEF SaveFails
<1>20. ASSUME NEW l \in Launchers, ReturnStack(l) PROVE Goal'
  BY <1>20 DEF ReturnStack, Release
<1>21. ASSUME NEW l \in Launchers, ReturnError(l) PROVE Goal'
  BY <1>21 DEF ReturnError, Release
<1>22. ASSUME NEW l \in Launchers, Crash(l) PROVE Goal'
  BY <1>22 DEF Crash
<1>23. ASSUME NEW l \in Launchers, ServiceStops(l) PROVE Goal'
  BY <1>23 DEF ServiceStops
<1>24. ASSUME LockAges PROVE Goal'
  BY <1>24 DEF LockAges
<1>25. ASSUME UNCHANGED launcherVars PROVE Goal'
  BY <1>25
<1> QED
  BY <1>1, <1>2, <1>3, <1>4, <1>5, <1>6, <1>7, <1>8, <1>9, <1>10, <1>11, <1>12, <1>13,
     <1>14, <1>15, <1>16, <1>17, <1>18, <1>19, <1>20, <1>21, <1>22, <1>23, <1>24, <1>25
     DEF LauncherNext, LauncherStep

LEMMA AnswersStep ==
  ASSUME LauncherTypeOK, ProbedStacksServe, AnswersServeTheRequest,
         [LauncherNext]_launcherVars
  PROVE  (ProbedStacksServe /\ AnswersServeTheRequest)'
<1> USE LauncherAssumption
    DEF LauncherTypeOK, ProbedStacksServe, AnswersServeTheRequest, Supports,
        Goto, At, launcherVars, ownVars, serviceVars
<1> DEFINE Goal == ProbedStacksServe /\ AnswersServeTheRequest
<1>1. ASSUME NEW l \in Launchers, LookForState(l) PROVE Goal'
  BY <1>1, WithoutStackFacts DEF LookForState
<1>2. ASSUME NEW l \in Launchers, StateVanishes(l) PROVE Goal'
  BY <1>2 DEF StateVanishes
<1>3. ASSUME NEW l \in Launchers, ReadState(l) PROVE Goal'
  <2>1. UNCHANGED wants /\ \A m \in Launchers \ {l} : pc'[m] = pc[m] /\ seen'[m] = seen[m]
    BY <1>3, ReadStateFacts
  <2>2. pc'[l] \notin {"returning", "done"}
    BY <1>3, ReadStateFacts, WithoutStackFacts
  <2>3. pc'[l] = "probing" => seen'[l] \in Launchers /\ Supports(seen'[l], l)
    BY <1>3, ReadStateFacts, WithoutStackFacts
  <2> QED
    BY <2>1, <2>2, <2>3
<1>4. ASSUME NEW l \in Launchers, DoubtState(l) PROVE Goal'
  BY <1>4, WithoutStackFacts DEF DoubtState
<1>5. ASSUME NEW l \in Launchers, RemoveState(l) PROVE Goal'
  BY <1>5, WithoutStackFacts DEF RemoveState
<1>6. ASSUME NEW l \in Launchers, StackAnswers(l) PROVE Goal'
  BY <1>6 DEF StackAnswers
<1>7. ASSUME NEW l \in Launchers, StackDoesNotAnswer(l) PROVE Goal'
  BY <1>7, WithoutStackFacts DEF StackDoesNotAnswer
<1>8. ASSUME NEW l \in Launchers, TryLock(l) PROVE Goal'
  BY <1>8 DEF TryLock
<1>9. ASSUME NEW l \in Launchers, WriteOwner(l) PROVE Goal'
  BY <1>9 DEF WriteOwner
<1>10. ASSUME NEW l \in Launchers, WriteOwnerFails(l) PROVE Goal'
  BY <1>10 DEF WriteOwnerFails
<1>11. ASSUME NEW l \in Launchers, CheckLock(l) PROVE Goal'
  BY <1>11 DEF CheckLock, NextTry
<1>12. ASSUME NEW l \in Launchers, Evict(l) PROVE Goal'
  BY <1>12 DEF Evict, NextTry
<1>13. ASSUME NEW l \in Launchers, MockStarts(l) PROVE Goal'
  BY <1>13 DEF MockStarts
<1>14. ASSUME NEW l \in Launchers, MockFails(l) PROVE Goal'
  BY <1>14 DEF MockFails
<1>15. ASSUME NEW l \in Launchers, BackendStarts(l) PROVE Goal'
  BY <1>15 DEF BackendStarts
<1>16. ASSUME NEW l \in Launchers, BackendFails(l) PROVE Goal'
  BY <1>16 DEF BackendFails
<1>17. ASSUME NEW l \in Launchers, TruncateState(l) PROVE Goal'
  BY <1>17 DEF TruncateState
<1>18. ASSUME NEW l \in Launchers, WriteState(l) PROVE Goal'
  BY <1>18 DEF WriteState
<1>19. ASSUME NEW l \in Launchers, SaveFails(l) PROVE Goal'
  BY <1>19 DEF SaveFails
<1>20. ASSUME NEW l \in Launchers, ReturnStack(l) PROVE Goal'
  BY <1>20 DEF ReturnStack, Release
<1>21. ASSUME NEW l \in Launchers, ReturnError(l) PROVE Goal'
  BY <1>21 DEF ReturnError, Release
<1>22. ASSUME NEW l \in Launchers, Crash(l) PROVE Goal'
  BY <1>22 DEF Crash
<1>23. ASSUME NEW l \in Launchers, ServiceStops(l) PROVE Goal'
  BY <1>23 DEF ServiceStops
<1>24. ASSUME LockAges PROVE Goal'
  BY <1>24 DEF LockAges
<1>25. ASSUME UNCHANGED launcherVars PROVE Goal'
  BY <1>25
<1> QED
  BY <1>1, <1>2, <1>3, <1>4, <1>5, <1>6, <1>7, <1>8, <1>9, <1>10, <1>11, <1>12, <1>13,
     <1>14, <1>15, <1>16, <1>17, <1>18, <1>19, <1>20, <1>21, <1>22, <1>23, <1>24, <1>25
     DEF LauncherNext, LauncherStep

-----------------------------------------------------------------------------
(* The lock, while nobody has crashed and no lock has got old               *)

(* A launcher at work under the lock has its LauncherLock, and one that      *)
(* writes its pid has none yet.                                             *)
WorkersHold ==
  \A l \in Launchers :
    /\ pc[l] \in StartStages \cup {"returning", "failing"} => holds[l]
    /\ pc[l] = "owning" => ~holds[l]

(* No lock is stale.                                                        *)
NothingStale ==
  /\ ~lockFile.old
  /\ \A l \in Launchers : pc[l] \notin {"crashed", "evicting"}

CalmInv ==
  /\ HoldersOwnTheLockFile
  /\ calm => WorkersHold /\ NothingStale

LEMMA CalmInit ==
  ASSUME LauncherInit
  PROVE  CalmInv
  BY DEF LauncherInit, CalmInv, HoldersOwnTheLockFile, WorkersHold, NothingStale,
         At, StartStages, NoLock

LEMMA CalmStep ==
  ASSUME LauncherTypeOK, CalmInv, [LauncherNext]_launcherVars
  PROVE  CalmInv'
<1> USE LauncherAssumption, LockFacts
    DEF LauncherTypeOK, CalmInv, HoldersOwnTheLockFile, WorkersHold, NothingStale,
        StartStages, NoLock, Goto, At, launcherVars, ownVars, serviceVars
<1> DEFINE Goal == CalmInv
<1> SUFFICES ASSUME calm, calm' PROVE Goal'
  <2>1. \A l \in Launchers : LauncherStep(l) \/ ServiceStops(l) => calm' = calm
    BY DEF LauncherStep, LookForState, StateVanishes, ReadState, DoubtState, RemoveState,
           StackAnswers, StackDoesNotAnswer, TryLock, WriteOwner, WriteOwnerFails,
           CheckLock, Evict, MockStarts, MockFails, BackendStarts, BackendFails,
           TruncateState, WriteState, SaveFails, ReturnStack, ReturnError, Release,
           ServiceStops
  <2>2. ~calm => ~calm'
    BY <2>1 DEF LauncherNext, Crash, LockAges
  <2> QED
    BY <2>2
<1>1. ASSUME NEW l \in Launchers, LookForState(l) PROVE Goal'
  BY <1>1, WithoutStackFacts DEF LookForState
<1>2. ASSUME NEW l \in Launchers, StateVanishes(l) PROVE Goal'
  BY <1>2 DEF StateVanishes
<1>3. ASSUME NEW l \in Launchers, ReadState(l) PROVE Goal'
  <2>1. UNCHANGED <<holds, lockFile>>
    BY <1>3, ReadStateFacts
  <2>2. /\ \A m \in Launchers \ {l} : pc'[m] = pc[m]
        /\ pc'[l] \in {"doubting", "probing", WithoutStack(l)}
    BY <1>3, ReadStateFacts
  <2> QED
    BY <2>1, <2>2, WithoutStackFacts
<1>4. ASSUME NEW l \in Launchers, DoubtState(l) PROVE Goal'
  BY <1>4, WithoutStackFacts DEF DoubtState
<1>5. ASSUME NEW l \in Launchers, RemoveState(l) PROVE Goal'
  BY <1>5, WithoutStackFacts DEF RemoveState
<1>6. ASSUME NEW l \in Launchers, StackAnswers(l) PROVE Goal'
  BY <1>6 DEF StackAnswers
<1>7. ASSUME NEW l \in Launchers, StackDoesNotAnswer(l) PROVE Goal'
  BY <1>7, WithoutStackFacts DEF StackDoesNotAnswer
<1>8. ASSUME NEW l \in Launchers, TryLock(l) PROVE Goal'
  <2>1. CASE lockFile # NoLock
    <3>1. Goto(l, "checking") /\ UNCHANGED <<holds, lockFile>>
      BY <1>8, <2>1 DEF TryLock
    <3> QED
      BY <3>1
  <2>2. CASE lockFile = NoLock
    <3>1. \A m \in Launchers : ~holds[m] /\ pc[m] # "owning"
      BY <2>2
    <3>2. lockFile' = [owner |-> l, pid |-> FALSE, old |-> FALSE] /\ Goto(l, "owning")
          /\ UNCHANGED holds
      BY <1>8, <2>2 DEF TryLock
    <3> QED
      BY <3>1, <3>2
  <2> QED
    BY <2>1, <2>2
<1>9. ASSUME NEW l \in Launchers, WriteOwner(l) PROVE Goal'
  <2>1. lockFile.owner = l /\ lockFile' = [lockFile EXCEPT !.pid = TRUE]
    BY <1>9 DEF WriteOwner
  <2>2. lockFile'.owner = l /\ ~lockFile'.old
    BY <2>1 DEF Locks
  <2>3. holds' = [holds EXCEPT ![l] = TRUE] /\ Goto(l, "looking")
    BY <1>9 DEF WriteOwner
  <2> QED
    BY <2>1, <2>2, <2>3
<1>10. ASSUME NEW l \in Launchers, WriteOwnerFails(l) PROVE Goal'
  <2>1. lockFile.owner = l /\ ~holds[l]
    BY <1>10 DEF WriteOwnerFails
  <2>2. lockFile' = NoLock /\ UNCHANGED holds /\ Goto(l, "failed")
    BY <1>10 DEF WriteOwnerFails
  <2>3. \A m \in Launchers \ {l} : ~holds[m] /\ pc[m] # "owning"
    BY <2>1
  <2> QED
    BY <2>1, <2>2, <2>3
<1>11. ASSUME NEW l \in Launchers, CheckLock(l) PROVE Goal'
  <2>1. lockFile # NoLock => ~Stale(lockFile)
    BY DEF Stale
  <2>2. Goto(l, "looking") /\ UNCHANGED <<holds, lockFile>>
    BY <1>11, <2>1 DEF CheckLock, NextTry
  <2> QED
    BY <2>2
<1>12. ASSUME NEW l \in Launchers, Evict(l) PROVE Goal'
  BY <1>12 DEF Evict, NextTry
<1>13. ASSUME NEW l \in Launchers, MockStarts(l) PROVE Goal'
  BY <1>13 DEF MockStarts
<1>14. ASSUME NEW l \in Launchers, MockFails(l) PROVE Goal'
  BY <1>14 DEF MockFails
<1>15. ASSUME NEW l \in Launchers, BackendStarts(l) PROVE Goal'
  BY <1>15 DEF BackendStarts
<1>16. ASSUME NEW l \in Launchers, BackendFails(l) PROVE Goal'
  BY <1>16 DEF BackendFails
<1>17. ASSUME NEW l \in Launchers, TruncateState(l) PROVE Goal'
  BY <1>17 DEF TruncateState
<1>18. ASSUME NEW l \in Launchers, WriteState(l) PROVE Goal'
  BY <1>18 DEF WriteState
<1>19. ASSUME NEW l \in Launchers, SaveFails(l) PROVE Goal'
  BY <1>19 DEF SaveFails
<1>20. ASSUME NEW l \in Launchers, ReturnStack(l) PROVE Goal'
  BY <1>20 DEF ReturnStack, Release
<1>21. ASSUME NEW l \in Launchers, ReturnError(l) PROVE Goal'
  BY <1>21 DEF ReturnError, Release
<1>22. ASSUME NEW l \in Launchers, Crash(l) PROVE Goal'
  BY <1>22 DEF Crash
<1>23. ASSUME NEW l \in Launchers, ServiceStops(l) PROVE Goal'
  BY <1>23 DEF ServiceStops
<1>24. ASSUME LockAges PROVE Goal'
  BY <1>24 DEF LockAges
<1>25. ASSUME UNCHANGED launcherVars PROVE Goal'
  BY <1>25
<1> QED
  BY <1>1, <1>2, <1>3, <1>4, <1>5, <1>6, <1>7, <1>8, <1>9, <1>10, <1>11, <1>12, <1>13,
     <1>14, <1>15, <1>16, <1>17, <1>18, <1>19, <1>20, <1>21, <1>22, <1>23, <1>24, <1>25
     DEF LauncherNext, LauncherStep

-----------------------------------------------------------------------------
(* The theorems                                                            *)

(* Every variable keeps its type.                                           *)
THEOREM LauncherTypeCorrect == LauncherSpec => []LauncherTypeOK
<1>1. LauncherInit => TypeInv
  BY TypeInit
<1>2. TypeInv /\ [LauncherNext]_launcherVars => TypeInv'
  BY TypeStep
<1>3. TypeInv => LauncherTypeOK
  BY DEF TypeInv
<1> QED
  BY <1>1, <1>2, <1>3, PTL DEF LauncherSpec

(* A launcher that fails has left none of its announced services running,  *)
(* whatever crashes, ages or disappears meanwhile.                          *)
THEOREM NoServiceLeftRunning == LauncherSpec => []FailedLaunchersStopTheirServices
<1>1. LauncherInit => ServicesFollowTheStage /\ FailedLaunchersStopTheirServices
  BY SafetyInit
<1>2. LauncherTypeOK /\ ServicesFollowTheStage /\ FailedLaunchersStopTheirServices
      /\ [LauncherNext]_launcherVars
        => (ServicesFollowTheStage /\ FailedLaunchersStopTheirServices)'
  BY ServicesStep
<1> QED
  BY <1>1, <1>2, LauncherTypeCorrect, PTL DEF LauncherSpec

(* What a launcher returns can do what was asked of it.                     *)
THEOREM AnswersServe == LauncherSpec => []AnswersServeTheRequest
<1>1. LauncherInit => ProbedStacksServe /\ AnswersServeTheRequest
  BY DEF LauncherInit, ProbedStacksServe, AnswersServeTheRequest, At
<1>2. LauncherTypeOK /\ ProbedStacksServe /\ AnswersServeTheRequest
      /\ [LauncherNext]_launcherVars => (ProbedStacksServe /\ AnswersServeTheRequest)'
  BY AnswersStep
<1> QED
  BY <1>1, <1>2, LauncherTypeCorrect, PTL DEF LauncherSpec

(* Until a launcher crashes or is slower than STACK_LOCK_STALE_AFTER, the   *)
(* holder of a LauncherLock created the lock file that is there.            *)
THEOREM LockExcludes ==
  LauncherSpec => []HoldersOwnTheLockFile
<1>1. LauncherInit => CalmInv
  BY CalmInit
<1>2. LauncherTypeOK /\ CalmInv /\ [LauncherNext]_launcherVars => CalmInv'
  BY CalmStep
<1>3. CalmInv => HoldersOwnTheLockFile
  BY DEF CalmInv
<1> QED
  BY <1>1, <1>2, <1>3, LauncherTypeCorrect, PTL DEF LauncherSpec

(* Until then two launchers never start a stack at the same time.                 *)
THEOREM OneStarter ==
  LauncherSpec => []OnlyOneStarts
<1>1. LauncherInit => CalmInv
  BY CalmInit
<1>2. LauncherTypeOK /\ CalmInv /\ [LauncherNext]_launcherVars => CalmInv'
  BY CalmStep
<1>3. CalmInv => OnlyOneStarts
  BY DEF CalmInv, HoldersOwnTheLockFile, WorkersHold, OnlyOneStarts
<1> QED
  BY <1>1, <1>2, <1>3, LauncherTypeCorrect, PTL DEF LauncherSpec

-----------------------------------------------------------------------------
(* The agent: types.                                                       *)

CallRecords == [stage : Roundtrip \cup {"idle", "waiting", "ended"},
                session : Sessions \cup {None}, lock : Calls \cup {None},
                agent : Numbers \cup {None}]
PromptRecords == [stage : {"none", "asked", "started", "delayed", "replied",
                           "cancelled", "dropped"},
                  start : Nat, old : SUBSET Calls]
CancelRecords == [stage : {"none", "sent", "counted", "published", "lost"},
                  generation : Nat]

(* A call that may have made a session of the agent.                       *)
Past == {c \in Calls : call[c].stage \in {"inserting", "ready", "prompting", "ended"}}

AgentSessionsTypeOK ==
  /\ upstream \in [Sessions -> Numbers \cup {None}]
  /\ locks \in [Sessions -> Calls \cup {None}]
  /\ forgetting \subseteq Sessions
  /\ call \in [Calls -> CallRecords]
  /\ next \in Nat
  /\ count \in [Numbers -> Nat]
  /\ published \in [Numbers -> Nat]
  /\ prompt \in [Calls -> PromptRecords]
  /\ cancel \in [Calls -> CancelRecords]
  /\ restarts \in Nat

(* The agent has made no more sessions than calls asked for.               *)
Numbered == next <= Cardinality(Past)

(* A call is on a session of its own and of the agent once it prompts.     *)
CallInv(c) ==
  /\ call[c].stage # "idle" => call[c].session \in Sessions
  /\ call[c].stage \in {"loading", "inserting", "ready", "prompting"} => call[c].agent # None
  /\ call[c].stage \in {"idle", "waiting", "connecting", "creating"} => call[c].agent = None
  /\ prompt[c].stage # "none" \/ cancel[c].stage # "none" =>
       call[c].stage \in {"prompting", "ended"} /\ call[c].agent # None

-----------------------------------------------------------------------------
(* Who uses a session of the agent.                                        *)

Uses(n, s) ==
  \/ upstream[s] = n
  \/ \E c \in Calls : call[c].session = s /\ call[c].agent = n

UsedApart ==
  \A n \in Numbers, s, t \in Sessions : Uses(n, s) /\ Uses(n, t) => s = t

UsedAreMade == \A n \in Numbers, s \in Sessions : Uses(n, s) => n < next

(* The calls whose cancels have been published since c's prompt was taken  *)
(* up.                                                                     *)
Since(c) == Published(call[c].agent) \ prompt[c].old

PromptInv(c) ==
  /\ \A d \in prompt[c].old : cancel[d].stage = "published"
  /\ prompt[c].stage \in {"started", "delayed"} /\ Changed(c) => Since(c) # {}
  /\ prompt[c].stage = "cancelled" => Since(c) # {}

FirstAgentInv == UsedApart /\ UsedAreMade /\ \A c \in Calls : PromptInv(c)

AgentSessionsInv ==
  /\ AgentSessionsTypeOK
  /\ Numbered
  /\ \A c \in Calls : CallInv(c)
  /\ restarts = 0 => FirstAgentInv

LEMMA NothingIsNoNumber == None \notin Numbers /\ None \notin Calls
  BY AgentSessionsAssumption DEF Numbers

(* The numbers do not run out: who creates has not done so before.         *)
LEMMA NumbersSuffice ==
  ASSUME AgentSessionsTypeOK, Numbered, NEW c \in Calls, call[c].stage = "creating"
  PROVE  next \in Numbers
  <1>1. Past \subseteq Calls \ {c}
    BY DEF Past
  <1>2. /\ IsFiniteSet(Calls \ {c}) /\ IsFiniteSet(Calls)
        /\ Cardinality(Calls \ {c}) = Cardinality(Calls) - 1
        /\ Cardinality(Calls) \in Nat
    BY AgentSessionsAssumption, FS_RemoveElement, FS_CardinalityType
  <1>3. Cardinality(Past) <= Cardinality(Calls) - 1 /\ Cardinality(Past) \in Nat
    BY <1>1, <1>2, FS_Subset, FS_CardinalityType
  <1>. QED
    BY <1>2, <1>3 DEF Numbered, Numbers, AgentSessionsTypeOK

LEMMA Initially == AgentSessionsInit => AgentSessionsInv
  <1>. SUFFICES ASSUME AgentSessionsInit
                PROVE  AgentSessionsInv
    OBVIOUS
  <1>. USE DEF AgentSessionsInit
  <1>1. AgentSessionsTypeOK
    BY DEF AgentSessionsTypeOK, CallRecords, PromptRecords, CancelRecords, NoCall, NoPrompt, NoCancel
  <1>2. Numbered
    <2>1. Past = {}
      BY DEF Past, NoCall
    <2>. QED
      BY <2>1, FS_EmptySet DEF Numbered
  <1>3. \A c \in Calls : CallInv(c)
    BY DEF CallInv, NoCall, NoPrompt, NoCancel
  <1>4. FirstAgentInv
    <2>1. \A n \in Numbers, s \in Sessions : ~Uses(n, s)
      BY NothingIsNoNumber DEF Uses, NoCall
    <2>2. \A c \in Calls : PromptInv(c)
      BY DEF PromptInv, NoPrompt
    <2>. QED
      BY <2>1, <2>2 DEF FirstAgentInv, UsedApart, UsedAreMade
  <1>. QED
    BY <1>1, <1>2, <1>3, <1>4 DEF AgentSessionsInv

LEMMA TypesKept ==
  ASSUME AgentSessionsInv, [AgentSessionsNext]_agentSessionsVars
  PROVE  AgentSessionsTypeOK'
  <1>1. AgentSessionsTypeOK /\ Numbered /\ \A c \in Calls : CallInv(c)
    BY DEF AgentSessionsInv
  <1>. USE DEF AgentSessionsTypeOK, CallRecords, Roundtrip, GoOn, backendVars, agentVars
  <1>2. ASSUME NEW c \in Calls, Acquire(c)
        PROVE  AgentSessionsTypeOK'
    BY <1>1, <1>2 DEF Acquire
  <1>3. ASSUME NEW c \in Calls, Connect(c)
        PROVE  AgentSessionsTypeOK'
    <2>1. upstream[call[c].session] \in Numbers \cup {None}
      BY <1>1, <1>3 DEF Connect, CallInv
    <2>2. /\ \E stage \in {"creating", "loading"} :
               call' = [call EXCEPT ![c].stage = stage, ![c].agent = upstream[call[c].session]]
          /\ UNCHANGED <<upstream, locks, forgetting, forgets, agentVars>>
      BY <1>3 DEF Connect
    <2>3. ASSUME NEW stage \in {"creating", "loading"}, NEW n \in Numbers \cup {None}
          PROVE  [call EXCEPT ![c].stage = stage, ![c].agent = n] \in [Calls -> CallRecords]
      BY ZenonT(40), <1>1
    <2>4. PICK stage \in {"creating", "loading"} :
            call' = [call EXCEPT ![c].stage = stage, ![c].agent = upstream[call[c].session]]
      BY <2>2
    <2>5. call' \in [Calls -> CallRecords]
      <3>. HIDE DEF CallRecords
      <3>. QED
        BY <2>1, <2>3, <2>4
    <2>6. UNCHANGED <<upstream, locks, forgetting, next, count, published, prompt, cancel, restarts>>
      BY <2>2
    <2>. QED
      BY <1>1, <2>5, <2>6
  <1>4. ASSUME NEW c \in Calls, Load(c)
        PROVE  AgentSessionsTypeOK'
    BY <1>1, <1>4 DEF Load
  <1>5. ASSUME NEW c \in Calls, LoadFails(c)
        PROVE  AgentSessionsTypeOK'
    BY <1>1, <1>5 DEF LoadFails, CallInv
  <1>6. ASSUME NEW c \in Calls, Create(c)
        PROVE  AgentSessionsTypeOK'
    <2>1. next \in Numbers /\ next + 1 \in Nat
      BY <1>1, <1>6, NumbersSuffice DEF Create
    <2>. QED
      BY ZenonT(40), <1>1, <2>1, <1>6 DEF Create
  <1>7. ASSUME NEW c \in Calls, Insert(c)
        PROVE  AgentSessionsTypeOK'
    BY <1>1, <1>7 DEF Insert, CallInv
  <1>8. ASSUME NEW c \in Calls, SendPrompt(c)
        PROVE  AgentSessionsTypeOK'
    BY ZenonT(40), <1>1, <1>8 DEF SendPrompt, PromptRecords
  <1>9. ASSUME NEW c \in Calls, SendCancel(c)
        PROVE  AgentSessionsTypeOK'
    BY <1>1, <1>9 DEF SendCancel, CancelRecords
  <1>10. ASSUME NEW c \in Calls, End(c)
        PROVE  AgentSessionsTypeOK'
    BY ZenonT(40), <1>1, <1>10 DEF End, PromptRecords
  <1>11. ASSUME NEW c \in Calls, Subscribe(c)
        PROVE  AgentSessionsTypeOK'
    <2>1. call[c].agent \in Numbers
      BY <1>1, <1>11 DEF Subscribe, CallInv
    <2>. QED
      BY <1>1, <2>1, <1>11 DEF Subscribe, PromptRecords, Published
  <1>12. ASSUME NEW c \in Calls, Proceed(c)
        PROVE  AgentSessionsTypeOK'
    BY <1>1, <1>12 DEF Proceed, Answer, PromptRecords
  <1>13. ASSUME NEW c \in Calls, PermissionRefused(c)
        PROVE  AgentSessionsTypeOK'
    BY <1>1, <1>13 DEF PermissionRefused, Answer, PromptRecords
  <1>14. ASSUME NEW c \in Calls, Reply(c)
        PROVE  AgentSessionsTypeOK'
    BY <1>1, <1>14 DEF Reply, Answer, PromptRecords
  <1>15. ASSUME NEW c \in Calls, Cancelled(c)
        PROVE  AgentSessionsTypeOK'
    BY <1>1, <1>15 DEF Cancelled, Answer, PromptRecords
  <1>16. ASSUME NEW c \in Calls, CountCancel(c)
        PROVE  AgentSessionsTypeOK'
    <2>1. call[c].agent \in Numbers
      BY <1>1, <1>16 DEF CountCancel, CallInv
    <2>2. count' \in [Numbers -> Nat] /\ count'[call[c].agent] \in Nat
      BY <1>1, <2>1, <1>16 DEF CountCancel
    <2>. QED
      BY <1>1, <2>2, <1>16 DEF CountCancel, CancelRecords
  <1>17. ASSUME NEW c \in Calls, PublishCancel(c)
        PROVE  AgentSessionsTypeOK'
    BY <1>1, <1>17 DEF PublishCancel, CancelRecords
  <1>18. ASSUME NEW c \in Calls, LoseCancel(c)
        PROVE  AgentSessionsTypeOK'
    BY <1>1, <1>18 DEF LoseCancel, CancelRecords
  <1>19. ASSUME NEW c \in Calls, NEW s \in Sessions, Begin(c, s)
        PROVE  AgentSessionsTypeOK'
    BY <1>1, <1>19 DEF Begin, NoCall
  <1>20. ASSUME NEW s \in Sessions, Forget(s)
        PROVE  AgentSessionsTypeOK'
    BY <1>1, <1>20 DEF Forget
  <1>21. ASSUME NEW s \in Sessions, ForgetLock(s)
        PROVE  AgentSessionsTypeOK'
    BY <1>1, <1>21 DEF ForgetLock
  <1>22. CASE AgentRestart
    <2>1. prompt' \in [Calls -> PromptRecords]
      BY ZenonT(40), <1>1, <1>22 DEF AgentRestart, PromptRecords
    <2>2. cancel' \in [Calls -> CancelRecords]
      BY <1>1, <1>22 DEF AgentRestart, CancelRecords
    <2>3. call' \in [Calls -> CallRecords]
      BY <1>1, <1>22 DEF AgentRestart, InRoundtrip
    <2>. QED
      BY <1>1, <2>1, <2>2, <2>3, <1>22 DEF AgentRestart
  <1>23. CASE UNCHANGED agentSessionsVars
    BY <1>1, <1>23 DEF agentSessionsVars
  <1>. QED
    BY <1>2, <1>3, <1>4, <1>5, <1>6, <1>7, <1>8, <1>9, <1>10, <1>11, <1>12, <1>13, <1>14, <1>15, <1>16, <1>17, <1>18, <1>19, <1>20, <1>21, <1>22, <1>23 DEF AgentSessionsNext, CallStep, AgentStep

LEMMA CallsKept ==
  ASSUME AgentSessionsInv, [AgentSessionsNext]_agentSessionsVars, NEW d \in Calls
  PROVE  CallInv(d)'
  <1>1. AgentSessionsTypeOK /\ CallInv(d)
    BY DEF AgentSessionsInv
  <1>1a. /\ DOMAIN call = Calls /\ DOMAIN prompt = Calls /\ DOMAIN cancel = Calls
         /\ DOMAIN call[d] = {"stage", "session", "lock", "agent"}
         /\ DOMAIN prompt[d] = {"stage", "start", "old"}
         /\ DOMAIN cancel[d] = {"stage", "generation"}
         /\ next \in Nat
    BY <1>1 DEF AgentSessionsTypeOK, CallRecords, PromptRecords, CancelRecords
  <1>. USE DEF CallInv, GoOn, backendVars, agentVars
  <1>2. ASSUME NEW c \in Calls, Acquire(c)
        PROVE  CallInv(d)'
    BY <1>1, <1>1a, NothingIsNoNumber, <1>2 DEF Acquire
  <1>3. ASSUME NEW c \in Calls, Connect(c)
        PROVE  CallInv(d)'
    BY <1>1, <1>1a, NothingIsNoNumber, <1>3 DEF Connect
  <1>4. ASSUME NEW c \in Calls, Load(c)
        PROVE  CallInv(d)'
    BY <1>1, <1>1a, NothingIsNoNumber, <1>4 DEF Load
  <1>5. ASSUME NEW c \in Calls, LoadFails(c)
        PROVE  CallInv(d)'
    BY <1>1, <1>1a, NothingIsNoNumber, <1>5 DEF LoadFails
  <1>6. ASSUME NEW c \in Calls, Create(c)
        PROVE  CallInv(d)'
    <2>1. next # None
      BY <1>1a, AgentSessionsAssumption
    <2>. QED
      BY <1>1, <1>1a, <2>1, <1>6 DEF Create
  <1>7. ASSUME NEW c \in Calls, Insert(c)
        PROVE  CallInv(d)'
    BY <1>1, <1>1a, NothingIsNoNumber, <1>7 DEF Insert
  <1>8. ASSUME NEW c \in Calls, SendPrompt(c)
        PROVE  CallInv(d)'
    BY <1>1, <1>1a, NothingIsNoNumber, <1>8 DEF SendPrompt
  <1>9. ASSUME NEW c \in Calls, SendCancel(c)
        PROVE  CallInv(d)'
    BY <1>1, <1>1a, NothingIsNoNumber, <1>9 DEF SendCancel
  <1>10. ASSUME NEW c \in Calls, End(c)
        PROVE  CallInv(d)'
    BY <1>1, <1>1a, NothingIsNoNumber, <1>10 DEF End, InRoundtrip, Roundtrip
  <1>11. ASSUME NEW c \in Calls, Subscribe(c)
        PROVE  CallInv(d)'
    BY <1>1, <1>1a, NothingIsNoNumber, <1>11 DEF Subscribe
  <1>12. ASSUME NEW c \in Calls, Proceed(c)
        PROVE  CallInv(d)'
    BY <1>1, <1>1a, NothingIsNoNumber, <1>12 DEF Proceed, Answer
  <1>13. ASSUME NEW c \in Calls, PermissionRefused(c)
        PROVE  CallInv(d)'
    BY <1>1, <1>1a, NothingIsNoNumber, <1>13 DEF PermissionRefused, Answer
  <1>14. ASSUME NEW c \in Calls, Reply(c)
        PROVE  CallInv(d)'
    BY <1>1, <1>1a, NothingIsNoNumber, <1>14 DEF Reply, Answer
  <1>15. ASSUME NEW c \in Calls, Cancelled(c)
        PROVE  CallInv(d)'
    BY <1>1, <1>1a, NothingIsNoNumber, <1>15 DEF Cancelled, Answer
  <1>16. ASSUME NEW c \in Calls, CountCancel(c)
        PROVE  CallInv(d)'
    BY <1>1, <1>1a, NothingIsNoNumber, <1>16 DEF CountCancel
  <1>17. ASSUME NEW c \in Calls, PublishCancel(c)
        PROVE  CallInv(d)'
    BY <1>1, <1>1a, NothingIsNoNumber, <1>17 DEF PublishCancel
  <1>18. ASSUME NEW c \in Calls, LoseCancel(c)
        PROVE  CallInv(d)'
    BY <1>1, <1>1a, NothingIsNoNumber, <1>18 DEF LoseCancel
  <1>19. ASSUME NEW c \in Calls, NEW s \in Sessions, Begin(c, s)
        PROVE  CallInv(d)'
    BY <1>1, <1>1a, NothingIsNoNumber, <1>19 DEF Begin, NoCall
  <1>20. ASSUME NEW s \in Sessions, Forget(s)
        PROVE  CallInv(d)'
    BY <1>1, <1>1a, NothingIsNoNumber, <1>20 DEF Forget
  <1>21. ASSUME NEW s \in Sessions, ForgetLock(s)
        PROVE  CallInv(d)'
    BY <1>1, <1>1a, NothingIsNoNumber, <1>21 DEF ForgetLock
  <1>22. CASE AgentRestart
    <2>1. /\ call'[d].agent = call[d].agent /\ call'[d].session = call[d].session
          /\ call'[d].stage = call[d].stage \/ (InRoundtrip(d) /\ call'[d].stage = "ended")
          /\ prompt'[d].stage # "none" => prompt[d].stage # "none"
          /\ cancel'[d].stage # "none" => cancel[d].stage # "none"
      BY <1>1a, <1>22 DEF AgentRestart
    <2>. QED
      BY <1>1, <2>1 DEF InRoundtrip, Roundtrip
  <1>23. CASE UNCHANGED agentSessionsVars
    BY <1>1, <1>1a, NothingIsNoNumber, <1>23 DEF agentSessionsVars
  <1>. QED
    BY <1>2, <1>3, <1>4, <1>5, <1>6, <1>7, <1>8, <1>9, <1>10, <1>11, <1>12, <1>13, <1>14, <1>15, <1>16, <1>17, <1>18, <1>19, <1>20, <1>21, <1>22, <1>23 DEF AgentSessionsNext, CallStep, AgentStep

LEMMA PastGrows ==
  ASSUME AgentSessionsTypeOK, [AgentSessionsNext]_agentSessionsVars,
         ~\E c \in Calls : Create(c), ~AgentRestart
  PROVE  next' = next /\ Past \subseteq Past'
  <1>. DEFINE Goal == next' = next /\ Past \subseteq Past'
  <1>1. call \in [Calls -> CallRecords]
    BY DEF AgentSessionsTypeOK
  <1>. USE DEF Past, GoOn, CallRecords, backendVars, agentVars, Roundtrip
  <1>2. ASSUME NEW c \in Calls, Acquire(c)
        PROVE  Goal
    BY <1>1, <1>2 DEF Acquire
  <1>3. ASSUME NEW c \in Calls, Connect(c)
        PROVE  Goal
    BY <1>1, <1>3 DEF Connect
  <1>4. ASSUME NEW c \in Calls, Load(c)
        PROVE  Goal
    BY <1>1, <1>4 DEF Load
  <1>5. ASSUME NEW c \in Calls, LoadFails(c)
        PROVE  Goal
    BY <1>1, <1>5 DEF LoadFails
  <1>6. ASSUME NEW c \in Calls, Create(c)
        PROVE  Goal
    BY <1>6
  <1>7. ASSUME NEW c \in Calls, Insert(c)
        PROVE  Goal
    BY <1>1, <1>7 DEF Insert
  <1>8. ASSUME NEW c \in Calls, SendPrompt(c)
        PROVE  Goal
    BY <1>1, <1>8 DEF SendPrompt
  <1>9. ASSUME NEW c \in Calls, SendCancel(c)
        PROVE  Goal
    BY <1>1, <1>9 DEF SendCancel
  <1>10. ASSUME NEW c \in Calls, End(c)
        PROVE  Goal
    BY <1>1, <1>10 DEF End
  <1>11. ASSUME NEW c \in Calls, Subscribe(c)
        PROVE  Goal
    BY <1>1, <1>11 DEF Subscribe
  <1>12. ASSUME NEW c \in Calls, Proceed(c)
        PROVE  Goal
    BY <1>1, <1>12 DEF Proceed, Answer
  <1>13. ASSUME NEW c \in Calls, PermissionRefused(c)
        PROVE  Goal
    BY <1>1, <1>13 DEF PermissionRefused, Answer
  <1>14. ASSUME NEW c \in Calls, Reply(c)
        PROVE  Goal
    BY <1>1, <1>14 DEF Reply, Answer
  <1>15. ASSUME NEW c \in Calls, Cancelled(c)
        PROVE  Goal
    BY <1>1, <1>15 DEF Cancelled, Answer
  <1>16. ASSUME NEW c \in Calls, CountCancel(c)
        PROVE  Goal
    BY <1>1, <1>16 DEF CountCancel
  <1>17. ASSUME NEW c \in Calls, PublishCancel(c)
        PROVE  Goal
    BY <1>1, <1>17 DEF PublishCancel
  <1>18. ASSUME NEW c \in Calls, LoseCancel(c)
        PROVE  Goal
    BY <1>1, <1>18 DEF LoseCancel
  <1>19. ASSUME NEW c \in Calls, NEW s \in Sessions, Begin(c, s)
        PROVE  Goal
    BY <1>1, <1>19 DEF Begin
  <1>20. ASSUME NEW s \in Sessions, Forget(s)
        PROVE  Goal
    BY <1>1, <1>20 DEF Forget
  <1>21. ASSUME NEW s \in Sessions, ForgetLock(s)
        PROVE  Goal
    BY <1>1, <1>21 DEF ForgetLock
  <1>22. CASE AgentRestart
    BY <1>22
  <1>23. CASE UNCHANGED agentSessionsVars
    BY <1>1, <1>23 DEF agentSessionsVars
  <1>. QED
    BY <1>2, <1>3, <1>4, <1>5, <1>6, <1>7, <1>8, <1>9, <1>10, <1>11, <1>12, <1>13, <1>14, <1>15, <1>16, <1>17, <1>18, <1>19, <1>20, <1>21, <1>22, <1>23 DEF AgentSessionsNext, CallStep, AgentStep

LEMMA NumbersKept ==
  ASSUME AgentSessionsInv, [AgentSessionsNext]_agentSessionsVars
  PROVE  Numbered'
  <1>1. AgentSessionsTypeOK /\ Numbered
    BY DEF AgentSessionsInv
  <1>2. /\ IsFiniteSet(Past) /\ IsFiniteSet(Past')
        /\ Cardinality(Past) \in Nat /\ Cardinality(Past') \in Nat
    BY AgentSessionsAssumption, FS_Subset, FS_CardinalityType DEF Past
  <1>3. ASSUME NEW c \in Calls, Create(c)
        PROVE  Numbered'
    <2>1. next \in Nat /\ next' = next + 1 /\ c \notin Past
      BY <1>1, <1>3 DEF Create, Past, AgentSessionsTypeOK
    <2>2. Past' = Past \cup {c}
      BY <1>1, <1>3 DEF Create, Past, AgentSessionsTypeOK, CallRecords
    <2>3. Cardinality(Past') = Cardinality(Past) + 1
      BY <1>2, <2>1, <2>2, FS_AddElement
    <2>. QED
      BY <1>1, <1>2, <2>1, <2>3 DEF Numbered
  <1>4. CASE AgentRestart
    BY <1>2, <1>4 DEF Numbered, AgentRestart
  <1>5. ASSUME next' = next, Past \subseteq Past'
        PROVE  Numbered'
    <2>1. Cardinality(Past) <= Cardinality(Past')
      BY <1>2, <1>5, FS_Subset
    <2>. QED
      BY <1>1, <1>2, <1>5, <2>1 DEF Numbered, AgentSessionsTypeOK
  <1>6. CASE /\ ~\E c \in Calls : Create(c)
             /\ ~AgentRestart
    <2>1. next' = next /\ Past \subseteq Past'
      BY <1>1, <1>6, PastGrows
    <2>. QED
      BY <1>5, <2>1
  <1>. QED
    BY <1>3, <1>4, <1>6

(* Only a session that is created comes into use.                          *)
LEMMA UsesAreHandedOn ==
  ASSUME AgentSessionsInv, [AgentSessionsNext]_agentSessionsVars, ~AgentRestart
  PROVE  \/ /\ next' = next
            /\ \A n \in Numbers, s \in Sessions : Uses(n, s)' => Uses(n, s)
         \/ \E c \in Calls :
              /\ next' = next + 1
              /\ \A n \in Numbers, s \in Sessions :
                   Uses(n, s)' => Uses(n, s) \/ (n = next /\ s = call[c].session)
  <1>. DEFINE Goal == \/ /\ next' = next
                         /\ \A n \in Numbers, s \in Sessions : Uses(n, s)' => Uses(n, s)
                      \/ \E c \in Calls :
                           /\ next' = next + 1
                           /\ \A n \in Numbers, s \in Sessions :
                                Uses(n, s)' => Uses(n, s) \/ (n = next /\ s = call[c].session)
  <1>1. /\ upstream \in [Sessions -> Numbers \cup {None}]
        /\ call \in [Calls -> CallRecords]
        /\ None \notin Numbers
        /\ \A c \in Calls : CallInv(c)
    BY NothingIsNoNumber DEF AgentSessionsInv, AgentSessionsTypeOK
  <1>1a. \A c \in Calls : DOMAIN call[c] = {"stage", "session", "lock", "agent"}
    BY <1>1 DEF CallRecords
  <1>1b. ASSUME upstream' = upstream, next' = next,
                \A c \in Calls : call'[c].agent = call[c].agent /\ call'[c].session = call[c].session
         PROVE  Goal
    BY <1>1b DEF Uses
  <1>. HIDE DEF Goal
  <1>. USE DEF GoOn, backendVars, agentVars
  <1>2. ASSUME NEW c \in Calls, Acquire(c)
        PROVE  Goal
    BY <1>1, <1>1a, <1>1b, <1>2 DEF Acquire
  <1>3. ASSUME NEW c \in Calls, Connect(c)
        PROVE  Goal
    <2>1. next' = next /\ \A n \in Numbers, s \in Sessions : Uses(n, s)' => Uses(n, s)
      BY <1>1, <1>1a, <1>3 DEF Connect, Uses, CallInv
    <2>. QED
      BY <2>1 DEF Goal
  <1>4. ASSUME NEW c \in Calls, Load(c)
        PROVE  Goal
    BY <1>1, <1>1a, <1>1b, <1>4 DEF Load
  <1>5. ASSUME NEW c \in Calls, LoadFails(c)
        PROVE  Goal
    <2>1. next' = next /\ \A n \in Numbers, s \in Sessions : Uses(n, s)' => Uses(n, s)
      BY <1>1, <1>1a, <1>5 DEF LoadFails, Uses
    <2>. QED
      BY <2>1 DEF Goal
  <1>6. ASSUME NEW c \in Calls, Create(c)
        PROVE  Goal
    <2>1. next' = next + 1 /\ \A n \in Numbers, s \in Sessions :
                                Uses(n, s)' => Uses(n, s) \/ (n = next /\ s = call[c].session)
      BY <1>1, <1>1a, <1>6 DEF Create, Uses
    <2>. QED
      BY <2>1 DEF Goal
  <1>7. ASSUME NEW c \in Calls, Insert(c)
        PROVE  Goal
    <2>1. next' = next /\ \A n \in Numbers, s \in Sessions : Uses(n, s)' => Uses(n, s)
      BY <1>1, <1>1a, <1>7 DEF Insert, Uses
    <2>. QED
      BY <2>1 DEF Goal
  <1>8. ASSUME NEW c \in Calls, SendPrompt(c)
        PROVE  Goal
    BY <1>1, <1>1a, <1>1b, <1>8 DEF SendPrompt
  <1>9. ASSUME NEW c \in Calls, SendCancel(c)
        PROVE  Goal
    BY <1>1, <1>1a, <1>1b, <1>9 DEF SendCancel
  <1>10. ASSUME NEW c \in Calls, End(c)
        PROVE  Goal
    BY <1>1, <1>1a, <1>1b, <1>10 DEF End
  <1>11. ASSUME NEW c \in Calls, Subscribe(c)
        PROVE  Goal
    BY <1>1, <1>1a, <1>1b, <1>11 DEF Subscribe
  <1>12. ASSUME NEW c \in Calls, Proceed(c)
        PROVE  Goal
    BY <1>1b, <1>12 DEF Proceed, Answer
  <1>13. ASSUME NEW c \in Calls, PermissionRefused(c)
        PROVE  Goal
    BY <1>1b, <1>13 DEF PermissionRefused, Answer
  <1>14. ASSUME NEW c \in Calls, Reply(c)
        PROVE  Goal
    BY <1>1b, <1>14 DEF Reply, Answer
  <1>15. ASSUME NEW c \in Calls, Cancelled(c)
        PROVE  Goal
    BY <1>1b, <1>15 DEF Cancelled, Answer
  <1>16. ASSUME NEW c \in Calls, CountCancel(c)
        PROVE  Goal
    BY <1>1, <1>1a, <1>1b, <1>16 DEF CountCancel
  <1>17. ASSUME NEW c \in Calls, PublishCancel(c)
        PROVE  Goal
    BY <1>1, <1>1a, <1>1b, <1>17 DEF PublishCancel
  <1>18. ASSUME NEW c \in Calls, LoseCancel(c)
        PROVE  Goal
    BY <1>1, <1>1a, <1>1b, <1>18 DEF LoseCancel
  <1>19. ASSUME NEW c \in Calls, NEW s \in Sessions, Begin(c, s)
        PROVE  Goal
    <2>1. next' = next /\ \A n \in Numbers, t \in Sessions : Uses(n, t)' => Uses(n, t)
      BY <1>1, <1>1a, <1>19 DEF Begin, Uses, NoCall, CallInv
    <2>. QED
      BY <2>1 DEF Goal
  <1>20. ASSUME NEW s \in Sessions, Forget(s)
        PROVE  Goal
    <2>1. next' = next /\ \A n \in Numbers, t \in Sessions : Uses(n, t)' => Uses(n, t)
      BY <1>1, <1>1a, <1>20 DEF Forget, Uses
    <2>. QED
      BY <2>1 DEF Goal
  <1>21. ASSUME NEW s \in Sessions, ForgetLock(s)
        PROVE  Goal
    BY <1>1b, <1>21 DEF ForgetLock
  <1>22. CASE AgentRestart
    BY <1>22
  <1>23. CASE UNCHANGED agentSessionsVars
    <2>1. upstream' = upstream /\ call' = call /\ next' = next
      BY <1>23 DEF agentSessionsVars
    <2>2. \A c \in Calls : call'[c].agent = call[c].agent /\ call'[c].session = call[c].session
      BY <2>1
    <2>. QED
      BY <1>1b, <2>1, <2>2 DEF Goal
  <1>. QED
    BY <1>2, <1>3, <1>4, <1>5, <1>6, <1>7, <1>8, <1>9, <1>10, <1>11, <1>12, <1>13, <1>14, <1>15, <1>16, <1>17, <1>18, <1>19, <1>20, <1>21, <1>22, <1>23 DEF AgentSessionsNext, CallStep, AgentStep, Goal

(* What has been published stays so, and stays with its session.           *)
LEMMA CancelsStand ==
  ASSUME AgentSessionsInv, [AgentSessionsNext]_agentSessionsVars, ~AgentRestart, NEW d \in Calls
  PROVE  /\ prompt[d].stage # "none" \/ cancel[d].stage # "none" =>
              call'[d].agent = call[d].agent /\ call'[d].session = call[d].session
         /\ cancel[d].stage = "published" => cancel'[d].stage = "published"
  <1>1. CallInv(d) /\ call \in [Calls -> CallRecords] /\ cancel \in [Calls -> CancelRecords]
    BY DEF AgentSessionsInv, AgentSessionsTypeOK
  <1>1a. /\ DOMAIN call[d] = {"stage", "session", "lock", "agent"}
         /\ DOMAIN cancel[d] = {"stage", "generation"}
         /\ DOMAIN call = Calls /\ DOMAIN cancel = Calls
    BY <1>1 DEF CallRecords, CancelRecords
  <1>. DEFINE Goal == /\ prompt[d].stage # "none" \/ cancel[d].stage # "none" =>
                           call'[d].agent = call[d].agent /\ call'[d].session = call[d].session
                      /\ cancel[d].stage = "published" => cancel'[d].stage = "published"
  <1>. USE DEF GoOn, backendVars, agentVars, CallInv
  <1>2. ASSUME NEW c \in Calls, Acquire(c)
        PROVE  Goal
    BY <1>1, <1>1a, <1>2 DEF Acquire
  <1>3. ASSUME NEW c \in Calls, Connect(c)
        PROVE  Goal
    BY <1>1, <1>1a, <1>3 DEF Connect
  <1>4. ASSUME NEW c \in Calls, Load(c)
        PROVE  Goal
    BY <1>1, <1>1a, <1>4 DEF Load
  <1>5. ASSUME NEW c \in Calls, LoadFails(c)
        PROVE  Goal
    BY <1>1, <1>1a, <1>5 DEF LoadFails
  <1>6. ASSUME NEW c \in Calls, Create(c)
        PROVE  Goal
    BY <1>1, <1>1a, <1>6 DEF Create
  <1>7. ASSUME NEW c \in Calls, Insert(c)
        PROVE  Goal
    BY <1>1, <1>1a, <1>7 DEF Insert
  <1>8. ASSUME NEW c \in Calls, SendPrompt(c)
        PROVE  Goal
    BY <1>1, <1>1a, <1>8 DEF SendPrompt
  <1>9. ASSUME NEW c \in Calls, SendCancel(c)
        PROVE  Goal
    BY <1>1, <1>1a, <1>9 DEF SendCancel
  <1>10. ASSUME NEW c \in Calls, End(c)
        PROVE  Goal
    BY <1>1, <1>1a, <1>10 DEF End
  <1>11. ASSUME NEW c \in Calls, Subscribe(c)
        PROVE  Goal
    BY <1>1, <1>1a, <1>11 DEF Subscribe
  <1>12. ASSUME NEW c \in Calls, Proceed(c)
        PROVE  Goal
    BY <1>1, <1>1a, <1>12 DEF Proceed, Answer
  <1>13. ASSUME NEW c \in Calls, PermissionRefused(c)
        PROVE  Goal
    BY <1>1, <1>1a, <1>13 DEF PermissionRefused, Answer
  <1>14. ASSUME NEW c \in Calls, Reply(c)
        PROVE  Goal
    BY <1>1, <1>1a, <1>14 DEF Reply, Answer
  <1>15. ASSUME NEW c \in Calls, Cancelled(c)
        PROVE  Goal
    BY <1>1, <1>1a, <1>15 DEF Cancelled, Answer
  <1>16. ASSUME NEW c \in Calls, CountCancel(c)
        PROVE  Goal
    BY <1>1, <1>1a, <1>16 DEF CountCancel
  <1>17. ASSUME NEW c \in Calls, PublishCancel(c)
        PROVE  Goal
    BY <1>1, <1>1a, <1>17 DEF PublishCancel
  <1>18. ASSUME NEW c \in Calls, LoseCancel(c)
        PROVE  Goal
    BY <1>1, <1>1a, <1>18 DEF LoseCancel
  <1>19. ASSUME NEW c \in Calls, NEW s \in Sessions, Begin(c, s)
        PROVE  Goal
    BY <1>1, <1>1a, <1>19 DEF Begin
  <1>20. ASSUME NEW s \in Sessions, Forget(s)
        PROVE  Goal
    BY <1>1, <1>1a, <1>20 DEF Forget
  <1>21. ASSUME NEW s \in Sessions, ForgetLock(s)
        PROVE  Goal
    BY <1>1, <1>1a, <1>21 DEF ForgetLock
  <1>22. CASE AgentRestart
    BY <1>22
  <1>23. CASE UNCHANGED agentSessionsVars
    BY <1>1, <1>1a, <1>23 DEF agentSessionsVars
  <1>. QED
    BY <1>2, <1>3, <1>4, <1>5, <1>6, <1>7, <1>8, <1>9, <1>10, <1>11, <1>12, <1>13, <1>14, <1>15, <1>16, <1>17, <1>18, <1>19, <1>20, <1>21, <1>22, <1>23 DEF AgentSessionsNext, CallStep, AgentStep

(* A prompt that goes on has the same start.  A change of what is          *)
(* published is a cancel that has been published since.                    *)
LEMMA PromptsStand ==
  ASSUME AgentSessionsInv, [AgentSessionsNext]_agentSessionsVars, ~AgentRestart, NEW d \in Calls
  PROVE  \/ prompt'[d] = prompt[d]
         \/ /\ prompt'[d].stage \in {"asked", "dropped", "replied"}
            /\ prompt'[d].old = prompt[d].old
         \/ /\ prompt'[d].stage = "started"
            /\ prompt'[d].start = published[call[d].agent] /\ prompt'[d].old = Published(call[d].agent)
            /\ UNCHANGED <<call, cancel, published>>
         \/ /\ prompt[d].stage \in {"started", "delayed"} /\ prompt'[d].old = prompt[d].old
            /\ prompt'[d].start = prompt[d].start
            /\ \/ prompt'[d].stage = "delayed" \/ Changed(d)
            /\ UNCHANGED <<call, cancel, published>>
  <1>1. CallInv(d) /\ prompt \in [Calls -> PromptRecords]
    BY DEF AgentSessionsInv, AgentSessionsTypeOK
  <1>1a. DOMAIN prompt[d] = {"stage", "start", "old"} /\ DOMAIN prompt = Calls
         /\ prompt[d].stage \in {"none", "asked", "started", "delayed", "replied", "cancelled", "dropped"}
    BY <1>1 DEF PromptRecords
  <1>. DEFINE Goal == \/ prompt'[d] = prompt[d]
                      \/ /\ prompt'[d].stage \in {"asked", "dropped", "replied"}
                         /\ prompt'[d].old = prompt[d].old
                      \/ /\ prompt'[d].stage = "started"
                         /\ prompt'[d].start = published[call[d].agent]
                         /\ prompt'[d].old = Published(call[d].agent)
                         /\ UNCHANGED <<call, cancel, published>>
                      \/ /\ prompt[d].stage \in {"started", "delayed"} /\ prompt'[d].old = prompt[d].old
                         /\ prompt'[d].start = prompt[d].start
                         /\ \/ prompt'[d].stage = "delayed" \/ Changed(d)
                         /\ UNCHANGED <<call, cancel, published>>
  <1>. USE DEF GoOn, backendVars, agentVars
  <1>2. ASSUME NEW c \in Calls, Acquire(c)
        PROVE  Goal
    BY <1>1, <1>1a, <1>2 DEF Acquire
  <1>3. ASSUME NEW c \in Calls, Connect(c)
        PROVE  Goal
    BY <1>1, <1>1a, <1>3 DEF Connect
  <1>4. ASSUME NEW c \in Calls, Load(c)
        PROVE  Goal
    BY <1>1, <1>1a, <1>4 DEF Load
  <1>5. ASSUME NEW c \in Calls, LoadFails(c)
        PROVE  Goal
    BY <1>1, <1>1a, <1>5 DEF LoadFails
  <1>6. ASSUME NEW c \in Calls, Create(c)
        PROVE  Goal
    BY <1>1, <1>1a, <1>6 DEF Create
  <1>7. ASSUME NEW c \in Calls, Insert(c)
        PROVE  Goal
    BY <1>1, <1>1a, <1>7 DEF Insert
  <1>8. ASSUME NEW c \in Calls, SendPrompt(c)
        PROVE  Goal
    BY <1>1, <1>1a, <1>8 DEF SendPrompt
  <1>9. ASSUME NEW c \in Calls, SendCancel(c)
        PROVE  Goal
    BY <1>1, <1>1a, <1>9 DEF SendCancel
  <1>10. ASSUME NEW c \in Calls, End(c)
        PROVE  Goal
    <2>1. CASE c = d
      <3>1. [prompt[d] EXCEPT !.stage = prompt[d].stage] = prompt[d]
        BY <1>1, <1>1a DEF PromptRecords
      <3>2. CASE prompt[d].stage \in {"none", "replied", "cancelled"}
        BY <1>1a, <1>10, <2>1, <3>1, <3>2 DEF End
      <3>3. CASE prompt[d].stage \notin {"none", "replied", "cancelled"}
        BY <1>1a, <1>10, <2>1, <3>3 DEF End
      <3>. QED
        BY <3>2, <3>3
    <2>2. CASE c # d
      BY <1>1a, <1>10, <2>2 DEF End
    <2>. QED
      BY <2>1, <2>2
  <1>11. ASSUME NEW c \in Calls, Subscribe(c)
        PROVE  Goal
    BY <1>1, <1>1a, <1>11 DEF Subscribe
  <1>12. ASSUME NEW c \in Calls, Proceed(c)
        PROVE  Goal
    BY <1>1, <1>1a, <1>12 DEF Proceed, Answer
  <1>13. ASSUME NEW c \in Calls, PermissionRefused(c)
        PROVE  Goal
    BY <1>1, <1>1a, <1>13 DEF PermissionRefused, Answer
  <1>14. ASSUME NEW c \in Calls, Reply(c)
        PROVE  Goal
    BY <1>1, <1>1a, <1>14 DEF Reply, Answer
  <1>15. ASSUME NEW c \in Calls, Cancelled(c)
        PROVE  Goal
    BY <1>1, <1>1a, <1>15 DEF Cancelled, Answer
  <1>16. ASSUME NEW c \in Calls, CountCancel(c)
        PROVE  Goal
    BY <1>1, <1>1a, <1>16 DEF CountCancel
  <1>17. ASSUME NEW c \in Calls, PublishCancel(c)
        PROVE  Goal
    BY <1>1, <1>1a, <1>17 DEF PublishCancel
  <1>18. ASSUME NEW c \in Calls, LoseCancel(c)
        PROVE  Goal
    BY <1>1, <1>1a, <1>18 DEF LoseCancel
  <1>19. ASSUME NEW c \in Calls, NEW s \in Sessions, Begin(c, s)
        PROVE  Goal
    BY <1>1, <1>1a, <1>19 DEF Begin
  <1>20. ASSUME NEW s \in Sessions, Forget(s)
        PROVE  Goal
    BY <1>1, <1>1a, <1>20 DEF Forget
  <1>21. ASSUME NEW s \in Sessions, ForgetLock(s)
        PROVE  Goal
    BY <1>1, <1>1a, <1>21 DEF ForgetLock
  <1>22. CASE AgentRestart
    BY <1>22
  <1>23. CASE UNCHANGED agentSessionsVars
    BY <1>1, <1>1a, <1>23 DEF agentSessionsVars
  <1>. QED
    BY <1>2, <1>3, <1>4, <1>5, <1>6, <1>7, <1>8, <1>9, <1>10, <1>11, <1>12, <1>13, <1>14, <1>15, <1>16, <1>17, <1>18, <1>19, <1>20, <1>21, <1>22, <1>23 DEF AgentSessionsNext, CallStep, AgentStep

LEMMA PublishedGrows ==
  ASSUME AgentSessionsInv, [AgentSessionsNext]_agentSessionsVars, ~AgentRestart,
         NEW n \in Numbers
  PROVE  /\ Published(n) \subseteq Published(n)'
         /\ \/ published'[n] = published[n]
            \/ \E e \in Calls : cancel[e].stage # "published" /\ e \in Published(n)'
  <1>1. Published(n) \subseteq Published(n)'
    BY CancelsStand DEF Published
  <1>2. published \in [Numbers -> Nat] /\ cancel \in [Calls -> CancelRecords]
    BY DEF AgentSessionsInv, AgentSessionsTypeOK
  <1>3. ASSUME NEW c \in Calls, PublishCancel(c)
        PROVE  \/ published'[n] = published[n]
               \/ \E e \in Calls : cancel[e].stage # "published" /\ e \in Published(n)'
    <2>1. CASE call[c].agent = n
      <3>1. cancel[c].stage # "published" /\ call'[c].agent = n /\ cancel'[c].stage = "published"
        BY <1>2, <1>3, <2>1 DEF PublishCancel, backendVars, CancelRecords
      <3>. QED
        BY <3>1 DEF Published
    <2>2. CASE call[c].agent # n
      BY <1>2, <1>3, <2>2 DEF PublishCancel
    <2>. QED
      BY <2>1, <2>2
  <1>4. CASE ~\E c \in Calls : PublishCancel(c)
    <2>1. UNCHANGED published
      BY <1>4 DEF AgentSessionsNext, CallStep, AgentStep, agentSessionsVars, backendVars, agentVars,
                  Begin, Acquire, Connect, Load, LoadFails, Create, Insert, SendPrompt, SendCancel,
                  End, Forget, ForgetLock, Subscribe, Proceed, PermissionRefused, Reply, Cancelled,
                  CountCancel, LoseCancel, Answer
    <2>. QED
      BY <1>1, <2>1
  <1>. QED
    BY <1>1, <1>3, <1>4

LEMMA PromptsKept ==
  ASSUME AgentSessionsInv, [AgentSessionsNext]_agentSessionsVars, ~AgentRestart,
         NEW d \in Calls, PromptInv(d)
  PROVE  PromptInv(d)'
  <1>1. CallInv(d) /\ (prompt[d].stage # "none" => call[d].agent \in Numbers)
    BY DEF AgentSessionsInv, AgentSessionsTypeOK, CallRecords, CallInv
  <1>2. prompt[d].stage # "none" => call'[d].agent = call[d].agent
    BY CancelsStand
  <1>3. \A n \in Numbers : Published(n) \subseteq Published(n)'
    BY PublishedGrows
  <1>4. \A e \in prompt[d].old \cap Calls : cancel'[e].stage = "published"
    BY CancelsStand DEF PromptInv
  <1>5. prompt[d].old \subseteq Calls
    BY DEF AgentSessionsInv, AgentSessionsTypeOK, PromptRecords
  <1>6. ASSUME prompt'[d] = prompt[d]
        PROVE  PromptInv(d)'
    <2>1. ASSUME prompt[d].stage \in {"started", "delayed", "cancelled"}
          PROVE  Since(d) # {} => Since(d)' # {}
      <3>1. PICK n \in Numbers : n = call[d].agent
        BY <1>1, <2>1
      <3>2. Published(n) \subseteq Published(n)' /\ call'[d].agent = n
        BY <1>2, <1>3, <2>1, <3>1
      <3>3. Since(d) = Published(n) \ prompt[d].old /\ Since(d)' = Published(n)' \ prompt[d].old
        BY <1>6, <3>1, <3>2 DEF Since, Published
      <3>. QED
        BY <3>2, <3>3
    <2>2. ASSUME prompt[d].stage \in {"started", "delayed"}, Changed(d)'
          PROVE  Since(d)' # {}
      <3>0. PICK n \in Numbers : n = call[d].agent
        BY <1>1, <2>2
      <3>1. call'[d].agent = n /\ published'[n] # prompt[d].start
        BY <1>2, <1>6, <2>2, <3>0 DEF Changed
      <3>2. CASE published'[n] = published[n]
        BY <2>1, <2>2, <3>0, <3>1, <3>2 DEF Changed, PromptInv
      <3>3. CASE \E e \in Calls : cancel[e].stage # "published" /\ e \in Published(n)'
        <4>1. PICK e \in Calls : cancel[e].stage # "published" /\ e \in Published(n)'
          BY <3>3
        <4>2. e \notin prompt'[d].old
          BY <1>6, <4>1 DEF PromptInv
        <4>. QED
          BY <3>1, <4>1, <4>2 DEF Since, Published
      <3>. QED
        BY <3>1, <3>2, <3>3, PublishedGrows
    <2>. QED
      BY <1>4, <1>5, <1>6, <2>1, <2>2 DEF PromptInv
  <1>7. ASSUME prompt'[d].stage \in {"asked", "dropped", "replied"}, prompt'[d].old = prompt[d].old
        PROVE  PromptInv(d)'
    BY <1>4, <1>5, <1>7 DEF PromptInv
  <1>8. ASSUME prompt'[d].stage = "started", prompt'[d].start = published[call[d].agent],
               prompt'[d].old = Published(call[d].agent), UNCHANGED <<call, cancel, published>>
        PROVE  PromptInv(d)'
    BY <1>8 DEF PromptInv, Published, Changed
  <1>9. ASSUME prompt[d].stage \in {"started", "delayed"}, prompt'[d].old = prompt[d].old,
               prompt'[d].start = prompt[d].start,
               prompt'[d].stage = "delayed" \/ Changed(d), UNCHANGED <<call, cancel, published>>
        PROVE  PromptInv(d)'
    <2>1. Since(d)' = Since(d) /\ (Changed(d)' <=> Changed(d))
      BY <1>9 DEF Since, Published, Changed
    <2>. QED
      BY <1>9, <2>1 DEF PromptInv
  <1>. QED
    BY <1>6, <1>7, <1>8, <1>9, PromptsStand

LEMMA AgentSessionsKept ==
  ASSUME AgentSessionsInv, [AgentSessionsNext]_agentSessionsVars
  PROVE  AgentSessionsInv'
  <1>1. AgentSessionsTypeOK' /\ Numbered' /\ \A c \in Calls : CallInv(c)'
    BY TypesKept, NumbersKept, CallsKept
  <1>2. ASSUME restarts' = 0
        PROVE  FirstAgentInv'
    <2>0. ~AgentRestart
      BY <1>2 DEF AgentSessionsInv, AgentSessionsTypeOK, AgentRestart
    <2>0a. restarts' = restarts
      BY <2>0 DEF AgentSessionsNext, CallStep,
                  AgentStep, agentSessionsVars, backendVars, agentVars,
                  Begin, Acquire, Connect, Load, LoadFails, Create, Insert, SendPrompt, SendCancel,
                  End, Forget, ForgetLock, Subscribe, Proceed, PermissionRefused, Reply, Cancelled,
                  CountCancel, PublishCancel, LoseCancel, Answer
    <2>1. ~AgentRestart /\ restarts = 0
      BY <1>2, <2>0, <2>0a
    <2>2. FirstAgentInv /\ next \in Nat
      BY <2>1 DEF AgentSessionsInv, AgentSessionsTypeOK
    <2>3. UsedApart' /\ UsedAreMade'
      <3>1. CASE next' = next /\ \A n \in Numbers, s \in Sessions : Uses(n, s)' => Uses(n, s)
        BY <2>2, <3>1 DEF FirstAgentInv, UsedApart, UsedAreMade
      <3>2. CASE \E c \in Calls :
                   /\ next' = next + 1
                   /\ \A n \in Numbers, s \in Sessions :
                        Uses(n, s)' => Uses(n, s) \/ (n = next /\ s = call[c].session)
        <4>1. PICK c \in Calls :
                   /\ next' = next + 1
                   /\ \A n \in Numbers, s \in Sessions :
                        Uses(n, s)' => Uses(n, s) \/ (n = next /\ s = call[c].session)
          BY <3>2
        <4>2. \A s \in Sessions : next \in Numbers => ~Uses(next, s)
          BY <2>2 DEF FirstAgentInv, UsedAreMade
        <4>3. \A n \in Numbers : n \in Nat
          BY DEF Numbers
        <4>4. UsedAreMade'
          BY <2>2, <4>1, <4>3 DEF FirstAgentInv, UsedAreMade
        <4>5. UsedApart'
          BY <2>2, <4>1, <4>2 DEF FirstAgentInv, UsedApart
        <4>. QED
          BY <4>4, <4>5
      <3>. QED
        BY <2>1, <3>1, <3>2, UsesAreHandedOn
    <2>4. \A c \in Calls : PromptInv(c)'
      BY <2>1, <2>2, PromptsKept DEF FirstAgentInv
    <2>. QED
      BY <2>3, <2>4 DEF FirstAgentInv
  <1>. QED
    BY <1>1, <1>2 DEF AgentSessionsInv

LEMMA AgentSessionsAlways == AgentSessionsSpec => []AgentSessionsInv
  BY Initially, AgentSessionsKept, PTL DEF AgentSessionsSpec

-----------------------------------------------------------------------------
(* The theorems.                                                           *)

(* Every map, call, task and notification keeps its type; in particular    *)
(* the agent never numbers more sessions than there were calls.            *)
THEOREM AgentSessionsAreTyped == AgentSessionsSpec => []AgentSessionsTypeOK
  BY AgentSessionsAlways, PTL DEF AgentSessionsInv

(* However sessions are forgotten while their calls run, fail to load or   *)
(* are created again, no two sessions of the backend are on one session of *)
(* the agent (upstream_sessions, session_lock, forget_session).            *)
THEOREM NoAgentSessionIsShared == AgentSessionsSpec => []AgentSessionsAreNotShared
  <1>1. AgentSessionsInv => AgentSessionsAreNotShared
    <2>. SUFFICES ASSUME AgentSessionsInv, restarts = 0
                  PROVE  AgentSessionsAreNotShared
      BY DEF AgentSessionsAreNotShared
    <2>1. UsedApart /\ AgentSessionsTypeOK /\ \A c \in Calls : CallInv(c)
      BY DEF AgentSessionsInv, FirstAgentInv
    <2>2. ASSUME NEW s \in Sessions, NEW t \in Sessions, s # t, upstream[s] # None
          PROVE  upstream[s] # upstream[t]
      BY <2>1, <2>2 DEF UsedApart, Uses, AgentSessionsTypeOK
    <2>3. ASSUME NEW c \in Calls, NEW d \in Calls, InRoundtrip(c), InRoundtrip(d),
                 call[c].session # call[d].session, call[c].agent # None
          PROVE  call[c].agent # call[d].agent
      <3>1. call[c].agent \in Numbers
        BY <2>1, <2>3 DEF AgentSessionsTypeOK, CallRecords
      <3>2. call[c].session \in Sessions /\ call[d].session \in Sessions
        BY <2>1, <2>3 DEF CallInv, InRoundtrip, Roundtrip
      <3>. QED
        BY <2>1, <2>3, <3>1, <3>2 DEF UsedApart, Uses
    <2>. QED
      BY <2>2, <2>3 DEF AgentSessionsAreNotShared
  <1>. QED
    BY <1>1, AgentSessionsAlways, PTL

(* A prompt is answered as cancelled only for a cancel of its own session, *)
(* whatever order the agent publishes the cancels of other calls in        *)
(* (MockAgent::cancel, wait_for_cancel).                                   *)
THEOREM CancelsReachTheirSession == AgentSessionsSpec => []CancelsStayInTheirSession
  <1>1. AgentSessionsInv => CancelsStayInTheirSession
    <2>. SUFFICES ASSUME AgentSessionsInv, restarts = 0, NEW c \in Calls, prompt[c].stage = "cancelled"
                  PROVE  \E d \in Calls \ prompt[c].old : /\ call[d].session = call[c].session
                                                         /\ cancel[d].stage = "published"
      BY DEF CancelsStayInTheirSession
    <2>1. /\ UsedApart /\ AgentSessionsTypeOK /\ PromptInv(c)
          /\ \A d \in Calls : CallInv(d)
      BY DEF AgentSessionsInv, FirstAgentInv
    <2>2. PICK d \in Calls : d \in Published(call[c].agent) /\ d \notin prompt[c].old
      BY <2>1 DEF PromptInv, Since, Published
    <2>3. call[d].agent = call[c].agent /\ cancel[d].stage = "published"
      BY <2>2 DEF Published
    <2>4. /\ call[c].agent \in Numbers
          /\ call[c].session \in Sessions /\ call[d].session \in Sessions
      <3>1. CallInv(c) /\ CallInv(d)
        BY <2>1
      <3>. QED
        BY <2>1, <2>3, <3>1 DEF CallInv, AgentSessionsTypeOK, CallRecords
    <2>5. call[d].session = call[c].session
      BY <2>1, <2>3, <2>4 DEF UsedApart, Uses
    <2>. QED
      BY <2>2, <2>3, <2>5
  <1>. QED
    BY <1>1, AgentSessionsAlways, PTL
=============================================================================
