---------------------------- MODULE LauncherStack ----------------------------
(* The launcher of the bundled stack, launcher_stack.rs with lock.rs and    *)
(* state.rs: every `acp` command that needs a backend reuses the stack that  *)
(* a state file records, or starts a mock and a backend under a lock file    *)
(* and records them. Launchers are processes that share nothing but the two  *)
(* files, find each other's files half-written, and may crash.               *)
(*                                                                           *)
(* A stack is named by the launcher that started it: each starts one at      *)
(* most. Left out: stacks that are not shared (an explicit server), the      *)
(* identity of the executable, which is one and the same here, and I/O       *)
(* errors on the files other than a failing write.                           *)
EXTENDS Integers

CONSTANTS
  Launchers,  \* the launcher processes
  Wants,      \* what they may be for: "cli", or "web", which needs a frontend
  MaxTries,   \* STACK_LOCK_WAIT_ATTEMPTS
  Nobody      \* no launcher

ASSUME LauncherAssumption ==
  /\ Wants \subseteq {"cli", "web"}
  /\ MaxTries \in Nat
  /\ Nobody \notin Launchers

VARIABLES
  wants,      \* what each launcher is for
  pc,         \* where it stands in prepare_persistent_bundled_stack_with_retry
  tries,      \* the attempts it has left
  holds,      \* it has a LauncherLock, which removes the lock file when dropped
  seen,       \* the stack it read from the state file, or returned
  handle,     \* its open state file is the one at the path
  mock,       \* the services it started
  backend,
  lockFile,   \* who created the lock file, whether its pid is in it, its age
  stateFile,  \* what the state file holds
  calm        \* history: no launcher has crashed and no lock has got old

ownVars == <<pc, tries, holds, seen, handle>>
serviceVars == <<mock, backend>>
launcherVars == <<wants, ownVars, serviceVars, lockFile, stateFile, calm>>

NoLock == [owner |-> Nobody, pid |-> FALSE, old |-> FALSE]
NoState == [form |-> "absent", stack |-> Nobody]
Truncated == [form |-> "truncated", stack |-> Nobody]
Garbled == [form |-> "garbled", stack |-> Nobody]
Recorded(l) == [form |-> "valid", stack |-> l]

Locks == {NoLock} \cup [owner : Launchers, pid : BOOLEAN, old : BOOLEAN]
States == {NoState, Truncated, Garbled} \cup {Recorded(l) : l \in Launchers}

At(l, stage) == pc[l] = stage
Goto(l, stage) == pc' = [pc EXCEPT ![l] = stage]

\* A service that was told to listen never said so: it is not in the state
\* file, and nobody terminates it.
Services == {"none", "silent", "up", "down"}
Healthy(l) == mock[l] = "up" /\ backend[l] = "up"

(***************************************************************************)
(* Reusing what the state file records                                     *)
(***************************************************************************)

\* Where a launcher goes when there is nothing to reuse: under the lock it
\* starts a stack; without, it tries for the lock; after its last attempt it
\* gives up.
WithoutStack(l) ==
  IF holds[l] THEN "starting mock"
  ELSE IF tries[l] = 0 THEN "failed" ELSE "locking"

\* launcher_state_supports_requested_stack
Supports(stack, l) == wants[l] = "web" => wants[stack] = "web"

\* load_launcher_state asks for the file first and reads it then.
LookForState(l) ==
  /\ At(l, "looking")
  /\ Goto(l, IF stateFile = NoState THEN WithoutStack(l) ELSE "reading")
  /\ UNCHANGED <<wants, tries, holds, seen, handle, serviceVars, lockFile, stateFile, calm>>

\* Another launcher has removed the file in between: an error, and not a parse
\* error, so this launcher fails.
StateVanishes(l) ==
  /\ At(l, "reading")
  /\ stateFile = NoState
  /\ Goto(l, IF holds[l] THEN "failing" ELSE "failed")
  /\ UNCHANGED <<wants, tries, holds, seen, handle, serviceVars, lockFile, stateFile, calm>>

\* The rest of reusable_launcher_state that needs no network.
ReadState(l) ==
  /\ At(l, "reading")
  /\ \/ /\ stateFile.form \in {"truncated", "garbled"}
        /\ Goto(l, "doubting")
        /\ UNCHANGED seen
     \/ /\ stateFile.form = "valid"
        /\ ~Supports(stateFile.stack, l)
        /\ Goto(l, WithoutStack(l))
        /\ UNCHANGED seen
     \/ /\ stateFile.form = "valid"
        /\ Supports(stateFile.stack, l)
        /\ Goto(l, "probing")
        /\ seen' = [seen EXCEPT ![l] = stateFile.stack]
  /\ UNCHANGED <<wants, tries, holds, handle, serviceVars, lockFile, stateFile, calm>>

\* warn_and_maybe_clear_invalid_launcher_state looks for the lock file only
\* after the state was read and found invalid, and then removes the state.
DoubtState(l) ==
  /\ At(l, "doubting")
  /\ Goto(l, IF lockFile = NoLock THEN "removing" ELSE WithoutStack(l))
  /\ UNCHANGED <<wants, tries, holds, seen, handle, serviceVars, lockFile, stateFile, calm>>

RemoveState(l) ==
  /\ At(l, "removing")
  /\ stateFile' = NoState
  /\ handle' = [m \in Launchers |-> FALSE]
  /\ Goto(l, WithoutStack(l))
  /\ UNCHANGED <<wants, tries, holds, seen, serviceVars, lockFile, calm>>

\* managed_stack_is_healthy: both services answer in time.
StackAnswers(l) ==
  /\ At(l, "probing")
  /\ Healthy(seen[l])
  /\ Goto(l, IF holds[l] THEN "returning" ELSE "done")
  /\ UNCHANGED <<wants, tries, holds, seen, handle, serviceVars, lockFile, stateFile, calm>>

\* They are gone, or too slow.
StackDoesNotAnswer(l) ==
  /\ At(l, "probing")
  /\ Goto(l, WithoutStack(l))
  /\ seen' = [seen EXCEPT ![l] = Nobody]
  /\ UNCHANGED <<wants, tries, holds, handle, serviceVars, lockFile, stateFile, calm>>

(***************************************************************************)
(* The lock file                                                           *)
(***************************************************************************)

\* try_acquire_launcher_lock
TryLock(l) ==
  /\ At(l, "locking")
  /\ \/ /\ lockFile = NoLock
        /\ lockFile' = [owner |-> l, pid |-> FALSE, old |-> FALSE]
        /\ Goto(l, "owning")
     \/ /\ lockFile # NoLock
        /\ Goto(l, "checking")
        /\ UNCHANGED lockFile
  /\ UNCHANGED <<wants, tries, holds, seen, handle, serviceVars, stateFile, calm>>

\* write_launcher_lock_owner, into the file it created: that may have been
\* removed since.
WriteOwner(l) ==
  /\ At(l, "owning")
  /\ lockFile' = IF lockFile.owner = l THEN [lockFile EXCEPT !.pid = TRUE] ELSE lockFile
  /\ holds' = [holds EXCEPT ![l] = TRUE]
  /\ Goto(l, "looking")
  /\ UNCHANGED <<wants, tries, seen, handle, serviceVars, stateFile, calm>>

\* The write fails: whatever lock file is at the path goes.
WriteOwnerFails(l) ==
  /\ At(l, "owning")
  /\ lockFile' = NoLock
  /\ Goto(l, "failed")
  /\ UNCHANGED <<wants, tries, holds, seen, handle, serviceVars, stateFile, calm>>

\* Mutant: a lock without a pid has no owner that runs.
StaleWithoutPid(lock) ==
  \/ lock.pid => pc[lock.owner] = "crashed"
  \/ lock.old

\* clear_stale_launcher_lock: a lock is stale when its owner does not run, or
\* when it is old, whoever owns it.
Stale(lock) ==
  \/ lock.pid /\ pc[lock.owner] = "crashed"
  \/ lock.old

\* Mutant: the attempts are not counted.
NextTryUncounted(l) ==
  /\ Goto(l, "looking")
  /\ UNCHANGED tries

\* The sleep before the next attempt.
NextTry(l) ==
  /\ tries' = [tries EXCEPT ![l] = @ - 1]
  /\ Goto(l, "looking")

\* It reads the file's age and owner.
CheckLock(l) ==
  /\ At(l, "checking")
  /\ \/ /\ lockFile # NoLock
        /\ Stale(lockFile)
        /\ Goto(l, "evicting")
        /\ UNCHANGED tries
     \/ /\ lockFile = NoLock \/ ~Stale(lockFile)
        /\ NextTry(l)
  /\ UNCHANGED <<wants, holds, seen, handle, serviceVars, lockFile, stateFile, calm>>

\* remove_launcher_lock removes what is at the path by now.
Evict(l) ==
  /\ At(l, "evicting")
  /\ lockFile' = NoLock
  /\ NextTry(l)
  /\ UNCHANGED <<wants, holds, seen, handle, serviceVars, stateFile, calm>>

\* Dropping the LauncherLock, when spawn_or_reuse_locked_stack returns: it
\* removes the path too.
Release(l, stage, outcome) ==
  /\ At(l, stage)
  /\ lockFile' = NoLock
  /\ holds' = [holds EXCEPT ![l] = FALSE]
  /\ Goto(l, outcome)
  /\ UNCHANGED <<wants, tries, seen, handle, serviceVars, stateFile, calm>>

ReturnStack(l) == Release(l, "returning", "done")
ReturnError(l) == Release(l, "failing", "failed")

(***************************************************************************)
(* Starting a stack                                                        *)
(***************************************************************************)

\* spawn_background_role for the mock: it announces where it listens.
MockStarts(l) ==
  /\ At(l, "starting mock")
  /\ mock' = [mock EXCEPT ![l] = "up"]
  /\ Goto(l, "starting backend")
  /\ UNCHANGED <<wants, tries, holds, seen, handle, backend, lockFile, stateFile, calm>>

\* It cannot be spawned, ends, or says nothing in time: kill_on_drop is off
\* for the services of a stack that is to stay, so a silent one is left.
MockFails(l) ==
  /\ At(l, "starting mock")
  /\ mock' \in {[mock EXCEPT ![l] = s] : s \in {"none", "down", "silent"}}
  /\ Goto(l, "failing")
  /\ UNCHANGED <<wants, tries, holds, seen, handle, backend, lockFile, stateFile, calm>>

BackendStarts(l) ==
  /\ At(l, "starting backend")
  /\ backend' = [backend EXCEPT ![l] = "up"]
  /\ Goto(l, "saving")
  /\ UNCHANGED <<wants, tries, holds, seen, handle, mock, lockFile, stateFile, calm>>

\* Mutant: the mock is left running.
BackendFailsAlone(l) ==
  /\ At(l, "starting backend")
  /\ backend' \in {[backend EXCEPT ![l] = s] : s \in {"none", "down", "silent"}}
  /\ Goto(l, "failing")
  /\ UNCHANGED <<wants, tries, holds, seen, handle, mock, lockFile, stateFile, calm>>

\* The backend fails likewise, and the mock is terminated.
BackendFails(l) ==
  /\ At(l, "starting backend")
  /\ backend' \in {[backend EXCEPT ![l] = s] : s \in {"none", "down", "silent"}}
  /\ mock' = [mock EXCEPT ![l] = "down"]
  /\ Goto(l, "failing")
  /\ UNCHANGED <<wants, tries, holds, seen, handle, lockFile, stateFile, calm>>

\* save_launcher_state creates the file, which empties one that is there; a
\* writer that has it open goes on writing to it.
TruncateState(l) ==
  /\ At(l, "saving")
  /\ stateFile' = Truncated
  /\ handle' = [handle EXCEPT ![l] = TRUE]
  /\ Goto(l, "writing")
  /\ UNCHANGED <<wants, tries, holds, seen, serviceVars, lockFile, calm>>

\* Two texts written from the start of one file leave a mixture, unless the
\* second covers the first.
WriteState(l) ==
  /\ At(l, "writing")
  /\ stateFile' \in IF ~handle[l] THEN {stateFile}
                    ELSE IF stateFile = Truncated THEN {Recorded(l)}
                    ELSE {Recorded(l), Garbled}
  /\ seen' = [seen EXCEPT ![l] = l]
  /\ handle' = [handle EXCEPT ![l] = FALSE]
  /\ Goto(l, "returning")
  /\ UNCHANGED <<wants, tries, holds, serviceVars, lockFile, calm>>

\* persist_launcher_state_or_shutdown: the state cannot be created or written,
\* and the stack is taken down again.
SaveFails(l) ==
  /\ At(l, "saving") \/ At(l, "writing")
  /\ handle' = [handle EXCEPT ![l] = FALSE]
  /\ mock' = [mock EXCEPT ![l] = "down"]
  /\ backend' = [backend EXCEPT ![l] = "down"]
  /\ Goto(l, "failing")
  /\ UNCHANGED <<wants, tries, holds, seen, lockFile, stateFile, calm>>

(***************************************************************************)
(* What happens to launchers, stacks and files                             *)
(***************************************************************************)

\* A launcher is done with the stack: its foreground follows, whose shutdown
\* (run_cli_launcher, run_web_launcher) only ends children of its own and so
\* leaves a persistent stack alone.
Ended == {"done", "failed", "crashed"}

\* The process dies. Its files stay, and so do its services.
Crash(l) ==
  /\ pc[l] \notin Ended
  /\ calm' = FALSE
  /\ Goto(l, "crashed")
  /\ holds' = [holds EXCEPT ![l] = FALSE]
  /\ handle' = [handle EXCEPT ![l] = FALSE]
  /\ UNCHANGED <<wants, tries, seen, serviceVars, lockFile, stateFile>>

\* A stack goes down as a whole or in part, by itself (--exit-after-ms).
ServiceStops(l) ==
  /\ \/ /\ mock[l] = "up"
        /\ mock' = [mock EXCEPT ![l] = "down"]
        /\ UNCHANGED backend
     \/ /\ backend[l] = "up"
        /\ backend' = [backend EXCEPT ![l] = "down"]
        /\ UNCHANGED mock
  /\ UNCHANGED <<wants, ownVars, lockFile, stateFile, calm>>

\* STACK_LOCK_STALE_AFTER passes: two services may take more time than that to
\* start.
LockAges ==
  /\ lockFile # NoLock
  /\ ~lockFile.old
  /\ lockFile' = [lockFile EXCEPT !.old = TRUE]
  /\ calm' = FALSE
  /\ UNCHANGED <<wants, ownVars, serviceVars, stateFile>>

(***************************************************************************)
(* Specification                                                           *)
(***************************************************************************)

\* An earlier launcher may have left a state file that is no valid state.
LauncherInit ==
  /\ wants \in [Launchers -> Wants]
  /\ pc = [l \in Launchers |-> "looking"]
  /\ tries = [l \in Launchers |-> MaxTries]
  /\ holds = [l \in Launchers |-> FALSE]
  /\ seen = [l \in Launchers |-> Nobody]
  /\ handle = [l \in Launchers |-> FALSE]
  /\ mock = [l \in Launchers |-> "none"]
  /\ backend = [l \in Launchers |-> "none"]
  /\ lockFile = NoLock
  /\ stateFile \in {NoState, Garbled}
  /\ calm = TRUE

LauncherStep(l) ==
  \/ LookForState(l) \/ StateVanishes(l) \/ ReadState(l)
  \/ DoubtState(l) \/ RemoveState(l)
  \/ StackAnswers(l) \/ StackDoesNotAnswer(l)
  \/ TryLock(l) \/ WriteOwner(l) \/ WriteOwnerFails(l)
  \/ CheckLock(l) \/ Evict(l)
  \/ MockStarts(l) \/ MockFails(l) \/ BackendStarts(l) \/ BackendFails(l)
  \/ TruncateState(l) \/ WriteState(l) \/ SaveFails(l)
  \/ ReturnStack(l) \/ ReturnError(l)

LauncherNext ==
  \/ \E l \in Launchers : LauncherStep(l) \/ Crash(l) \/ ServiceStops(l)
  \/ LockAges

LauncherSpec == LauncherInit /\ [][LauncherNext]_launcherVars

\* A launcher that has not crashed goes on: every wait of it has a time-out.
FairLauncherSpec ==
  LauncherSpec /\ \A l \in Launchers : WF_launcherVars(LauncherStep(l))

(***************************************************************************)
(* Properties                                                              *)
(***************************************************************************)

\* From having no stack to reuse to having recorded one.
StartStages == {"starting mock", "starting backend", "saving", "writing"}

Stages ==
  {"looking", "reading", "doubting", "removing", "probing", "locking", "owning",
   "checking", "evicting", "returning", "failing"} \cup StartStages \cup Ended

\* Every variable keeps its type.
LauncherTypeOK ==
  /\ wants \in [Launchers -> Wants]
  /\ pc \in [Launchers -> Stages]
  /\ tries \in [Launchers -> 0..MaxTries]
  /\ holds \in [Launchers -> BOOLEAN]
  /\ seen \in [Launchers -> Launchers \cup {Nobody}]
  /\ handle \in [Launchers -> BOOLEAN]
  /\ mock \in [Launchers -> Services]
  /\ backend \in [Launchers -> Services]
  /\ lockFile \in Locks
  /\ stateFile \in States
  /\ calm \in BOOLEAN

\* While no launcher has crashed and none has taken longer than the age at
\* which its lock may be taken away, the lock excludes: who holds a
\* LauncherLock, or is writing its pid, created the file that is there
\* (try_acquire_launcher_lock, Drop for LauncherLock).
HoldersOwnTheLockFile ==
  calm => \A l \in Launchers : holds[l] \/ At(l, "owning") => lockFile.owner = l

\* Until then a stack is started, and the state file written, by the holder of
\* the lock alone: two launchers never start a stack each at the same time.
OnlyOneStarts ==
  calm => \A l, m \in Launchers :
            pc[l] \in StartStages /\ pc[m] \in StartStages => l = m

\* A launcher that fails leaves none of its announced services running
\* (spawn_persistent_bundled_backend, persist_launcher_state_or_shutdown).
FailedLaunchersStopTheirServices ==
  \A l \in Launchers :
    pc[l] \in {"failing", "failed"} => mock[l] # "up" /\ backend[l] # "up"

\* What a launcher returns can do what was asked of it: a launcher for the
\* browser is never given a stack without the frontend, whoever started it and
\* whatever became of the files meanwhile (reusable_launcher_state).
AnswersServeTheRequest ==
  \A l \in Launchers :
    pc[l] \in {"returning", "done"} =>
      /\ seen[l] # Nobody
      /\ wants[l] = "web" => wants[seen[l]] = "web"

\* Every launcher comes to an end, whoever else crashes.
EveryLauncherEnds == \A l \in Launchers : <>(pc[l] \in Ended)

=============================================================================
