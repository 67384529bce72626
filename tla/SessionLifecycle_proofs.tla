----------------------- MODULE SessionLifecycle_proofs -----------------------
(***************************************************************************)
(* The five places of a session agree when nothing is under way about it,  *)
(* a deleted session stays deleted, and the cap on created sessions holds. *)
(*                                                                         *)
(* No lock covers a request, so what can be said of a session in the       *)
(* middle of one is said of calm sessions only: those whose requests came  *)
(* one after the other.  Each step of such a request has a state of the    *)
(* session that goes with it, and every step leads from one to the next,   *)
(* whatever requests about other sessions do - which is no more than to    *)
(* drop a closed session from memory.                                      *)
(***************************************************************************)
EXTENDS SessionLifecycle, FiniteSetTheorems, TLAPS

-----------------------------------------------------------------------------
(* The session at rest.                                                    *)

StoreAtRest(s) ==
  /\ dir[s] <=> row[s].status = "active"
  /\ dir[s] => row[s].checkout
  /\ row[s].deleted <=> row[s].status = "deleted"

(* A live session is as its row has it.                                    *)
AsStored(s) ==
  IsLive(s) => row[s].status = live[s].status /\ row[s].msgs = live[s].msgs

MemoryAtRest(s) ==
  /\ agent[s] = IF Active(s) /\ ~live[s].broken THEN "running" ELSE "none"
  /\ Active(s) /\ ~live[s].broken => bound[s]
  /\ Active(s) => forgets[s] = 0
  /\ AsStored(s)

Rest(s) == StoreAtRest(s) /\ MemoryAtRest(s)

-----------------------------------------------------------------------------
(* The session in the middle of a request.                                 *)

StartupSteps == {"launching", "awaiting agent", "binding", "priming", "persisting"}

Creating(r, s) ==
  /\ pc[r] \in {"reading", "writing", "cloning", "cleanup", "rollback"} \cup StartupSteps
  /\ Active(s) /\ ~live[s].broken
  /\ forgets[s] = 0
  /\ ~row[s].deleted /\ row[s].status \notin {"active", "closed", "deleted"}
  /\ pc[r] = "writing" => ~seen[r].deleted
  /\ pc[r] \in {"reading", "writing"} =>
       /\ stage[r] \in {"provisioning", "cloning", "starting", "failed"}
       /\ dir[s] <=> stage[r] = "starting"
  /\ pc[r] \in {"cloning", "rollback"} => ~dir[s]
  /\ pc[r] \in {"reading", "writing", "cloning", "launching", "rollback"} => agent[s] = "none"
  /\ pc[r] \in StartupSteps => dir[s] /\ row[s].checkout
  /\ pc[r] = "awaiting agent" => agent[s] = r
  /\ pc[r] \in {"binding", "priming", "persisting"} => agent[s] = "running"
  /\ pc[r] \in {"priming", "persisting"} => bound[s]
  /\ snap[r] = Snapshot(live[s])

Getting(r, s) ==
  /\ pc[r] \in {"loading", "loading snapshot", "restoring", "resolving", "launching",
                "awaiting agent", "binding", "marking", "rollback"}
  /\ StoreAtRest(s)
  /\ forgets[s] = 0
  /\ pc[r] \in {"loading", "loading snapshot", "restoring"} => ~IsLive(s)
  /\ pc[r] \in {"loading snapshot", "restoring", "resolving"} => seen[r] = Read(row[s])
  /\ pc[r] \notin {"loading", "loading snapshot"} =>
       /\ row[s].status \in {"active", "closed"}
       /\ snap[r] = [status |-> row[s].status, msgs |-> row[s].msgs]
  /\ pc[r] \in {"resolving", "launching", "awaiting agent", "binding", "marking"} =>
       /\ AsStored(s)
       /\ row[s].status = "active" => Active(s) /\ ~live[s].broken
  /\ pc[r] \in {"launching", "awaiting agent"} => row[s].status = "active"
  /\ pc[r] \in {"loading", "loading snapshot", "restoring", "resolving", "launching", "marking"}
       => agent[s] = "none"
  /\ pc[r] = "awaiting agent" => agent[s] = r
  /\ pc[r] = "binding" =>
       agent[s] = IF row[s].status = "active" THEN "running" ELSE "none"

(* A checkout that is there is known to the request that will remove it.   *)
Ending(r, s) ==
  /\ pc[r] \in {"ending", "deleting", "forgetting", "persisting", "removing"}
  /\ dir[s] => seen[r].checkout
  /\ pc[r] \in {"ending", "deleting"} => Rest(s)
  /\ pc[r] \in {"forgetting", "persisting"} => StoreAtRest(s)
  /\ pc[r] \in {"persisting", "removing"} => agent[s] = "none"

Closing(r, s) ==
  /\ pc[r] # "deleting"
  /\ pc[r] \in {"forgetting", "persisting", "removing"} =>
       ~Active(s) /\ snap[r].status = "closed" /\ ~row[s].deleted
  /\ pc[r] \in {"forgetting", "persisting"} /\ IsLive(s) => live[s].msgs = snap[r].msgs
  /\ pc[r] = "removing" => row[s].status = "closed" /\ AsStored(s)

Deleting(r, s) ==
  /\ pc[r] \in {"forgetting", "persisting", "removing"} => ~IsLive(s)
  /\ pc[r] = "removing" => row[s].status = "deleted" /\ row[s].deleted

Renaming(r, s) ==
  /\ pc[r] = "persisting"
  /\ Rest(s)
  /\ row[s].status \in {"active", "closed"}
  /\ snap[r] = [status |-> row[s].status, msgs |-> row[s].msgs]

Prompting(r, s) ==
  /\ pc[r] \in {"snapshotting", "persisting", "working"}
  /\ StoreAtRest(s)
  /\ Active(s) /\ ~live[s].broken
  /\ row[s].status = "active"
  /\ agent[s] = "running" /\ bound[s] /\ forgets[s] = 0
  /\ turn[r] = "current"
  /\ pc[r] = "persisting" => snap[r] = Snapshot(live[s])

Midway(r, s) ==
  \/ op[r] = "create" /\ Creating(r, s)
  \/ op[r] = "get" /\ Getting(r, s)
  \/ op[r] = "close" /\ Ending(r, s) /\ Closing(r, s)
  \/ op[r] = "delete" /\ Ending(r, s) /\ Deleting(r, s)
  \/ op[r] = "rename" /\ Renaming(r, s)
  \/ op[r] = "prompt" /\ Prompting(r, s)

-----------------------------------------------------------------------------
(* Every session.                                                          *)

UnderWayOn(r, s) == UnderWay(r) /\ on[r] = s

(* A session that was not drawn yet.                                       *)
Unused(s) ==
  /\ live[s] = NotLive /\ row[s] = NoRow /\ ~dir[s] /\ agent[s] = "none" /\ forgets[s] = 0
  /\ \A r \in Requests : on[r] # s

(* The requests about a calm session come one after the other.             *)
OneByOne(s) == \A r, q \in Requests : UnderWayOn(r, s) /\ UnderWayOn(q, s) => r = q

CalmSession(s) ==
  /\ OneByOne(s)
  /\ (\A r \in Requests : ~UnderWayOn(r, s)) => Rest(s)
  /\ \A r \in Requests : UnderWayOn(r, s) => Midway(r, s)

SessionInv(s) ==
  /\ s \notin used => Unused(s)
  /\ calm[s] => CalmSession(s)

RequestInv(r) ==
  /\ pc[r] \in {"counting", "inserting"} => op[r] = "create"
  /\ pc[r] \in {"idle", "counting", "inserting"} => on[r] = "none"
  /\ pc[r] \notin {"idle", "counting", "inserting", "done"} => on[r] \in used
  /\ pc[r] \in {"reading", "writing"} =>
       stage[r] \in {"provisioning", "cloning", "starting", "failed"}

(* The rows of a deleted workspace.                                        *)
NothingToRestore == ~workspace => \A s \in Sessions : ~Restorable(row[s])

(* The cap: who inserts counted, and none but it has since inserted.       *)
CreatedSessions == {s \in Sessions : Active(s) /\ ~live[s].restored}
CapInv ==
  /\ IsFiniteSet(ActiveSessions)
  /\ Cardinality(CreatedSessions) <= SessionCap
  /\ \A r \in Requests : pc[r] = "inserting" =>
       counting = r /\ Cardinality(CreatedSessions) < SessionCap

LifecycleInv ==
  /\ LifecycleTypeOK
  /\ CapInv
  /\ NothingToRestore
  /\ \A s \in Sessions : SessionInv(s)
  /\ \A r \in Requests : RequestInv(r)

-----------------------------------------------------------------------------
(* Types, and what is known of any request.                                *)

LiveRecords == [status : {"none", "active", "closed"}, broken : BOOLEAN, restored : BOOLEAN,
                msgs : Nat]
Snapshots == [status : {"none", "active", "closed"}, msgs : Nat]
Readings == [deleted : BOOLEAN, checkout : BOOLEAN]
Slots == Requests \cup {"none", "running"}
Handles == {"none", "current", "removed", "discarded"}

Types ==
  /\ live \in [Sessions -> LiveRecords]
  /\ counting \in Requests \cup {Nobody}
  /\ agent \in [Sessions -> Slots]
  /\ bound \in [Sessions -> BOOLEAN]
  /\ forgets \in [Sessions -> Nat]
  /\ used \in SUBSET Sessions
  /\ row \in [Sessions -> Rows]
  /\ dir \in [Sessions -> BOOLEAN]
  /\ workspace \in BOOLEAN
  /\ pc \in [Requests -> Steps]
  /\ op \in [Requests -> Operations \cup {"none"}]
  /\ on \in [Requests -> Sessions \cup {"none"}]
  /\ stage \in [Requests -> Statuses \cup {"submitted", "completed"}]
  /\ seen \in [Requests -> Readings]
  /\ snap \in [Requests -> Snapshots]
  /\ turn \in [Requests -> Handles]
  /\ restarts \in 0..MaxRestarts
  /\ calm \in [Sessions -> BOOLEAN]

LEMMA TypesAreTypes == LifecycleTypeOK <=> Types
  BY DEF LifecycleTypeOK, Types, LiveRecords, Snapshots, Readings, Slots, Handles

LEMMA TypesAfter == Types' => LifecycleTypeOK'
  BY DEF LifecycleTypeOK, Types, LiveRecords, Snapshots, Readings, Slots, Handles

(* What the records of a step are.                                         *)
LEMMA LiveSessions ==
  /\ NotLive \in LiveRecords /\ NewSession \in LiveRecords
  /\ \A l \in LiveRecords :
       /\ [l EXCEPT !.broken = TRUE] \in LiveRecords
       /\ [l EXCEPT !.status = "closed"] \in LiveRecords
       /\ \A n \in Nat : [l EXCEPT !.msgs = n] \in LiveRecords
       /\ l.msgs + 1 \in Nat /\ l.msgs + 0 \in Nat
       /\ Snapshot(l) \in Snapshots
       /\ [status |-> "closed", msgs |-> l.msgs] \in Snapshots
  /\ \A sn \in Snapshots : Restored(sn) \in LiveRecords
  <1>1. NotLive \in LiveRecords /\ NewSession \in LiveRecords
    BY DEF NotLive, NewSession, LiveRecords
  <1>2. ASSUME NEW l \in LiveRecords
        PROVE  /\ [l EXCEPT !.broken = TRUE] \in LiveRecords
               /\ [l EXCEPT !.status = "closed"] \in LiveRecords
               /\ \A n \in Nat : [l EXCEPT !.msgs = n] \in LiveRecords
    BY DEF LiveRecords
  <1>2a. ASSUME NEW l \in LiveRecords
         PROVE  l.msgs \in Nat /\ l.msgs + 1 \in Nat /\ l.msgs + 0 \in Nat
    BY DEF LiveRecords
  <1>3. ASSUME NEW l \in LiveRecords
        PROVE  /\ Snapshot(l) \in Snapshots
               /\ [status |-> "closed", msgs |-> l.msgs] \in Snapshots
    BY DEF LiveRecords, Snapshots, Snapshot
  <1>4. ASSUME NEW sn \in Snapshots
        PROVE  Restored(sn) \in LiveRecords
    BY DEF LiveRecords, Snapshots, Restored
  <1>. QED
    BY <1>1, <1>2, <1>2a, <1>3, <1>4

LEMMA StoredRows ==
  /\ NoRow \in Rows /\ Left("active") \in Rows /\ Left("closed") \in Rows
  /\ NothingRead \in Readings
  /\ \A w \in Rows :
       /\ Read(w) \in Readings
       /\ Restorable(w) => [status |-> w.status, msgs |-> w.msgs] \in Snapshots
       /\ \A sn \in Snapshots, st \in Statuses : SnapshotRow(w, sn, st) \in Rows
       /\ \A rd \in Readings, st \in Statuses, c \in BOOLEAN : LifecycleRow(rd, w, st, c) \in Rows
  BY DEF NoRow, Left, Rows, Statuses, NothingRead, Read, Readings, Snapshots, Restorable,
         SnapshotRow, LifecycleRow

LEMMA Slotted ==
  ASSUME agent \in [Sessions -> Slots], NEW s \in Sessions
  PROVE  WithoutAgent(s) \in [Sessions -> Slots]
  BY DEF WithoutAgent, Slots

LEMMA Handled ==
  ASSUME turn \in [Requests -> Handles], NEW gone, NEW as \in {"removed", "discarded"}
  PROVE  Orphaned(gone, as) \in [Requests -> Handles]
  BY DEF Orphaned, Handles

LEMMA LifecycleInitially ==
  ASSUME LifecycleInit
  PROVE  LifecycleInv
  <1>. USE DEF LifecycleInit
  <1>1. LifecycleTypeOK
    <2>1. live \in [Sessions -> LiveRecords] /\ snap \in [Requests -> Snapshots]
      BY LiveSessions DEF NoSnapshot
    <2>2. row \in [Sessions -> Rows] /\ dir \in [Sessions -> BOOLEAN]
      BY StoredRows
    <2>3. seen \in [Requests -> Readings] /\ agent \in [Sessions -> Slots] /\ turn \in [Requests -> Handles]
      BY StoredRows DEF Slots, Handles
    <2>4. /\ pc \in [Requests -> Steps] /\ op \in [Requests -> Operations \cup {"none"}]
          /\ on \in [Requests -> Sessions \cup {"none"}]
          /\ stage \in [Requests -> Statuses \cup {"submitted", "completed"}]
      BY DEF Steps, Statuses
    <2>5. /\ counting \in Requests \cup {Nobody}
          /\ bound \in [Sessions -> BOOLEAN] /\ forgets \in [Sessions -> Nat]
          /\ used \in SUBSET Sessions /\ workspace \in BOOLEAN
          /\ restarts \in 0..MaxRestarts /\ calm \in [Sessions -> BOOLEAN]
      BY LifecycleAssumption
    <2>. QED
      BY <2>1, <2>2, <2>3, <2>4, <2>5, TypesAreTypes DEF Types
  <1>2. CapInv
    <2>1. ActiveSessions = {} /\ CreatedSessions = {}
      BY DEF ActiveSessions, CreatedSessions, Active, NotLive
    <2>. QED
      BY <2>1, FS_EmptySet, LifecycleAssumption DEF CapInv
  <1>3. NothingToRestore /\ \A r \in Requests : RequestInv(r)
    BY DEF NothingToRestore, RequestInv
  <1>4. ASSUME NEW s \in Sessions
        PROVE  SessionInv(s)
    <2>1. \A r \in Requests : ~UnderWay(r) /\ on[r] # s
      BY LifecycleAssumption DEF UnderWay
    <2>2a. /\ live[s] = NotLive /\ agent[s] = "none"
           /\ row[s] \in {NoRow, Left("active"), Left("closed")}
           /\ dir[s] <=> row[s].status = "active"
      <3>1. dir[s] <=> row[s].status = "active"
        BY Zenon
      <3>. QED
        BY <3>1
    <2>2. Rest(s)
      <3>1. ~IsLive(s) /\ ~Active(s)
        BY <2>2a DEF IsLive, Active, NotLive
      <3>2. StoreAtRest(s)
        BY <2>2a DEF StoreAtRest, NoRow, Left
      <3>. QED
        BY <2>2a, <3>1, <3>2 DEF Rest, MemoryAtRest, AsStored
    <2>3. s \notin used => Unused(s)
      <3>1. s \notin used => row[s] = NoRow
        OBVIOUS
      <3>2. s \notin used => ~dir[s]
        BY <2>2a, <3>1 DEF NoRow
      <3>3. forgets[s] = 0
        OBVIOUS
      <3>. QED
        BY <2>1, <2>2a, <3>1, <3>2, <3>3 DEF Unused
    <2>. QED
      BY <2>1, <2>2, <2>3 DEF SessionInv, CalmSession, OneByOne, UnderWayOn
  <1>. QED
    BY <1>1, <1>2, <1>3, <1>4 DEF LifecycleInv

(* Closing a session drops closed ones of which there are too many, and    *)
(* leaves the others.                                                      *)
LEMMA CloseLiveKeeps ==
  ASSUME NEW r \in Requests, CloseLive(r)
  PROVE  \E gone \in SUBSET Sessions :
           /\ on[r] \notin gone
           /\ \A s \in gone : live[s].status = "closed"
           /\ live' = [s \in Sessions |-> IF s \in gone THEN NotLive
                                          ELSE IF s = on[r] THEN [live[s] EXCEPT !.status = "closed"]
                                          ELSE live[s]]
           /\ turn' = Orphaned(gone, "removed")
  <1>. DEFINE closed == {s \in Sessions : live[s].status = "closed"} \cup {on[r]}
  <1>1. PICK kept \in Kept(on[r], closed) :
         /\ live' = [s \in Sessions |-> IF s \in closed \ kept THEN NotLive
                                        ELSE IF s = on[r] THEN [live[s] EXCEPT !.status = "closed"]
                                        ELSE live[s]]
         /\ turn' = Orphaned(closed \ kept, "removed")
    BY DEF CloseLive
  <1>2. on[r] \in kept
    BY DEF Kept
  <1>. DEFINE gone == closed \ kept
  <1>3. on[r] \notin gone /\ gone \in SUBSET Sessions /\ \A s \in gone : live[s].status = "closed"
    BY <1>2
  <1>. QED
    BY <1>1, <1>3

LEMMA RequestStepTypes ==
  ASSUME LifecycleInv, NEW r \in Requests, RequestStep(r)
  PROVE  Types'
  <1>1. Types /\ RequestInv(r) /\ (UnderWay(r) /\ pc[r] \notin {"counting", "inserting"} => on[r] \in Sessions)
    BY TypesAreTypes DEF LifecycleInv, Types, RequestInv, UnderWay
  <1>. USE DEF Types, GoOn, Steps, memoryVars, durableVars, requestVars, historyVars, UnderWay
  <1>2. CASE Create(r)
    BY <1>1, <1>2 DEF Create
  <1>3. CASE Count(r)
    BY <1>1, <1>3 DEF Count
  <1>4. CASE Insert(r)
    <2>1. PICK s \in Sessions \ used : /\ used' = used \cup {s}
                                      /\ live' = [live EXCEPT ![s] = NewSession]
                                      /\ on' = [on EXCEPT ![r] = s]
      BY <1>4 DEF Insert
    <2>2. live' \in [Sessions -> LiveRecords] /\ snap' \in [Requests -> Snapshots]
      BY <1>1, <1>4, <2>1, LiveSessions DEF Insert
    <2>3. on' \in [Requests -> Sessions \cup {"none"}] /\ used' \in SUBSET Sessions
      BY <1>1, <2>1
    <2>4. stage' \in [Requests -> Statuses \cup {"submitted", "completed"}]
      BY <1>1, <1>4 DEF Insert, Statuses
    <2>. QED
      BY <1>1, <1>4, <2>2, <2>3, <2>4 DEF Insert
  <1>5. CASE ReadRow(r)
    BY <1>1, <1>5, StoredRows DEF ReadRow
  <1>6. CASE WriteRow(r)
    BY <1>1, <1>6, StoredRows DEF WriteRow, RequestInv, Statuses
  <1>7. CASE RowFails(r)
    BY <1>1, <1>7 DEF RowFails, Statuses
  <1>8. CASE Checkout(r)
    BY <1>1, <1>8 DEF Checkout, Statuses
  <1>9. CASE CheckoutFails(r)
    BY <1>1, <1>9 DEF CheckoutFails, Statuses
  <1>10. CASE Reserve(r)
    BY <1>1, <1>10, ZenonT(60) DEF Reserve, Slots
  <1>11. CASE AgentStarts(r)
    BY <1>1, <1>11 DEF AgentStarts, Slots
  <1>12. CASE AgentFails(r)
    BY <1>1, <1>12, Slotted DEF AgentFails
  <1>13. CASE Bind(r)
    BY <1>1, <1>13 DEF Bind
  <1>14. CASE Prime(r)
    BY <1>1, <1>14 DEF Prime
  <1>15. CASE PrimeWithHint(r)
    BY <1>1, <1>15, LiveSessions DEF PrimeWithHint
  <1>16. CASE PrimeFails(r)
    BY <1>1, <1>16 DEF PrimeFails
  <1>17. CASE CleanUp(r)
    BY <1>1, <1>17, Slotted DEF CleanUp, Statuses
  <1>18. CASE RollBack(r)
    <2>1. agent' \in [Sessions -> Slots] /\ live' \in [Sessions -> LiveRecords]
      BY <1>1, <1>18, Slotted, LiveSessions DEF RollBack
    <2>2. turn' \in [Requests -> Handles]
      BY <1>1, <1>18, Handled DEF RollBack
    <2>3. forgets' \in [Sessions -> Nat]
      <3>1. on[r] \in Sessions /\ forgets' = [forgets EXCEPT ![on[r]] = @ + 1]
        BY <1>1, <1>18 DEF RollBack
      <3>2. forgets[on[r]] \in Nat
        BY <1>1, <3>1
      <3>3. forgets[on[r]] + 1 \in Nat
        BY <3>2
      <3>. QED
        BY <1>1, <3>1, <3>3
    <2>. QED
      BY <1>1, <1>18, <2>1, <2>2, <2>3 DEF RollBack
  <1>19. CASE LoadMetadata(r)
    BY <1>1, <1>19, StoredRows DEF LoadMetadata
  <1>20. CASE LoadSnapshot(r)
    <2>1. snap' \in [Requests -> Snapshots]
      <3>1. on[r] \in Sessions
        BY <1>1, <1>20 DEF LoadSnapshot
      <3>2. row[on[r]] \in Rows
        BY <1>1, <3>1
      <3>. DEFINE w == row[on[r]]
      <3>3. \/ Restorable(w) /\ snap' = [snap EXCEPT ![r] = [status |-> w.status, msgs |-> w.msgs]]
            \/ snap' = snap
        BY <1>20 DEF LoadSnapshot
      <3>. QED
        BY <1>1, <3>2, <3>3, StoredRows
    <2>2. pc' \in [Requests -> Steps]
      BY <1>1, <1>20, ZenonT(60) DEF LoadSnapshot
    <2>. QED
      BY <1>1, <1>20, <2>1, <2>2 DEF LoadSnapshot
  <1>21. CASE Restore(r)
    BY <1>1, <1>21, LiveSessions DEF Restore
  <1>22. CASE Resolve(r)
    BY <1>1, <1>22 DEF Resolve
  <1>23. CASE BindRestored(r)
    BY <1>1, <1>23 DEF BindRestored
  <1>24. CASE MarkUnavailable(r)
    BY <1>1, <1>24, LiveSessions DEF MarkUnavailable
  <1>25. CASE LookFails(r)
    BY <1>1, <1>25, StoredRows DEF LookFails
  <1>26. CASE Refuse(r)
    BY <1>1, <1>26 DEF Refuse
  <1>27. CASE CloseLive(r)
    <2>1. live' \in [Sessions -> LiveRecords]
      <3>1. PICK gone \in SUBSET Sessions :
              live' = [s \in Sessions |-> IF s \in gone THEN NotLive
                                          ELSE IF s = on[r] THEN [live[s] EXCEPT !.status = "closed"]
                                          ELSE live[s]]
        BY <1>27, CloseLiveKeeps
      <3>. QED
        BY <1>1, <3>1, LiveSessions
    <2>2. turn' \in [Requests -> Handles]
      <3>1. PICK gone \in SUBSET Sessions : turn' = Orphaned(gone, "removed")
        BY <1>27, CloseLiveKeeps
      <3>. QED
        BY <1>1, <3>1, Handled
    <2>3. snap' \in [Requests -> Snapshots]
      BY <1>1, <1>27, LiveSessions DEF CloseLive
    <2>. QED
      BY <1>1, <1>27, <2>1, <2>2, <2>3 DEF CloseLive
  <1>28. CASE DeleteSnapshot(r)
    BY <1>1, <1>28, LiveSessions DEF DeleteSnapshot
  <1>29. CASE DeleteLive(r)
    BY <1>1, <1>29, LiveSessions, Handled DEF DeleteLive
  <1>30. CASE Forget(r)
    <2>1. agent' \in [Sessions -> Slots]
      BY <1>1, <1>30, Slotted DEF Forget
    <2>2. forgets' \in [Sessions -> Nat]
      <3>1. on[r] \in Sessions /\ forgets' = [forgets EXCEPT ![on[r]] = @ + 1]
        BY <1>1, <1>30 DEF Forget
      <3>2. forgets[on[r]] \in Nat
        BY <1>1, <3>1
      <3>3. forgets[on[r]] + 1 \in Nat
        BY <3>2
      <3>. QED
        BY <1>1, <3>1, <3>3
    <2>. QED
      BY <1>1, <1>30, <2>1, <2>2 DEF Forget
  <1>31. CASE RemoveCheckout(r)
    BY <1>1, <1>31 DEF RemoveCheckout
  <1>32. CASE SnapshotPrompt(r)
    BY <1>1, <1>32, LiveSessions DEF SnapshotPrompt, AfterPersisting
  <1>33. CASE Complete(r)
    <2>1. live' \in [Sessions -> LiveRecords]
      <3>1. PICK told \in 0..1 :
              live' = IF turn[r] = "current" /\ Active(on[r])
                      THEN [live EXCEPT ![on[r]].msgs = @ + told] ELSE live
        BY <1>33 DEF Complete
      <3>2. live[on[r]] \in LiveRecords
        BY <1>1, <1>33 DEF Complete
      <3>3. [live[on[r]] EXCEPT !.msgs = live[on[r]].msgs + told] \in LiveRecords
        <4>1. told = 0 \/ told = 1
          OBVIOUS
        <4>2. live[on[r]].msgs + told \in Nat
          BY <3>2, <4>1, LiveSessions
        <4>. QED
          BY <3>2, <4>2, LiveSessions
      <3>. QED
        BY <1>1, <3>1, <3>3
    <2>2. bound' \in [Sessions -> BOOLEAN]
      BY <1>1, <1>33 DEF Complete
    <2>3. stage' \in [Requests -> Statuses \cup {"submitted", "completed"}]
      BY <1>1, <1>33 DEF Complete
    <2>. QED
      BY <1>1, <1>33, <2>1, <2>2, <2>3 DEF Complete
  <1>34. CASE Persist(r)
    BY <1>1, <1>34, StoredRows, ZenonT(60) DEF Persist, StatusToWrite, AfterPersisting, Statuses, Snapshots
  <1>35. CASE PersistFails(r)
    BY <1>1, <1>35 DEF PersistFails, AfterPersisting
  <1>36. ASSUME NEW s \in Sessions, Get(r, s)
        PROVE  Types'
    BY <1>1, <1>36 DEF Get, Begin
  <1>37. ASSUME NEW s \in Sessions, NEW what, Look(r, s, what)
        PROVE  Types'
    BY <1>1, <1>37, StoredRows DEF Look, Begin
  <1>38. ASSUME NEW s \in Sessions, Rename(r, s)
        PROVE  Types'
    BY <1>1, <1>38, LiveSessions DEF Rename, Begin
  <1>39. ASSUME NEW s \in Sessions, Submit(r, s)
        PROVE  Types'
    BY <1>1, <1>39, LiveSessions DEF Submit, Begin, Handles
  <1>. QED
    BY <1>2, <1>3, <1>4, <1>5, <1>6, <1>7, <1>8, <1>9, <1>10, <1>11, <1>12, <1>13, <1>14, <1>15, <1>16, <1>17, <1>18, <1>19, <1>20, <1>21, <1>22, <1>23, <1>24, <1>25, <1>26, <1>27, <1>28, <1>29, <1>30, <1>31, <1>32, <1>33, <1>34, <1>35, <1>36, <1>37, <1>38, <1>39 DEF RequestStep

-----------------------------------------------------------------------------
(* What a step of a request leaves alone: the other requests, and of the   *)
(* other sessions all but that a closed one may be dropped.                *)

Alone(r) ==
  \A q \in Requests \ {r} : /\ pc'[q] = pc[q] /\ op'[q] = op[q] /\ on'[q] = on[q]
                            /\ stage'[q] = stage[q] /\ seen'[q] = seen[q] /\ snap'[q] = snap[q]

Apart(r, s) ==
  /\ row'[s] = row[s] /\ dir'[s] = dir[s] /\ agent'[s] = agent[s] /\ bound'[s] = bound[s]
  /\ forgets'[s] = forgets[s] /\ calm'[s] = calm[s]
  /\ live'[s] = live[s] \/ (live[s].status = "closed" /\ live'[s] = NotLive)
  /\ s \in used' <=> s \in used
  /\ \A q \in Requests \ {r} : on[q] = s /\ Active(s) => turn'[q] = turn[q]

LEMMA RequestStepFrame ==
  ASSUME LifecycleInv, NEW r \in Requests, RequestStep(r)
  PROVE  /\ Alone(r)
         /\ \A s \in Sessions : s # on'[r] => Apart(r, s) /\ on[r] # s
         /\ used \subseteq used' /\ UNCHANGED workspace
  <1>1. Types /\ RequestInv(r)
    BY TypesAreTypes DEF LifecycleInv
  <1>2. "none" \notin Sessions
    BY LifecycleAssumption
  <1>. USE DEF GoOn, memoryVars, durableVars, requestVars, historyVars, Alone, Apart
  <1>. DEFINE Goal == /\ Alone(r)
                      /\ \A s \in Sessions : s # on'[r] => Apart(r, s) /\ on[r] # s
                      /\ used \subseteq used' /\ UNCHANGED workspace
  <1>3. CASE Create(r)
    BY <1>1, <1>2, <1>3 DEF Create, Types, RequestInv
  <1>4. CASE Count(r)
    BY <1>1, <1>2, <1>4 DEF Count, Types, RequestInv
  <1>5. CASE Insert(r)
    BY <1>1, <1>2, <1>5 DEF Insert, Types, RequestInv
  <1>6. CASE ReadRow(r)
    BY <1>1, <1>2, <1>6 DEF ReadRow, Types
  <1>7. CASE WriteRow(r)
    BY <1>1, <1>2, <1>7 DEF WriteRow, Types
  <1>8. CASE RowFails(r)
    BY <1>1, <1>2, <1>8 DEF RowFails, Types
  <1>9. CASE Checkout(r)
    BY <1>1, <1>2, <1>9 DEF Checkout, Types
  <1>10. CASE CheckoutFails(r)
    BY <1>1, <1>2, <1>10 DEF CheckoutFails, Types
  <1>11. CASE Reserve(r)
    BY <1>1, <1>2, <1>11 DEF Reserve, Types
  <1>12. CASE AgentStarts(r)
    BY <1>1, <1>2, <1>12 DEF AgentStarts, Types
  <1>13. CASE AgentFails(r)
    BY <1>1, <1>2, <1>13 DEF AgentFails, Types, WithoutAgent
  <1>14. CASE Bind(r)
    BY <1>1, <1>2, <1>14 DEF Bind, Types
  <1>15. CASE Prime(r)
    BY <1>1, <1>2, <1>15 DEF Prime, Types
  <1>16. CASE PrimeWithHint(r)
    BY <1>1, <1>2, <1>16 DEF PrimeWithHint, Types
  <1>17. CASE PrimeFails(r)
    BY <1>1, <1>2, <1>17 DEF PrimeFails, Types
  <1>18. CASE CleanUp(r)
    BY <1>1, <1>2, <1>18 DEF CleanUp, Types, WithoutAgent
  <1>19. CASE RollBack(r)
    BY <1>1, <1>2, <1>19 DEF RollBack, Types, WithoutAgent, Orphaned
  <1>20. CASE LoadMetadata(r)
    BY <1>1, <1>2, <1>20 DEF LoadMetadata, Types
  <1>21. CASE LoadSnapshot(r)
    BY <1>1, <1>2, <1>21 DEF LoadSnapshot, Types
  <1>22. CASE Restore(r)
    BY <1>1, <1>2, <1>22 DEF Restore, Types
  <1>23. CASE Resolve(r)
    BY <1>1, <1>2, <1>23 DEF Resolve, Types
  <1>24. CASE BindRestored(r)
    BY <1>1, <1>2, <1>24 DEF BindRestored, Types
  <1>25. CASE MarkUnavailable(r)
    BY <1>1, <1>2, <1>25 DEF MarkUnavailable, Types
  <1>26. CASE LookFails(r)
    BY <1>1, <1>2, <1>26 DEF LookFails, Types
  <1>27. CASE Refuse(r)
    BY <1>1, <1>2, <1>27 DEF Refuse, Types
  <1>28. CASE CloseLive(r)
    <2>1. PICK gone \in SUBSET Sessions :
            /\ on[r] \notin gone
            /\ \A s \in gone : live[s].status = "closed"
            /\ live' = [s \in Sessions |-> IF s \in gone THEN NotLive
                                           ELSE IF s = on[r] THEN [live[s] EXCEPT !.status = "closed"]
                                           ELSE live[s]]
            /\ turn' = Orphaned(gone, "removed")
      BY <1>28, CloseLiveKeeps
    <2>2. \A s \in Sessions \ {on[r]} :
            /\ live'[s] = live[s] \/ (live[s].status = "closed" /\ live'[s] = NotLive)
            /\ \A q \in Requests \ {r} : on[q] = s /\ Active(s) => turn'[q] = turn[q]
      BY <2>1 DEF Orphaned, Active
    <2>. QED
      BY <1>1, <1>28, <2>2 DEF CloseLive, Types
  <1>29. CASE DeleteSnapshot(r)
    BY <1>1, <1>2, <1>29 DEF DeleteSnapshot, Types
  <1>30. CASE DeleteLive(r)
    BY <1>1, <1>2, <1>30 DEF DeleteLive, Types, Orphaned
  <1>31. CASE Forget(r)
    BY <1>1, <1>2, <1>31 DEF Forget, Types, WithoutAgent
  <1>32. CASE RemoveCheckout(r)
    BY <1>1, <1>2, <1>32 DEF RemoveCheckout, Types
  <1>33. CASE SnapshotPrompt(r)
    BY <1>1, <1>2, <1>33 DEF SnapshotPrompt, Types
  <1>34. CASE Complete(r)
    BY <1>1, <1>2, <1>34 DEF Complete, Types
  <1>35. CASE Persist(r)
    BY <1>1, <1>2, <1>35 DEF Persist, Types
  <1>36. CASE PersistFails(r)
    BY <1>1, <1>2, <1>36 DEF PersistFails, Types
  <1>37. ASSUME NEW s \in Sessions, Get(r, s)
        PROVE  Goal
    BY <1>1, <1>2, <1>37 DEF Get, Begin, Types, RequestInv
  <1>38. ASSUME NEW s \in Sessions, NEW what, Look(r, s, what)
        PROVE  Goal
    BY <1>1, <1>2, <1>38 DEF Look, Begin, Types, RequestInv
  <1>39. ASSUME NEW s \in Sessions, Rename(r, s)
        PROVE  Goal
    BY <1>1, <1>2, <1>39 DEF Rename, Begin, Types, RequestInv
  <1>40. ASSUME NEW s \in Sessions, Submit(r, s)
        PROVE  Goal
    BY <1>1, <1>2, <1>40 DEF Submit, Begin, Types, RequestInv
  <1>. QED
    BY <1>3, <1>4, <1>5, <1>6, <1>7, <1>8, <1>9, <1>10, <1>11, <1>12, <1>13, <1>14, <1>15, <1>16, <1>17, <1>18, <1>19, <1>20, <1>21, <1>22, <1>23, <1>24, <1>25, <1>26, <1>27, <1>28, <1>29, <1>30, <1>31, <1>32, <1>33, <1>34, <1>35, <1>36, <1>37, <1>38, <1>39, <1>40 DEF RequestStep

LEMMA RequestStepRequests ==
  ASSUME LifecycleInv, NEW r \in Requests, RequestStep(r)
  PROVE  \A q \in Requests : RequestInv(q)'
  <1>1. Types /\ RequestInv(r)
    BY TypesAreTypes DEF LifecycleInv
  <1>2. ASSUME NEW q \in Requests \ {r}
        PROVE  RequestInv(q)'
    <2>1. RequestInv(q)
      BY DEF LifecycleInv
    <2>. QED
      BY <2>1, RequestStepFrame DEF Alone, RequestInv
  <1>. USE DEF GoOn, memoryVars, durableVars, requestVars, historyVars, RequestInv
  <1>3. CASE Create(r)
    BY <1>1, <1>2, <1>3 DEF Create, Types
  <1>4. CASE Count(r)
    BY <1>1, <1>2, <1>4 DEF Count, Types
  <1>5. CASE Insert(r)
    BY <1>1, <1>2, <1>5 DEF Insert, Types
  <1>6. CASE ReadRow(r)
    BY <1>1, <1>2, <1>6 DEF ReadRow, Types
  <1>7. CASE WriteRow(r)
    BY <1>1, <1>2, <1>7 DEF WriteRow, Types
  <1>8. CASE RowFails(r)
    BY <1>1, <1>2, <1>8 DEF RowFails, Types
  <1>9. CASE Checkout(r)
    BY <1>1, <1>2, <1>9 DEF Checkout, Types
  <1>10. CASE CheckoutFails(r)
    BY <1>1, <1>2, <1>10 DEF CheckoutFails, Types
  <1>11. CASE Reserve(r)
    BY <1>1, <1>2, <1>11, ZenonT(60) DEF Reserve, Types
  <1>12. CASE AgentStarts(r)
    BY <1>1, <1>2, <1>12 DEF AgentStarts, Types
  <1>13. CASE AgentFails(r)
    BY <1>1, <1>2, <1>13 DEF AgentFails, Types
  <1>14. CASE Bind(r)
    BY <1>1, <1>2, <1>14 DEF Bind, Types
  <1>15. CASE Prime(r)
    BY <1>1, <1>2, <1>15 DEF Prime, Types
  <1>16. CASE PrimeWithHint(r)
    BY <1>1, <1>2, <1>16 DEF PrimeWithHint, Types
  <1>17. CASE PrimeFails(r)
    BY <1>1, <1>2, <1>17 DEF PrimeFails, Types
  <1>18. CASE CleanUp(r)
    BY <1>1, <1>2, <1>18 DEF CleanUp, Types
  <1>19. CASE RollBack(r)
    BY <1>1, <1>2, <1>19 DEF RollBack, Types
  <1>20. CASE LoadMetadata(r)
    BY <1>1, <1>2, <1>20 DEF LoadMetadata, Types
  <1>21. CASE LoadSnapshot(r)
    BY <1>1, <1>2, <1>21 DEF LoadSnapshot, Types
  <1>22. CASE Restore(r)
    BY <1>1, <1>2, <1>22 DEF Restore, Types
  <1>23. CASE Resolve(r)
    BY <1>1, <1>2, <1>23 DEF Resolve, Types
  <1>24. CASE BindRestored(r)
    BY <1>1, <1>2, <1>24 DEF BindRestored, Types
  <1>25. CASE MarkUnavailable(r)
    BY <1>1, <1>2, <1>25 DEF MarkUnavailable, Types
  <1>26. CASE LookFails(r)
    BY <1>1, <1>2, <1>26 DEF LookFails, Types
  <1>27. CASE Refuse(r)
    BY <1>1, <1>2, <1>27 DEF Refuse, Types
  <1>28. CASE CloseLive(r)
    BY <1>1, <1>2, <1>28 DEF CloseLive, Types
  <1>29. CASE DeleteSnapshot(r)
    BY <1>1, <1>2, <1>29 DEF DeleteSnapshot, Types
  <1>30. CASE DeleteLive(r)
    BY <1>1, <1>2, <1>30 DEF DeleteLive, Types
  <1>31. CASE Forget(r)
    BY <1>1, <1>2, <1>31 DEF Forget, Types
  <1>32. CASE RemoveCheckout(r)
    BY <1>1, <1>2, <1>32 DEF RemoveCheckout, Types
  <1>33. CASE SnapshotPrompt(r)
    BY <1>1, <1>2, <1>33 DEF SnapshotPrompt, Types, AfterPersisting
  <1>34. CASE Complete(r)
    BY <1>1, <1>2, <1>34 DEF Complete, Types
  <1>35. CASE Persist(r)
    BY <1>1, <1>2, <1>35 DEF Persist, Types, AfterPersisting
  <1>36. CASE PersistFails(r)
    BY <1>1, <1>2, <1>36 DEF PersistFails, Types, AfterPersisting
  <1>37. ASSUME NEW s \in Sessions, Get(r, s)
        PROVE  RequestInv(r)'
    BY <1>1, <1>37 DEF Get, Begin, Types
  <1>38. ASSUME NEW s \in Sessions, NEW what, Look(r, s, what)
        PROVE  RequestInv(r)'
    BY <1>1, <1>38 DEF Look, Begin, Types
  <1>39. ASSUME NEW s \in Sessions, Rename(r, s)
        PROVE  RequestInv(r)'
    <2>1. s \in used
      BY <1>39 DEF Rename, IsLive, Active, NotLive, SessionInv, Unused, LifecycleInv
    <2>. QED
      BY <1>1, <1>39, <2>1 DEF Rename, Begin, Types
  <1>40. ASSUME NEW s \in Sessions, Submit(r, s)
        PROVE  RequestInv(r)'
    <2>1. s \in used
      BY <1>40 DEF Submit, IsLive, Active, NotLive, SessionInv, Unused, LifecycleInv
    <2>. QED
      BY <1>1, <1>40, <2>1 DEF Submit, Begin, Types
  <1>. QED
    BY <1>2, <1>3, <1>4, <1>5, <1>6, <1>7, <1>8, <1>9, <1>10, <1>11, <1>12, <1>13, <1>14, <1>15, <1>16, <1>17, <1>18, <1>19, <1>20, <1>21, <1>22, <1>23, <1>24, <1>25, <1>26, <1>27, <1>28, <1>29, <1>30, <1>31, <1>32, <1>33, <1>34, <1>35, <1>36, <1>37, <1>38, <1>39, <1>40 DEF RequestStep

-----------------------------------------------------------------------------
(* The sessions a step is not about.                                       *)

LEMMA OtherSession ==
  ASSUME NEW r \in Requests, NEW s \in Sessions, SessionInv(s), Alone(r), Apart(r, s),
         on[r] # s, on'[r] # s
  PROVE  SessionInv(s)'
  <1>1. \A q \in Requests : UnderWayOn(q, s)' <=> UnderWayOn(q, s)
    BY DEF Alone, UnderWayOn, UnderWay
  <1>2. ASSUME s \notin used'
        PROVE  Unused(s)'
    BY <1>2 DEF SessionInv, Unused, Apart, Alone, NotLive
  <1>. SUFFICES ASSUME calm'[s]
                PROVE  CalmSession(s)'
    BY <1>2 DEF SessionInv
  <1>3. CalmSession(s)
    BY DEF Apart, SessionInv
  <1>4. OneByOne(s)'
    BY <1>1, <1>3 DEF CalmSession, OneByOne
  <1>. USE DEF Apart, IsLive, Active, NotLive, StoreAtRest, MemoryAtRest, AsStored, Rest
  <1>5. Rest(s) => Rest(s)'
    OBVIOUS
  <1>6. ASSUME NEW q \in Requests, UnderWayOn(q, s), Midway(q, s)
        PROVE  Midway(q, s)'
    <2>1. /\ pc'[q] = pc[q] /\ op'[q] = op[q] /\ on'[q] = on[q]
          /\ stage'[q] = stage[q] /\ seen'[q] = seen[q] /\ snap'[q] = snap[q]
          /\ Active(s) => turn'[q] = turn[q]
      BY <1>6 DEF Alone, UnderWayOn
    <2>2. Creating(q, s) => Creating(q, s)'
      BY <2>1 DEF Creating, StartupSteps, Snapshot
    <2>3. Getting(q, s) => Getting(q, s)'
      <3>. SUFFICES ASSUME Getting(q, s)
                    PROVE  Getting(q, s)'
        OBVIOUS
      <3>1. CASE live'[s] = live[s]
        BY <2>1, <3>1, ZenonT(60) DEF Getting, Read
      <3>2. CASE live[s].status = "closed" /\ live'[s] = NotLive
        <4>1. /\ pc[q] \notin {"loading", "loading snapshot", "restoring"}
              /\ pc[q] # "rollback" => row[s].status = "closed"
          BY <3>2 DEF Getting
        <4>2. live'[s].status = "none"
          BY <3>2
        <4>. QED
          BY <2>1, <4>1, <4>2 DEF Getting, Read
      <3>. QED
        BY <3>1, <3>2
    <2>4. Ending(q, s) => Ending(q, s)'
      BY <2>1 DEF Ending
    <2>5. Closing(q, s) => Closing(q, s)'
      BY <2>1 DEF Closing
    <2>6. Deleting(q, s) => Deleting(q, s)'
      BY <2>1 DEF Deleting
    <2>7. Renaming(q, s) => Renaming(q, s)'
      BY <1>5, <2>1 DEF Renaming
    <2>8. Prompting(q, s) => Prompting(q, s)'
      BY <2>1 DEF Prompting, Snapshot
    <2>. QED
      BY <1>6, <2>1, <2>2, <2>3, <2>4, <2>5, <2>6, <2>7, <2>8 DEF Midway
  <1>. QED
    BY <1>1, <1>3, <1>4, <1>5, <1>6 DEF CalmSession

-----------------------------------------------------------------------------
(* The session a step is about: the request goes on, or the session rests. *)

GoesOn(r, s) ==
  /\ UnderWay(r)' => Midway(r, s)'
  /\ ~UnderWay(r)' => Rest(s)'

LEMMA SnapshotRows ==
  ASSUME NEW w, NEW sn, NEW st
  PROVE  /\ SnapshotRow(w, sn, st).status = st
         /\ SnapshotRow(w, sn, st).msgs = sn.msgs
         /\ SnapshotRow(w, sn, st).deleted <=> w.deleted \/ st = "deleted"
         /\ SnapshotRow(w, sn, st).checkout = w.checkout
  <1>1. SnapshotRow(w, sn, st).deleted <=> w.deleted \/ st = "deleted"
    BY Zenon DEF SnapshotRow
  <1>. QED
    BY <1>1 DEF SnapshotRow

LEMMA StepGoesOn ==
  ASSUME LifecycleInv, NEW r \in Requests, RequestStep(r),
         NEW s \in Sessions, on[r] = s, on'[r] = s, calm[s], calm'[s], Midway(r, s)
  PROVE  GoesOn(r, s)
  <1>1. Types
    BY TypesAreTypes DEF LifecycleInv
  <1>2. /\ DOMAIN live = Sessions /\ DOMAIN row = Sessions /\ DOMAIN dir = Sessions
        /\ DOMAIN agent = Sessions /\ DOMAIN bound = Sessions /\ DOMAIN forgets = Sessions
        /\ DOMAIN calm = Sessions /\ forgets[s] \in Nat
        /\ DOMAIN pc = Requests /\ DOMAIN op = Requests /\ DOMAIN on = Requests
        /\ DOMAIN stage = Requests /\ DOMAIN seen = Requests /\ DOMAIN snap = Requests
        /\ DOMAIN turn = Requests
        /\ live[s] \in LiveRecords /\ row[s] \in Rows /\ dir[s] \in BOOLEAN
        /\ snap[r] \in Snapshots
    BY <1>1 DEF Types
  <1>. USE DEF GoesOn, GoOn, memoryVars, durableVars, requestVars, historyVars, UnderWay,
               IsLive, Active, Rest, StoreAtRest, MemoryAtRest, AsStored, Midway,
               Creating, Getting, Ending, Closing, Deleting, Renaming, Prompting, StartupSteps
  <1>3. CASE ReadRow(r)
    BY <1>2, <1>3 DEF ReadRow, Read
  <1>4. CASE WriteRow(r)
    BY <1>2, <1>4 DEF WriteRow, LifecycleRow
  <1>5. CASE RowFails(r)
    BY <1>2, <1>5 DEF RowFails
  <1>6. CASE Checkout(r)
    BY <1>2, <1>6 DEF Checkout
  <1>7. CASE CheckoutFails(r)
    BY <1>2, <1>7 DEF CheckoutFails
  <1>8. CASE Reserve(r)
    <2>2. pc[r] = "launching" /\ op[r] \in {"create", "get"} /\ agent[s] = "none"
      BY <1>8 DEF Reserve
    <2>3. /\ agent' = [agent EXCEPT ![s] = r] /\ pc' = [pc EXCEPT ![r] = "awaiting agent"]
          /\ UNCHANGED <<live, bound, forgets, row, dir, op, on, stage, seen, snap, turn>>
      BY <1>8, <2>2 DEF Reserve
    <2>1. agent'[s] = r /\ pc'[r] = "awaiting agent"
          /\ UNCHANGED <<live, bound, forgets, row, dir, op, on, stage, seen, snap, turn>>
      BY <1>2, <2>3
    <2>. QED
      BY <1>2, <2>1, <2>2
  <1>9. CASE AgentStarts(r)
    BY <1>2, <1>9 DEF AgentStarts
  <1>10. CASE AgentFails(r)
    BY <1>2, <1>10 DEF AgentFails, WithoutAgent
  <1>11. CASE Bind(r)
    BY <1>2, <1>11 DEF Bind
  <1>12. CASE Prime(r)
    BY <1>2, <1>12 DEF Prime
  <1>13. CASE PrimeWithHint(r)
    BY <1>2, <1>13 DEF PrimeWithHint, Snapshot
  <1>14. CASE PrimeFails(r)
    BY <1>2, <1>14 DEF PrimeFails
  <1>15. CASE CleanUp(r)
    BY <1>2, <1>15 DEF CleanUp, WithoutAgent
  <1>16. CASE RollBack(r)
    BY <1>2, <1>16 DEF RollBack, WithoutAgent, NotLive
  <1>17. CASE LoadMetadata(r)
    BY <1>2, <1>17 DEF LoadMetadata, Read
  <1>18. CASE LoadSnapshot(r)
    <2>1. CASE Restorable(row[s])
      <3>1. /\ snap'[r] = [status |-> row[s].status, msgs |-> row[s].msgs]
            /\ pc[r] = "loading snapshot" /\ pc'[r] = "restoring" /\ row[s].status \in {"active", "closed"}
            /\ UNCHANGED <<live, agent, bound, forgets, row, dir, op, on, stage, seen, turn>>
        BY <1>2, <1>18, <2>1, ZenonT(60) DEF LoadSnapshot, Restorable
      <3>. QED
        BY <1>2, <3>1 DEF Read
    <2>2. CASE ~Restorable(row[s])
      BY <1>2, <1>18, <2>2 DEF LoadSnapshot
    <2>. QED
      BY <2>1, <2>2
  <1>19. CASE Restore(r)
    BY <1>2, <1>19 DEF Restore, Restored, Snapshot, NotLive
  <1>20. CASE Resolve(r)
    BY <1>2, <1>20 DEF Resolve, Read
  <1>21. CASE BindRestored(r)
    BY <1>2, <1>21 DEF BindRestored
  <1>22. CASE MarkUnavailable(r)
    BY <1>2, <1>22 DEF MarkUnavailable
  <1>23. CASE LookFails(r)
    BY <1>2, <1>23 DEF LookFails
  <1>24. CASE Refuse(r)
    BY <1>2, <1>24 DEF Refuse
  <1>25. CASE CloseLive(r)
    <2>1. live'[s] = [live[s] EXCEPT !.status = "closed"]
      <3>1. PICK gone \in SUBSET Sessions :
              /\ on[r] \notin gone
              /\ live' = [t \in Sessions |-> IF t \in gone THEN NotLive
                                             ELSE IF t = on[r] THEN [live[t] EXCEPT !.status = "closed"]
                                             ELSE live[t]]
        BY <1>25, CloseLiveKeeps
      <3>. QED
        BY <3>1
    <2>. QED
      BY <1>2, <1>25, <2>1 DEF CloseLive, LiveRecords
  <1>26. CASE DeleteSnapshot(r)
    BY <1>2, <1>26 DEF DeleteSnapshot, Snapshot
  <1>27. CASE DeleteLive(r)
    BY <1>2, <1>27 DEF DeleteLive, NotLive
  <1>28. CASE Forget(r)
    BY <1>2, <1>28 DEF Forget, WithoutAgent
  <1>29. CASE RemoveCheckout(r)
    BY <1>2, <1>29 DEF RemoveCheckout
  <1>30. CASE SnapshotPrompt(r)
    BY <1>2, <1>30 DEF SnapshotPrompt, Snapshot, AfterPersisting
  <1>31. CASE Complete(r)
    BY <1>2, <1>31 DEF Complete, Snapshot
  <1>32. CASE Persist(r)
    <2>1. /\ pc[r] = "persisting" /\ row'[s] = SnapshotRow(row[s], snap[r], StatusToWrite(r))
          /\ pc'[r] = AfterPersisting(r)
          /\ UNCHANGED <<live, agent, bound, forgets, dir, op, on, stage, seen, snap, turn>>
      BY <1>2, <1>32 DEF Persist
    <2>2. /\ row'[s].status = StatusToWrite(r) /\ row'[s].msgs = snap[r].msgs
          /\ row'[s].deleted <=> row[s].deleted \/ StatusToWrite(r) = "deleted"
          /\ row'[s].checkout = row[s].checkout
      BY <2>1, SnapshotRows
    <2>3. CASE op[r] = "close"
      <3>1. /\ pc'[r] = "removing" /\ row'[s].status = "closed"
            /\ row'[s].deleted <=> row[s].deleted
        BY <1>2, <2>1, <2>2, <2>3 DEF StatusToWrite, AfterPersisting
      <3>2. /\ dir[s] => seen[r].checkout
            /\ agent[s] = "none" /\ ~Active(s) /\ snap[r].status = "closed" /\ ~row[s].deleted
            /\ IsLive(s) => live[s].msgs = snap[r].msgs
        BY <2>1, <2>3
      <3>3. IsLive(s) => live[s].status = "closed"
        BY <1>2, <3>2 DEF LiveRecords
      <3>4. Ending(r, s)'
        BY <2>1, <3>1, <3>2
      <3>5. Closing(r, s)'
        BY <2>1, <2>2, <3>1, <3>2, <3>3
      <3>. QED
        BY <2>1, <2>3, <3>1, <3>4, <3>5
    <2>4. CASE op[r] = "delete"
      BY <1>2, <2>1, <2>2, <2>4 DEF StatusToWrite, AfterPersisting
    <2>5. CASE op[r] = "rename"
      <3>2. Rest(s) /\ row[s].status \in {"active", "closed"}
            /\ snap[r].status = row[s].status /\ snap[r].msgs = row[s].msgs
        BY <2>1, <2>5
      <3>1. /\ pc'[r] = "done" /\ row'[s].status = row[s].status
            /\ row'[s].msgs = row[s].msgs
            /\ row'[s].deleted <=> row[s].deleted
        BY <1>2, <2>1, <2>2, <2>5, <3>2 DEF StatusToWrite, AfterPersisting
      <3>3. StoreAtRest(s)'
        <4>1. dir'[s] => row'[s].checkout
          BY <2>1, <2>2, <3>2
        <4>2. dir'[s] <=> row'[s].status = "active"
          BY <2>1, <3>1, <3>2
        <4>3. row'[s].deleted <=> row'[s].status = "deleted"
          BY <3>1, <3>2
        <4>. QED
          BY <4>1, <4>2, <4>3
      <3>4. MemoryAtRest(s)'
        BY <2>1, <3>1, <3>2
      <3>. QED
        BY <3>1, <3>3, <3>4
    <2>6. CASE op[r] = "prompt"
      BY <1>2, <2>1, <2>2, <2>6 DEF StatusToWrite, AfterPersisting, Snapshot
    <2>7. CASE op[r] = "create"
      BY <1>2, <2>1, <2>2, <2>7 DEF StatusToWrite, AfterPersisting, Snapshot
    <2>8. op[r] # "get"
      BY <2>1
    <2>. QED
      BY <2>3, <2>4, <2>5, <2>6, <2>7, <2>8
  <1>33. CASE PersistFails(r)
    BY <1>2, <1>33 DEF PersistFails, AfterPersisting
  <1>34. ASSUME Create(r) \/ Count(r) \/ Insert(r) \/ pc[r] = "idle"
        PROVE  FALSE
    BY <1>34 DEF Create, Count, Insert
  <1>. QED
    BY <1>3, <1>4, <1>5, <1>6, <1>7, <1>8, <1>9, <1>10, <1>11, <1>12, <1>13, <1>14, <1>15, <1>16, <1>17, <1>18, <1>19, <1>20, <1>21, <1>22, <1>23, <1>24, <1>25, <1>26, <1>27, <1>28, <1>29, <1>30, <1>31, <1>32, <1>33, <1>34 DEF RequestStep, Get, Look, Rename, Submit

LEMMA BeginsWell ==
  ASSUME LifecycleInv, NEW r \in Requests, NEW s \in Sessions, calm'[s], Rest(s),
         Get(r, s) \/ Look(r, s, "close") \/ Look(r, s, "delete") \/ Rename(r, s) \/ Submit(r, s)
  PROVE  GoesOn(r, s)
  <1>1. Types
    BY TypesAreTypes DEF LifecycleInv
  <1>2. /\ DOMAIN live = Sessions
        /\ DOMAIN calm = Sessions /\ forgets[s] \in Nat
        /\ DOMAIN pc = Requests /\ DOMAIN op = Requests /\ DOMAIN on = Requests
        /\ DOMAIN stage = Requests /\ DOMAIN seen = Requests /\ DOMAIN snap = Requests
        /\ DOMAIN turn = Requests
        /\ live[s] \in LiveRecords
    BY <1>1 DEF Types
  <1>. USE DEF GoesOn, GoOn, memoryVars, durableVars, requestVars, historyVars, UnderWay,
               IsLive, Active, Rest, StoreAtRest, MemoryAtRest, AsStored, Midway, Begin,
               Creating, Getting, Ending, Closing, Deleting, Renaming, Prompting, StartupSteps
  <1>3. forgets[s] = 0
    BY <1>2 DEF Get, Look, Rename, Submit
  <1>4. CASE Get(r, s)
    BY <1>2, <1>3, <1>4 DEF Get
  <1>5. CASE Look(r, s, "close") \/ Look(r, s, "delete")
    <2>1. /\ seen'[r] = Read(row[s]) /\ pc'[r] = "ending" /\ op'[r] \in {"close", "delete"}
          /\ UNCHANGED <<live, agent, bound, forgets, row, dir, snap, turn>>
      BY <1>2, <1>5 DEF Look
    <2>2. seen'[r].checkout = row[s].checkout
      BY <2>1 DEF Read
    <2>. QED
      BY <2>1, <2>2
  <1>6. CASE Rename(r, s)
    BY <1>2, <1>3, <1>6 DEF Rename, Snapshot, LiveRecords
  <1>7. CASE Submit(r, s)
    BY <1>2, <1>3, <1>7 DEF Submit, LiveRecords
  <1>. QED
    BY <1>4, <1>5, <1>6, <1>7

LEMMA InsertsWell ==
  ASSUME LifecycleInv, NEW r \in Requests, Insert(r), NEW s \in Sessions, on'[r] = s
  PROVE  s \notin used /\ GoesOn(r, s)
  <1>1. Types /\ RequestInv(r)
    BY TypesAreTypes DEF LifecycleInv
  <1>2. PICK t \in Sessions \ used : /\ live' = [live EXCEPT ![t] = NewSession]
                                    /\ on' = [on EXCEPT ![r] = t]
    BY DEF Insert
  <1>3. s = t /\ s \notin used
    BY <1>1, <1>2 DEF Types
  <1>4. Unused(s)
    BY <1>3 DEF LifecycleInv, SessionInv
  <1>5. /\ live'[s] = NewSession /\ snap'[r] = Snapshot(NewSession) /\ stage'[r] = "provisioning"
        /\ pc'[r] = "reading" /\ op'[r] = "create"
        /\ UNCHANGED <<agent, bound, forgets, row, dir>>
    BY <1>1, <1>2, <1>3 DEF Insert, GoOn, Types, RequestInv
  <1>6. /\ row[s] = NoRow /\ ~dir[s] /\ agent[s] = "none" /\ forgets[s] = 0
    BY <1>4 DEF Unused
  <1>7. Creating(r, s)'
    BY <1>5, <1>6 DEF Creating, Active, NewSession, NotLive, NoRow, StartupSteps
  <1>. QED
    BY <1>3, <1>5, <1>7 DEF GoesOn, Midway, UnderWay

(* A step is of a request that is under way or begins; what is not calm    *)
(* never is again; and a request turns to a session only when it begins.   *)
Begins(r, s) ==
  Get(r, s) \/ Look(r, s, "close") \/ Look(r, s, "delete") \/ Rename(r, s) \/ Submit(r, s)

LEMMA RequestStepKinds ==
  ASSUME LifecycleInv, NEW r \in Requests, RequestStep(r)
  PROVE  /\ pc[r] # "done"
         /\ \A s \in Sessions : calm'[s] => calm[s]
         /\ on'[r] = on[r] \/ Insert(r) \/ \E s \in Sessions : Begins(r, s) /\ on'[r] = s
  <1>1. calm \in [Sessions -> BOOLEAN] /\ on \in [Requests -> Sessions \cup {"none"}]
    BY TypesAreTypes DEF LifecycleInv, Types
  <1>. USE DEF memoryVars, durableVars, requestVars, historyVars, Begins
  <1>. DEFINE Goal == /\ pc[r] # "done"
                      /\ \A t \in Sessions : calm'[t] => calm[t]
                      /\ \/ on'[r] = on[r]
                         \/ Insert(r)
                         \/ \E t \in Sessions : Begins(r, t) /\ on'[r] = t
  <1>2. CASE Create(r)
    BY <1>1, <1>2 DEF Create
  <1>3. CASE Count(r)
    BY <1>1, <1>3 DEF Count
  <1>4. CASE Insert(r)
    BY <1>1, <1>4 DEF Insert
  <1>5. CASE ReadRow(r)
    BY <1>1, <1>5 DEF ReadRow
  <1>6. CASE WriteRow(r)
    BY <1>1, <1>6 DEF WriteRow
  <1>7. CASE RowFails(r)
    BY <1>1, <1>7 DEF RowFails
  <1>8. CASE Checkout(r)
    BY <1>1, <1>8 DEF Checkout
  <1>9. CASE CheckoutFails(r)
    BY <1>1, <1>9 DEF CheckoutFails
  <1>10. CASE Reserve(r)
    BY <1>1, <1>10 DEF Reserve
  <1>11. CASE AgentStarts(r)
    BY <1>1, <1>11 DEF AgentStarts
  <1>12. CASE AgentFails(r)
    BY <1>1, <1>12 DEF AgentFails
  <1>13. CASE Bind(r)
    BY <1>1, <1>13 DEF Bind
  <1>14. CASE Prime(r)
    BY <1>1, <1>14 DEF Prime
  <1>15. CASE PrimeWithHint(r)
    BY <1>1, <1>15 DEF PrimeWithHint
  <1>16. CASE PrimeFails(r)
    BY <1>1, <1>16 DEF PrimeFails
  <1>17. CASE CleanUp(r)
    BY <1>1, <1>17 DEF CleanUp
  <1>18. CASE RollBack(r)
    BY <1>1, <1>18 DEF RollBack
  <1>19. CASE LoadMetadata(r)
    BY <1>1, <1>19 DEF LoadMetadata
  <1>20. CASE LoadSnapshot(r)
    BY <1>1, <1>20 DEF LoadSnapshot
  <1>21. CASE Restore(r)
    BY <1>1, <1>21 DEF Restore
  <1>22. CASE Resolve(r)
    BY <1>1, <1>22 DEF Resolve
  <1>23. CASE BindRestored(r)
    BY <1>1, <1>23 DEF BindRestored
  <1>24. CASE MarkUnavailable(r)
    BY <1>1, <1>24 DEF MarkUnavailable
  <1>25. CASE LookFails(r)
    BY <1>1, <1>25 DEF LookFails
  <1>26. CASE Refuse(r)
    BY <1>1, <1>26 DEF Refuse
  <1>27. CASE CloseLive(r)
    BY <1>1, <1>27 DEF CloseLive
  <1>28. CASE DeleteSnapshot(r)
    BY <1>1, <1>28 DEF DeleteSnapshot
  <1>29. CASE DeleteLive(r)
    BY <1>1, <1>29 DEF DeleteLive
  <1>30. CASE Forget(r)
    BY <1>1, <1>30 DEF Forget
  <1>31. CASE RemoveCheckout(r)
    BY <1>1, <1>31 DEF RemoveCheckout
  <1>32. CASE SnapshotPrompt(r)
    BY <1>1, <1>32 DEF SnapshotPrompt
  <1>33. CASE Complete(r)
    BY <1>1, <1>33 DEF Complete
  <1>34. CASE Persist(r)
    BY <1>1, <1>34 DEF Persist
  <1>35. CASE PersistFails(r)
    BY <1>1, <1>35 DEF PersistFails
  <1>36. ASSUME NEW s \in Sessions, Get(r, s)
        PROVE  Goal
    BY <1>1, <1>36 DEF Get, Begin
  <1>37. ASSUME NEW s \in Sessions, NEW what \in {"close", "delete"}, Look(r, s, what)
        PROVE  Goal
    BY <1>1, <1>37 DEF Look, Begin
  <1>38. ASSUME NEW s \in Sessions, Rename(r, s)
        PROVE  Goal
    BY <1>1, <1>38 DEF Rename, Begin
  <1>39. ASSUME NEW s \in Sessions, Submit(r, s)
        PROVE  Goal
    BY <1>1, <1>39 DEF Submit, Begin
  <1>. QED
    BY <1>2, <1>3, <1>4, <1>5, <1>6, <1>7, <1>8, <1>9, <1>10, <1>11, <1>12, <1>13, <1>14, <1>15, <1>16, <1>17, <1>18, <1>19, <1>20, <1>21, <1>22, <1>23, <1>24, <1>25, <1>26, <1>27, <1>28, <1>29, <1>30, <1>31, <1>32, <1>33, <1>34, <1>35, <1>36, <1>37, <1>38, <1>39 DEF RequestStep

LEMMA SettlesCalm ==
  ASSUME NEW r \in Requests, NEW s \in Sessions, Alone(r), on'[r] = s, GoesOn(r, s),
         \A q \in Requests \ {r} : ~UnderWayOn(q, s)
  PROVE  CalmSession(s)'
  <1>1. \A q \in Requests \ {r} : ~UnderWayOn(q, s)'
    BY DEF Alone, UnderWayOn, UnderWay
  <1>2. UnderWayOn(r, s)' <=> UnderWay(r)'
    BY DEF UnderWayOn
  <1>3. OneByOne(s)'
    BY <1>1 DEF OneByOne
  <1>. QED
    BY <1>1, <1>2, <1>3 DEF CalmSession, GoesOn

LEMMA RequestStepSessions ==
  ASSUME LifecycleInv, NEW r \in Requests, RequestStep(r), NEW s \in Sessions
  PROVE  SessionInv(s)'
  <1>1. SessionInv(s) /\ RequestInv(r)
    BY DEF LifecycleInv
  <1>2. /\ Alone(r) /\ used \subseteq used'
        /\ s # on'[r] => Apart(r, s) /\ on[r] # s
    BY RequestStepFrame
  <1>3. /\ pc[r] # "done"
        /\ calm'[s] => calm[s]
        /\ on'[r] = on[r] \/ Insert(r) \/ \E t \in Sessions : Begins(r, t) /\ on'[r] = t
    BY RequestStepKinds
  <1>4. "none" \notin Sessions
    BY LifecycleAssumption
  <1>5. CASE on'[r] # s
    BY <1>1, <1>2, <1>5, OtherSession
  <1>6. CASE on'[r] = s /\ on[r] = s
    <2>1. UnderWayOn(r, s)
      BY <1>1, <1>3, <1>4, <1>6 DEF RequestInv, UnderWayOn, UnderWay
    <2>2. s \in used'
      BY <1>1, <1>2, <1>6 DEF SessionInv, Unused
    <2>3. ASSUME calm'[s]
          PROVE  CalmSession(s)'
      <3>1. CalmSession(s) /\ calm[s]
        BY <1>1, <1>3, <2>3 DEF SessionInv
      <3>2. Midway(r, s) /\ \A q \in Requests \ {r} : ~UnderWayOn(q, s)
        BY <2>1, <3>1 DEF CalmSession, OneByOne
      <3>3. GoesOn(r, s)
        BY <1>6, <2>3, <3>1, <3>2, StepGoesOn
      <3>. QED
        BY <1>2, <1>6, <3>2, <3>3, SettlesCalm
    <2>. QED
      BY <2>2, <2>3 DEF SessionInv
  <1>7. CASE on'[r] = s /\ Insert(r)
    <2>1. s \notin used /\ GoesOn(r, s)
      BY <1>7, InsertsWell
    <2>2. \A q \in Requests : ~UnderWayOn(q, s)
      BY <1>1, <2>1 DEF SessionInv, Unused, UnderWayOn
    <2>3. s \in used'
      <3>1. on \in [Requests -> Sessions \cup {"none"}]
        BY TypesAreTypes DEF LifecycleInv, Types
      <3>. QED
        BY <1>7, <3>1 DEF Insert
    <2>4. CalmSession(s)'
      BY <1>2, <1>7, <2>1, <2>2, SettlesCalm
    <2>. QED
      BY <2>3, <2>4 DEF SessionInv
  <1>8. CASE on'[r] = s /\ on[r] # s /\ \E t \in Sessions : Begins(r, t) /\ on'[r] = t
    <2>1. Begins(r, s)
      BY <1>8
    <2>2. s \in used
      BY <1>1, <2>1 DEF Begins, Get, Look, Rename, Submit, IsLive, Active, SessionInv, Unused, NotLive
    <2>3. ASSUME calm'[s]
          PROVE  CalmSession(s)'
      <3>1. CalmSession(s) /\ calm[s]
        BY <1>1, <1>3, <2>3 DEF SessionInv
      <3>2. Others(r, s) = {} /\ pc[r] = "idle"
        <4>1. calm \in [Sessions -> BOOLEAN]
          BY TypesAreTypes DEF LifecycleInv, Types
        <4>2. calm' = [calm EXCEPT ![s] = @ /\ Others(r, s) = {} /\ forgets[s] = 0] /\ pc[r] = "idle"
          BY <2>1 DEF Begins, Get, Look, Rename, Submit, Begin
        <4>. QED
          BY <2>3, <4>1, <4>2
      <3>3. \A q \in Requests : ~UnderWayOn(q, s)
        BY <3>2 DEF Others, UnderWayOn, UnderWay
      <3>4. Rest(s)
        BY <3>1, <3>3 DEF CalmSession
      <3>5. GoesOn(r, s)
        BY <2>1, <2>3, <3>4, BeginsWell DEF Begins
      <3>. QED
        BY <1>2, <1>8, <3>3, <3>5, SettlesCalm
    <2>. QED
      BY <1>2, <2>2, <2>3 DEF SessionInv
  <1>. QED
    BY <1>3, <1>5, <1>6, <1>7, <1>8


-----------------------------------------------------------------------------
(* The cap.  Only an insertion makes a session active that was created and *)
(* not restored.                                                           *)

LEMMA RequestStepLive ==
  ASSUME LifecycleInv, NEW r \in Requests, RequestStep(r), NEW s \in Sessions, on'[r] = s
  PROVE  \/ live'[s].status # "active"
         \/ live[s].status = "active" /\ live'[s].restored = live[s].restored
         \/ live'[s].restored = TRUE
         \/ Insert(r)
  <1>1. /\ live \in [Sessions -> LiveRecords] /\ on \in [Requests -> Sessions \cup {"none"}]
        /\ live[s] \in LiveRecords
    BY TypesAreTypes DEF LifecycleInv, Types
  <1>. USE DEF memoryVars, durableVars, requestVars, historyVars
  <1>. DEFINE Goal == \/ live'[s].status # "active"
                      \/ live[s].status = "active" /\ live'[s].restored = live[s].restored
                      \/ live'[s].restored = TRUE
                      \/ Insert(r)
  <1>2. CASE Create(r)
    BY <1>1, <1>2 DEF Create
  <1>3. CASE Count(r)
    BY <1>1, <1>3 DEF Count
  <1>4. CASE Insert(r)
    BY <1>4
  <1>5. CASE ReadRow(r)
    BY <1>1, <1>5 DEF ReadRow
  <1>6. CASE WriteRow(r)
    BY <1>1, <1>6 DEF WriteRow
  <1>7. CASE RowFails(r)
    BY <1>1, <1>7 DEF RowFails
  <1>8. CASE Checkout(r)
    BY <1>1, <1>8 DEF Checkout
  <1>9. CASE CheckoutFails(r)
    BY <1>1, <1>9 DEF CheckoutFails
  <1>10. CASE Reserve(r)
    BY <1>1, <1>10 DEF Reserve
  <1>11. CASE AgentStarts(r)
    BY <1>1, <1>11 DEF AgentStarts
  <1>12. CASE AgentFails(r)
    BY <1>1, <1>12 DEF AgentFails
  <1>13. CASE Bind(r)
    BY <1>1, <1>13 DEF Bind
  <1>14. CASE Prime(r)
    BY <1>1, <1>14 DEF Prime
  <1>15. CASE PrimeWithHint(r)
    BY <1>1, <1>15 DEF PrimeWithHint, Active, LiveRecords
  <1>16. CASE PrimeFails(r)
    BY <1>1, <1>16 DEF PrimeFails
  <1>17. CASE CleanUp(r)
    BY <1>1, <1>17 DEF CleanUp
  <1>18. CASE RollBack(r)
    BY <1>1, <1>18 DEF RollBack, NotLive
  <1>19. CASE LoadMetadata(r)
    BY <1>1, <1>19 DEF LoadMetadata
  <1>20. CASE LoadSnapshot(r)
    BY <1>1, <1>20 DEF LoadSnapshot
  <1>21. CASE Restore(r)
    BY <1>1, <1>21 DEF Restore, Restored, IsLive
  <1>22. CASE Resolve(r)
    BY <1>1, <1>22 DEF Resolve
  <1>23. CASE BindRestored(r)
    BY <1>1, <1>23 DEF BindRestored
  <1>24. CASE MarkUnavailable(r)
    BY <1>1, <1>24 DEF MarkUnavailable, LiveRecords
  <1>25. CASE LookFails(r)
    BY <1>1, <1>25 DEF LookFails
  <1>26. CASE Refuse(r)
    BY <1>1, <1>26 DEF Refuse
  <1>27. CASE CloseLive(r)
    <2>1. PICK gone \in SUBSET Sessions :
            /\ on[r] \notin gone
            /\ live' = [t \in Sessions |-> IF t \in gone THEN NotLive
                                           ELSE IF t = on[r] THEN [live[t] EXCEPT !.status = "closed"]
                                           ELSE live[t]]
      BY <1>27, CloseLiveKeeps
    <2>2. live'[s] = [live[s] EXCEPT !.status = "closed"]
      BY <1>27, <2>1 DEF CloseLive
    <2>. QED
      BY <1>1, <2>2 DEF LiveRecords
  <1>28. CASE DeleteSnapshot(r)
    BY <1>1, <1>28 DEF DeleteSnapshot
  <1>29. CASE DeleteLive(r)
    BY <1>1, <1>29 DEF DeleteLive, NotLive
  <1>30. CASE Forget(r)
    BY <1>1, <1>30 DEF Forget
  <1>31. CASE RemoveCheckout(r)
    BY <1>1, <1>31 DEF RemoveCheckout
  <1>32. CASE SnapshotPrompt(r)
    BY <1>1, <1>32 DEF SnapshotPrompt
  <1>33. CASE Complete(r)
    BY <1>1, <1>33 DEF Complete, LiveRecords
  <1>34. CASE Persist(r)
    BY <1>1, <1>34 DEF Persist
  <1>35. CASE PersistFails(r)
    BY <1>1, <1>35 DEF PersistFails
  <1>36. ASSUME NEW t \in Sessions, Get(r, t)
        PROVE  Goal
    BY <1>1, <1>36 DEF Get
  <1>37. ASSUME NEW t \in Sessions, NEW what, Look(r, t, what)
        PROVE  Goal
    BY <1>1, <1>37 DEF Look
  <1>38. ASSUME NEW t \in Sessions, Rename(r, t)
        PROVE  Goal
    BY <1>1, <1>38 DEF Rename
  <1>39. ASSUME NEW t \in Sessions, Submit(r, t)
        PROVE  Goal
    BY <1>1, <1>39 DEF Submit, Begin, Active, LiveRecords
  <1>. QED
    BY <1>2, <1>3, <1>4, <1>5, <1>6, <1>7, <1>8, <1>9, <1>10, <1>11, <1>12, <1>13, <1>14, <1>15, <1>16, <1>17, <1>18, <1>19, <1>20, <1>21, <1>22, <1>23, <1>24, <1>25, <1>26, <1>27, <1>28, <1>29, <1>30, <1>31, <1>32, <1>33, <1>34, <1>35, <1>36, <1>37, <1>38, <1>39 DEF RequestStep

LEMMA CountsAlone ==
  ASSUME Types, NEW r \in Requests, RequestInv(r), RequestStep(r), ~Insert(r)
  PROVE  \/ counting' = counting /\ pc'[r] # "inserting"
         \/ /\ counting = Nobody
            /\ \/ counting' = counting /\ pc'[r] # "inserting"
               \/ counting' = r /\ Cardinality(ActiveSessions) < SessionCap
  <1>1. pc \in [Requests -> Steps]
    BY DEF Types
  <1>. USE DEF memoryVars, durableVars, requestVars, historyVars, GoOn
  <1>. DEFINE Goal == \/ counting' = counting /\ pc'[r] # "inserting"
                      \/ /\ counting = Nobody
                         /\ \/ counting' = counting /\ pc'[r] # "inserting"
                            \/ counting' = r /\ Cardinality(ActiveSessions) < SessionCap
  <1>2. CASE Create(r)
    BY <1>1, <1>2 DEF Create
  <1>3. CASE Count(r)
    BY <1>1, <1>3 DEF Count
  <1>4. CASE Insert(r)
    BY <1>4
  <1>5. CASE ReadRow(r)
    BY <1>1, <1>5 DEF ReadRow
  <1>6. CASE WriteRow(r)
    BY <1>1, <1>6 DEF WriteRow, RequestInv
  <1>7. CASE RowFails(r)
    BY <1>1, <1>7 DEF RowFails
  <1>8. CASE Checkout(r)
    BY <1>1, <1>8 DEF Checkout
  <1>9. CASE CheckoutFails(r)
    BY <1>1, <1>9 DEF CheckoutFails
  <1>10. CASE Reserve(r)
    BY <1>1, <1>10 DEF Reserve
  <1>11. CASE AgentStarts(r)
    BY <1>1, <1>11 DEF AgentStarts
  <1>12. CASE AgentFails(r)
    BY <1>1, <1>12 DEF AgentFails
  <1>13. CASE Bind(r)
    BY <1>1, <1>13 DEF Bind
  <1>14. CASE Prime(r)
    BY <1>1, <1>14 DEF Prime
  <1>15. CASE PrimeWithHint(r)
    BY <1>1, <1>15 DEF PrimeWithHint
  <1>16. CASE PrimeFails(r)
    BY <1>1, <1>16 DEF PrimeFails
  <1>17. CASE CleanUp(r)
    BY <1>1, <1>17 DEF CleanUp
  <1>18. CASE RollBack(r)
    BY <1>1, <1>18 DEF RollBack
  <1>19. CASE LoadMetadata(r)
    BY <1>1, <1>19 DEF LoadMetadata
  <1>20. CASE LoadSnapshot(r)
    BY <1>1, <1>20 DEF LoadSnapshot
  <1>21. CASE Restore(r)
    BY <1>1, <1>21 DEF Restore
  <1>22. CASE Resolve(r)
    BY <1>1, <1>22 DEF Resolve
  <1>23. CASE BindRestored(r)
    BY <1>1, <1>23 DEF BindRestored
  <1>24. CASE MarkUnavailable(r)
    BY <1>1, <1>24 DEF MarkUnavailable
  <1>25. CASE LookFails(r)
    BY <1>1, <1>25 DEF LookFails
  <1>26. CASE Refuse(r)
    BY <1>1, <1>26 DEF Refuse
  <1>27. CASE CloseLive(r)
    BY <1>1, <1>27 DEF CloseLive
  <1>28. CASE DeleteSnapshot(r)
    BY <1>1, <1>28 DEF DeleteSnapshot
  <1>29. CASE DeleteLive(r)
    BY <1>1, <1>29 DEF DeleteLive
  <1>30. CASE Forget(r)
    BY <1>1, <1>30 DEF Forget
  <1>31. CASE RemoveCheckout(r)
    BY <1>1, <1>31 DEF RemoveCheckout
  <1>32. CASE SnapshotPrompt(r)
    BY <1>1, <1>32 DEF SnapshotPrompt, AfterPersisting
  <1>33. CASE Complete(r)
    BY <1>1, <1>33 DEF Complete
  <1>34. CASE Persist(r)
    BY <1>1, <1>34 DEF Persist, AfterPersisting
  <1>35. CASE PersistFails(r)
    BY <1>1, <1>35 DEF PersistFails, AfterPersisting
  <1>36. ASSUME NEW s \in Sessions, Get(r, s)
        PROVE  Goal
    BY <1>1, <1>36 DEF Get
  <1>37. ASSUME NEW s \in Sessions, NEW what, Look(r, s, what)
        PROVE  Goal
    BY <1>1, <1>37 DEF Look
  <1>38. ASSUME NEW s \in Sessions, Rename(r, s)
        PROVE  Goal
    BY <1>1, <1>38 DEF Rename
  <1>39. ASSUME NEW s \in Sessions, Submit(r, s)
        PROVE  Goal
    BY <1>1, <1>39 DEF Submit
  <1>. QED
    BY <1>2, <1>3, <1>4, <1>5, <1>6, <1>7, <1>8, <1>9, <1>10, <1>11, <1>12, <1>13, <1>14, <1>15, <1>16, <1>17, <1>18, <1>19, <1>20, <1>21, <1>22, <1>23, <1>24, <1>25, <1>26, <1>27, <1>28, <1>29, <1>30, <1>31, <1>32, <1>33, <1>34, <1>35, <1>36, <1>37, <1>38, <1>39 DEF RequestStep

LEMMA CapKept ==
  ASSUME LifecycleInv, NEW r \in Requests, RequestStep(r)
  PROVE  CapInv'
  <1>1. Types /\ CapInv /\ RequestInv(r)
    BY TypesAreTypes DEF LifecycleInv
  <1>2. live' \in [Sessions -> LiveRecords]
    BY RequestStepTypes DEF Types
  <1>3. Alone(r) /\ \A s \in Sessions : s # on'[r] => Apart(r, s)
    BY RequestStepFrame
  <1>4. ASSUME NEW s \in Sessions, live'[s].status = "active"
        PROVE  \/ live[s].status = "active" /\ live'[s].restored = live[s].restored
               \/ on'[r] = s /\ (live'[s].restored = TRUE \/ Insert(r))
    <2>1. CASE s = on'[r]
      BY <1>4, <2>1, RequestStepLive
    <2>2. CASE s # on'[r]
      BY <1>3, <1>4, <2>2 DEF Apart, NotLive
    <2>. QED
      BY <2>1, <2>2
  <1>5. ActiveSessions' \subseteq ActiveSessions \cup {on'[r]}
    BY <1>4 DEF ActiveSessions, Active
  <1>6. IsFiniteSet(ActiveSessions')
    <2>1. IsFiniteSet(ActiveSessions \cup {on'[r]})
      BY <1>1, FS_AddElement DEF CapInv
    <2>. QED
      BY <1>5, <2>1, FS_Subset
  <1>7. CreatedSessions \subseteq ActiveSessions /\ CreatedSessions' \subseteq ActiveSessions'
    BY DEF CreatedSessions, ActiveSessions
  <1>8. IsFiniteSet(CreatedSessions)
    BY <1>1, <1>7, FS_Subset DEF CapInv
  <1>9. Cardinality(CreatedSessions) \in Nat /\ IsFiniteSet(CreatedSessions') /\ SessionCap \in Nat
    BY <1>6, <1>7, <1>8, FS_Subset, FS_CardinalityType, LifecycleAssumption
  <1>9a. Cardinality(CreatedSessions') \in Nat
    BY <1>9, FS_CardinalityType
  <1>10. CASE Insert(r)
    <2>1. pc[r] = "inserting" /\ counting' = Nobody /\ pc' = [pc EXCEPT ![r] = "reading"]
      BY <1>10 DEF Insert, GoOn
    <2>2. counting = r /\ Cardinality(CreatedSessions) < SessionCap
      BY <1>1, <2>1 DEF CapInv
    <2>3. CreatedSessions' \subseteq CreatedSessions \cup {on'[r]}
      BY <1>4 DEF CreatedSessions, Active
    <2>4. /\ IsFiniteSet(CreatedSessions \cup {on'[r]})
          /\ Cardinality(CreatedSessions \cup {on'[r]}) \in Nat
          /\ Cardinality(CreatedSessions \cup {on'[r]}) <= Cardinality(CreatedSessions) + 1
      BY <1>8, <1>9, FS_AddElement, FS_CardinalityType
    <2>5. Cardinality(CreatedSessions') <= Cardinality(CreatedSessions \cup {on'[r]})
      BY <2>3, <2>4, FS_Subset
    <2>6. Cardinality(CreatedSessions') <= SessionCap
      BY <1>9, <1>9a, <2>2, <2>4, <2>5
    <2>7. \A q \in Requests : pc'[q] # "inserting"
      BY <1>1, <2>1, <2>2 DEF CapInv, Types
    <2>. QED
      BY <1>6, <2>6, <2>7 DEF CapInv
  <1>11. CASE ~Insert(r)
    <2>1. CreatedSessions' \subseteq CreatedSessions
      BY <1>2, <1>4, <1>11 DEF CreatedSessions, Active, LiveRecords
    <2>2. Cardinality(CreatedSessions') <= Cardinality(CreatedSessions)
      BY <1>8, <2>1, FS_Subset
    <2>3. Cardinality(CreatedSessions') <= SessionCap
      BY <1>1, <1>9, <1>9a, <2>2 DEF CapInv
    <2>4. \/ counting' = counting /\ pc'[r] # "inserting"
          \/ /\ counting = Nobody
             /\ \/ counting' = counting /\ pc'[r] # "inserting"
                \/ counting' = r /\ Cardinality(ActiveSessions) < SessionCap
      BY <1>1, <1>11, CountsAlone DEF Types
    <2>5. ASSUME NEW q \in Requests, pc'[q] = "inserting"
          PROVE  counting' = q /\ Cardinality(CreatedSessions') < SessionCap
      <3>1. CASE q = r
        <4>1. counting' = r /\ Cardinality(ActiveSessions) < SessionCap
          BY <2>4, <2>5, <3>1
        <4>2. Cardinality(CreatedSessions) <= Cardinality(ActiveSessions) /\ Cardinality(ActiveSessions) \in Nat
          BY <1>1, <1>7, FS_Subset, FS_CardinalityType DEF CapInv
        <4>. QED
          BY <1>9, <1>9a, <2>2, <3>1, <4>1, <4>2
      <3>2. CASE q # r
        <4>1. pc[q] = "inserting"
          BY <1>3, <2>5, <3>2 DEF Alone
        <4>2. counting = q /\ Cardinality(CreatedSessions) < SessionCap
          BY <1>1, <4>1 DEF CapInv
        <4>3. counting' = q
          BY <2>4, <4>2, LifecycleAssumption
        <4>. QED
          BY <1>9, <1>9a, <2>2, <4>2, <4>3
      <3>. QED
        BY <3>1, <3>2
    <2>. QED
      BY <1>6, <2>3, <2>5 DEF CapInv
  <1>. QED
    BY <1>10, <1>11


-----------------------------------------------------------------------------
(* The rows of a deleted workspace: persist_session_snapshot writes none,  *)
(* and what persist_session_lifecycle writes is not restored.              *)

LEMMA RequestStepRows ==
  ASSUME LifecycleInv, NEW r \in Requests, RequestStep(r)
  PROVE  \/ row' = row
         \/ workspace
         \/ row'[on'[r]].status \in {"provisioning", "cloning", "starting", "failed"}
  <1>1. Types /\ RequestInv(r)
    BY TypesAreTypes DEF LifecycleInv
  <1>. USE DEF memoryVars, durableVars, requestVars, historyVars
  <1>. DEFINE Goal == \/ row' = row
                      \/ workspace
                      \/ row'[on'[r]].status \in {"provisioning", "cloning", "starting", "failed"}
  <1>2. CASE Create(r)
    BY <1>1, <1>2 DEF Create
  <1>3. CASE Count(r)
    BY <1>1, <1>3 DEF Count
  <1>4. CASE Insert(r)
    BY <1>1, <1>4 DEF Insert
  <1>5. CASE ReadRow(r)
    BY <1>1, <1>5 DEF ReadRow
  <1>6. CASE WriteRow(r)
    BY <1>1, <1>6 DEF WriteRow, RequestInv, Types, LifecycleRow
  <1>7. CASE RowFails(r)
    BY <1>1, <1>7 DEF RowFails
  <1>8. CASE Checkout(r)
    BY <1>1, <1>8 DEF Checkout
  <1>9. CASE CheckoutFails(r)
    BY <1>1, <1>9 DEF CheckoutFails
  <1>10. CASE Reserve(r)
    BY <1>1, <1>10 DEF Reserve
  <1>11. CASE AgentStarts(r)
    BY <1>1, <1>11 DEF AgentStarts
  <1>12. CASE AgentFails(r)
    BY <1>1, <1>12 DEF AgentFails
  <1>13. CASE Bind(r)
    BY <1>1, <1>13 DEF Bind
  <1>14. CASE Prime(r)
    BY <1>1, <1>14 DEF Prime
  <1>15. CASE PrimeWithHint(r)
    BY <1>1, <1>15 DEF PrimeWithHint
  <1>16. CASE PrimeFails(r)
    BY <1>1, <1>16 DEF PrimeFails
  <1>17. CASE CleanUp(r)
    BY <1>1, <1>17 DEF CleanUp
  <1>18. CASE RollBack(r)
    BY <1>1, <1>18 DEF RollBack
  <1>19. CASE LoadMetadata(r)
    BY <1>1, <1>19 DEF LoadMetadata
  <1>20. CASE LoadSnapshot(r)
    BY <1>1, <1>20 DEF LoadSnapshot
  <1>21. CASE Restore(r)
    BY <1>1, <1>21 DEF Restore
  <1>22. CASE Resolve(r)
    BY <1>1, <1>22 DEF Resolve
  <1>23. CASE BindRestored(r)
    BY <1>1, <1>23 DEF BindRestored
  <1>24. CASE MarkUnavailable(r)
    BY <1>1, <1>24 DEF MarkUnavailable
  <1>25. CASE LookFails(r)
    BY <1>1, <1>25 DEF LookFails
  <1>26. CASE Refuse(r)
    BY <1>1, <1>26 DEF Refuse
  <1>27. CASE CloseLive(r)
    BY <1>1, <1>27 DEF CloseLive
  <1>28. CASE DeleteSnapshot(r)
    BY <1>1, <1>28 DEF DeleteSnapshot
  <1>29. CASE DeleteLive(r)
    BY <1>1, <1>29 DEF DeleteLive
  <1>30. CASE Forget(r)
    BY <1>1, <1>30 DEF Forget
  <1>31. CASE RemoveCheckout(r)
    BY <1>1, <1>31 DEF RemoveCheckout
  <1>32. CASE SnapshotPrompt(r)
    BY <1>1, <1>32 DEF SnapshotPrompt
  <1>33. CASE Complete(r)
    BY <1>1, <1>33 DEF Complete
  <1>34. CASE Persist(r)
    BY <1>1, <1>34 DEF Persist
  <1>35. CASE PersistFails(r)
    BY <1>1, <1>35 DEF PersistFails
  <1>36. ASSUME NEW s \in Sessions, Get(r, s)
        PROVE  Goal
    BY <1>1, <1>36 DEF Get
  <1>37. ASSUME NEW s \in Sessions, NEW what, Look(r, s, what)
        PROVE  Goal
    BY <1>1, <1>37 DEF Look
  <1>38. ASSUME NEW s \in Sessions, Rename(r, s)
        PROVE  Goal
    BY <1>1, <1>38 DEF Rename
  <1>39. ASSUME NEW s \in Sessions, Submit(r, s)
        PROVE  Goal
    BY <1>1, <1>39 DEF Submit
  <1>. QED
    BY <1>2, <1>3, <1>4, <1>5, <1>6, <1>7, <1>8, <1>9, <1>10, <1>11, <1>12, <1>13, <1>14, <1>15, <1>16, <1>17, <1>18, <1>19, <1>20, <1>21, <1>22, <1>23, <1>24, <1>25, <1>26, <1>27, <1>28, <1>29, <1>30, <1>31, <1>32, <1>33, <1>34, <1>35, <1>36, <1>37, <1>38, <1>39 DEF RequestStep

LEMMA RequestStepKeeps ==
  ASSUME LifecycleInv, NEW r \in Requests, RequestStep(r)
  PROVE  LifecycleInv'
  <1>1. LifecycleTypeOK'
    BY RequestStepTypes, TypesAfter
  <1>2. NothingToRestore'
    <2>1. SUFFICES ASSUME ~workspace', NEW s \in Sessions
                   PROVE  ~Restorable(row'[s])
      BY DEF NothingToRestore
    <2>2. ~workspace /\ ~Restorable(row[s])
      BY <2>1, RequestStepFrame DEF LifecycleInv, NothingToRestore
    <2>3. CASE s # on'[r]
      BY <2>2, <2>3, RequestStepFrame DEF Apart
    <2>4. CASE s = on'[r]
      BY <2>2, <2>4, RequestStepRows DEF Restorable
    <2>. QED
      BY <2>3, <2>4
  <1>3. \A s \in Sessions : SessionInv(s)'
    BY RequestStepSessions
  <1>. QED
    BY <1>1, <1>2, <1>3, CapKept, RequestStepRequests DEF LifecycleInv

-----------------------------------------------------------------------------
(* The steps of no request.                                                *)

LEMMA ForgetBindingKeeps ==
  ASSUME LifecycleInv, NEW f \in Sessions, ForgetBinding(f)
  PROVE  LifecycleInv'
  <1>1. Types
    BY TypesAreTypes DEF LifecycleInv
  <1>2. /\ UNCHANGED <<live, counting, agent, used, row, dir, workspace>>
        /\ UNCHANGED <<pc, op, on, stage, seen, snap, turn, restarts, calm>>
        /\ forgets[f] > 0
        /\ forgets' = [forgets EXCEPT ![f] = @ - 1]
        /\ bound' = [bound EXCEPT ![f] = FALSE]
    BY DEF ForgetBinding, durableVars, requestVars, historyVars
  <1>3. LifecycleTypeOK'
    <2>1. forgets[f] \in Nat /\ forgets[f] - 1 \in Nat
      BY <1>1, <1>2 DEF Types
    <2>2. forgets' \in [Sessions -> Nat] /\ bound' \in [Sessions -> BOOLEAN]
      BY <1>1, <1>2, <2>1 DEF Types
    <2>. QED
      BY <1>1, <1>2, <2>2, TypesAfter DEF Types
  <1>4. CapInv' /\ NothingToRestore' /\ \A r \in Requests : RequestInv(r)'
    BY <1>2 DEF LifecycleInv, CapInv, NothingToRestore, RequestInv, CreatedSessions, ActiveSessions,
                Active
  <1>5. ASSUME NEW s \in Sessions
        PROVE  SessionInv(s)'
    <2>1. SessionInv(s)
      BY DEF LifecycleInv
    <2>2. s # f => forgets'[s] = forgets[s] /\ bound'[s] = bound[s]
      BY <1>1, <1>2 DEF Types
    <2>3. s = f => forgets[s] # 0
      BY <1>1, <1>2 DEF Types
    <2>. USE DEF IsLive, Active, StoreAtRest, MemoryAtRest, AsStored, Rest
    <2>4. Unused(s) => Unused(s)'
      BY <1>2, <2>2, <2>3 DEF Unused
    <2>5. Rest(s) => Rest(s)'
      BY <1>2, <2>2, <2>3
    <2>6. \A r \in Requests : UnderWayOn(r, s)' <=> UnderWayOn(r, s)
      BY <1>2 DEF UnderWayOn, UnderWay
    <2>7. ASSUME NEW r \in Requests, Midway(r, s)
          PROVE  Midway(r, s)'
      <3>1. Creating(r, s) => Creating(r, s)'
        BY <1>2, <2>2, <2>3 DEF Creating, StartupSteps, Snapshot
      <3>2. Getting(r, s) => Getting(r, s)'
        BY <1>2, <2>2, <2>3 DEF Getting, Read
      <3>3. Ending(r, s) => Ending(r, s)'
        BY <1>2, <2>5 DEF Ending
      <3>4. Closing(r, s) => Closing(r, s)'
        BY <1>2 DEF Closing
      <3>5. Deleting(r, s) => Deleting(r, s)'
        BY <1>2 DEF Deleting
      <3>6. Renaming(r, s) => Renaming(r, s)'
        BY <1>2, <2>5 DEF Renaming
      <3>7. Prompting(r, s) => Prompting(r, s)'
        BY <1>2, <2>2, <2>3 DEF Prompting, Snapshot
      <3>. QED
        BY <1>2, <2>7, <3>1, <3>2, <3>3, <3>4, <3>5, <3>6, <3>7 DEF Midway
    <2>8. CalmSession(s) => CalmSession(s)'
      BY <2>5, <2>6, <2>7 DEF CalmSession, OneByOne
    <2>. QED
      BY <1>2, <2>1, <2>4, <2>8 DEF SessionInv
  <1>. QED
    BY <1>3, <1>4, <1>5 DEF LifecycleInv

LEMMA RestartKeeps ==
  ASSUME LifecycleInv, Restart
  PROVE  LifecycleInv'
  <1>1. Types
    BY TypesAreTypes DEF LifecycleInv
  <1>2. /\ restarts < MaxRestarts /\ restarts' = restarts + 1
        /\ calm' = [s \in Sessions |-> calm[s] /\ Quiet(s)]
        /\ live' = [s \in Sessions |-> NotLive]
        /\ counting' = Nobody
        /\ agent' = [s \in Sessions |-> "none"]
        /\ bound' = [s \in Sessions |-> FALSE]
        /\ forgets' = [s \in Sessions |-> 0]
        /\ pc' = [r \in Requests |-> IF UnderWay(r) THEN "done" ELSE pc[r]]
        /\ UNCHANGED <<used, row, dir, workspace, op, on, stage, seen, snap, turn>>
    BY DEF Restart, durableVars
  <1>3. LifecycleTypeOK'
    <2>1. live' \in [Sessions -> LiveRecords]
      BY <1>2, LiveSessions
    <2>2. agent' \in [Sessions -> Slots] /\ bound' \in [Sessions -> BOOLEAN]
          /\ forgets' \in [Sessions -> Nat] /\ counting' \in Requests \cup {Nobody}
      BY <1>2 DEF Slots
    <2>3. pc' \in [Requests -> Steps]
      BY <1>1, <1>2 DEF Types, Steps
    <2>4. calm' \in [Sessions -> BOOLEAN]
      BY <1>1, <1>2 DEF Types, Quiet
    <2>5. restarts' \in 0..MaxRestarts
      BY <1>1, <1>2, LifecycleAssumption DEF Types
    <2>. QED
      BY <1>1, <1>2, <2>1, <2>2, <2>3, <2>4, <2>5, TypesAfter DEF Types
  <1>4. \A r \in Requests : ~UnderWay(r)'
    BY <1>2 DEF UnderWay
  <1>5. CapInv'
    <2>1. ActiveSessions' = {} /\ CreatedSessions' = {}
      BY <1>2 DEF ActiveSessions, CreatedSessions, Active, NotLive
    <2>. QED
      BY <1>4, <2>1, FS_EmptySet, LifecycleAssumption DEF CapInv, UnderWay
  <1>6. NothingToRestore' /\ \A r \in Requests : RequestInv(r)'
    BY <1>2, <1>4 DEF LifecycleInv, NothingToRestore, RequestInv, UnderWay
  <1>7. ASSUME NEW s \in Sessions
        PROVE  SessionInv(s)'
    <2>1. SessionInv(s)
      BY DEF LifecycleInv
    <2>2. live'[s] = NotLive /\ agent'[s] = "none" /\ forgets'[s] = 0
      BY <1>2
    <2>3. Unused(s) => Unused(s)'
      BY <1>2, <2>2 DEF Unused
    <2>4. ASSUME calm'[s]
          PROVE  CalmSession(s)'
      <3>1. calm[s] /\ Quiet(s)
        BY <1>2, <2>4
      <3>2. Rest(s)
        BY <2>1, <3>1 DEF SessionInv, CalmSession, Quiet, UnderWayOn
      <3>3. Rest(s)'
        BY <1>2, <2>2, <3>2 DEF Rest, StoreAtRest, MemoryAtRest, AsStored, IsLive, Active, NotLive
      <3>. QED
        BY <1>4, <3>3 DEF CalmSession, OneByOne, UnderWayOn
    <2>. QED
      BY <1>2, <2>1, <2>3, <2>4 DEF SessionInv
  <1>. QED
    BY <1>3, <1>5, <1>6, <1>7 DEF LifecycleInv

(* Whoever looks at the session itself sees the same.                      *)
LEMMA SameSession ==
  ASSUME UNCHANGED <<live, counting, agent, bound, forgets, used, row, dir>>,
         UNCHANGED <<pc, op, on, stage, seen, snap, turn, restarts, calm>>,
         LifecycleInv, workspace' \in BOOLEAN, NothingToRestore'
  PROVE  LifecycleInv'
  <1>1. LifecycleTypeOK'
    BY DEF LifecycleInv, LifecycleTypeOK
  <1>2. CapInv' /\ \A r \in Requests : RequestInv(r)'
    BY DEF LifecycleInv, CapInv, RequestInv, CreatedSessions, ActiveSessions, Active
  <1>3. ASSUME NEW s \in Sessions
        PROVE  SessionInv(s)'
    <2>1. SessionInv(s)
      BY DEF LifecycleInv
    <2>. USE DEF IsLive, Active, StoreAtRest, MemoryAtRest, AsStored, Rest, UnderWay, UnderWayOn
    <2>2. Unused(s)' <=> Unused(s)
      BY DEF Unused
    <2>3. Rest(s)' <=> Rest(s)
      OBVIOUS
    <2>4. \A r \in Requests : Midway(r, s) <=> Midway(r, s)'
      BY DEF Midway, Creating, Getting, Ending, Closing, Deleting, Renaming, Prompting,
             StartupSteps, Snapshot, Read
    <2>5. CalmSession(s)' <=> CalmSession(s)
      BY <2>3, <2>4 DEF CalmSession, OneByOne
    <2>. QED
      BY <2>1, <2>2, <2>5 DEF SessionInv
  <1>. QED
    BY <1>1, <1>2, <1>3 DEF LifecycleInv

LEMMA LifecycleKept ==
  ASSUME LifecycleInv, [LifecycleNext]_lifecycleVars
  PROVE  LifecycleInv'
  <1>1. ASSUME NEW r \in Requests, RequestStep(r)
        PROVE  LifecycleInv'
    BY <1>1, RequestStepKeeps
  <1>2. ASSUME NEW s \in Sessions, ForgetBinding(s)
        PROVE  LifecycleInv'
    BY <1>2, ForgetBindingKeeps
  <1>3. CASE DeleteWorkspace
    <2>1. NothingToRestore'
      BY <1>3 DEF DeleteWorkspace, NothingToRestore, Restorable
    <2>. QED
      BY <1>3, <2>1, SameSession DEF DeleteWorkspace, memoryVars, requestVars, historyVars
  <1>4. CASE Restart
    BY <1>4, RestartKeeps
  <1>5. CASE UNCHANGED lifecycleVars
    <2>1. /\ UNCHANGED <<live, counting, agent, bound, forgets, used, row, dir, workspace>>
          /\ UNCHANGED <<pc, op, on, stage, seen, snap, turn, restarts, calm>>
      BY <1>5 DEF lifecycleVars, memoryVars, durableVars, requestVars, historyVars
    <2>2. NothingToRestore' /\ workspace' \in BOOLEAN
      BY <2>1 DEF LifecycleInv, NothingToRestore, LifecycleTypeOK
    <2>. QED
      BY <2>1, <2>2, SameSession
  <1>. QED
    BY <1>1, <1>2, <1>3, <1>4, <1>5 DEF LifecycleNext

LEMMA LifecycleAlways == LifecycleSpec => []LifecycleInv
  BY LifecycleInitially, LifecycleKept, PTL DEF LifecycleSpec

-----------------------------------------------------------------------------
(* The theorems.                                                           *)

(* Every variable keeps its type, whatever request comes when, fails or is *)
(* cut off by a restart.                                                   *)
THEOREM LifecycleIsTyped == LifecycleSpec => []LifecycleTypeOK
  BY LifecycleAlways, PTL DEF LifecycleInv

(* create_session_lock holds the count to session_cap: at no time are more *)
(* created sessions active, however many requests create at once.          *)
THEOREM TheCapHolds == LifecycleSpec => []CreatedSessionsWithinCap
  <1>1. LifecycleInv => CreatedSessionsWithinCap
    BY DEF LifecycleInv, CapInv, CreatedSessions, CreatedSessionsWithinCap
  <1>. QED
    BY <1>1, LifecycleAlways, PTL

LEMMA QuietRests ==
  ASSUME LifecycleInv, NEW s \in Sessions, calm[s], Quiet(s)
  PROVE  Rest(s)
  BY DEF LifecycleInv, SessionInv, CalmSession, Quiet, UnderWayOn

(* A session nothing is under way about is the same in its five places -   *)
(* memory, store, disk, agent and binding - after any requests that came   *)
(* one after the other, with every failure but a lost write, and after a   *)
(* restart.                                                                *)
THEOREM FivePlacesAgree == LifecycleSpec => []RestingSessionsAreConsistent
  <1>1. ASSUME LifecycleInv, NEW s \in Sessions, calm[s], Quiet(s)
        PROVE  /\ agent[s] = "running" <=> Active(s) /\ ~live[s].broken
               /\ Active(s) /\ ~live[s].broken => bound[s] /\ dir[s]
               /\ IsLive(s) => /\ Restorable(row[s])
                               /\ Snapshot(live[s]) = [status |-> row[s].status, msgs |-> row[s].msgs]
               /\ dir[s] => row[s].status = "active" /\ row[s].checkout
    <2>1. Rest(s)
      BY <1>1, QuietRests
    <2>2. live[s].status \in {"none", "active", "closed"}
      BY <1>1 DEF LifecycleInv, LifecycleTypeOK
    <2>. QED
      BY <2>1, <2>2 DEF Rest, StoreAtRest, MemoryAtRest, AsStored, IsLive, Active, Restorable, Snapshot
  <1>2. LifecycleInv => RestingSessionsAreConsistent
    BY <1>1 DEF RestingSessionsAreConsistent
  <1>. QED
    BY <1>2, LifecycleAlways, PTL

(* delete_workspace refuses while a session is left, and a request that    *)
(* was under way when it went through leaves nothing behind to restore.    *)
THEOREM NothingIsLeftBehind == LifecycleSpec => []DeletedWorkspaceIsEmpty
  <1>1. ASSUME LifecycleInv, ~workspace, NEW s \in Sessions, calm[s], Quiet(s)
        PROVE  ~IsLive(s) /\ ~dir[s] /\ ~Restorable(row[s])
    <2>1. Rest(s) /\ ~Restorable(row[s])
      BY <1>1, QuietRests DEF LifecycleInv, NothingToRestore
    <2>2. live[s].status \in {"none", "active", "closed"}
      BY <1>1 DEF LifecycleInv, LifecycleTypeOK
    <2>. QED
      BY <2>1, <2>2 DEF Rest, StoreAtRest, MemoryAtRest, AsStored, IsLive, Restorable
  <1>2. LifecycleInv => DeletedWorkspaceIsEmpty
    BY <1>1 DEF DeletedWorkspaceIsEmpty
  <1>. QED
    BY <1>2, LifecycleAlways, PTL

Gone(s) ==
  /\ row[s].deleted
  /\ ~IsLive(s)
  /\ \A r \in Requests : on[r] = s => ~CreatesOrRestores(r)

LEMMA RequestStepLeavesGone ==
  ASSUME LifecycleInv, NEW r \in Requests, RequestStep(r),
         NEW s \in Sessions, on'[r] = s, Gone(s)
  PROVE  ~IsLive(s)' /\ row'[s].deleted
  <1>1. /\ live \in [Sessions -> LiveRecords] /\ on \in [Requests -> Sessions \cup {"none"}]
        /\ row \in [Sessions -> Rows]
    BY TypesAreTypes DEF LifecycleInv, Types
  <1>1a. s \in used
    BY DEF LifecycleInv, SessionInv, Unused, Gone, NoRow
  <1>. USE DEF memoryVars, durableVars, requestVars, historyVars, IsLive, Gone, CreatesOrRestores
  <1>. DEFINE Goal == ~IsLive(s)' /\ row'[s].deleted
  <1>2. CASE Create(r)
    BY <1>1, <1>2 DEF Create
  <1>3. CASE Count(r)
    BY <1>1, <1>3 DEF Count
  <1>4. CASE Insert(r)
    BY <1>1, <1>1a, <1>4 DEF Insert
  <1>5. CASE ReadRow(r)
    BY <1>1, <1>5 DEF ReadRow
  <1>6. CASE WriteRow(r)
    BY <1>1, <1>6 DEF WriteRow
  <1>7. CASE RowFails(r)
    BY <1>1, <1>7 DEF RowFails
  <1>8. CASE Checkout(r)
    BY <1>1, <1>8 DEF Checkout
  <1>9. CASE CheckoutFails(r)
    BY <1>1, <1>9 DEF CheckoutFails
  <1>10. CASE Reserve(r)
    BY <1>1, <1>10 DEF Reserve
  <1>11. CASE AgentStarts(r)
    BY <1>1, <1>11 DEF AgentStarts
  <1>12. CASE AgentFails(r)
    BY <1>1, <1>12 DEF AgentFails
  <1>13. CASE Bind(r)
    BY <1>1, <1>13 DEF Bind
  <1>14. CASE Prime(r)
    BY <1>1, <1>14 DEF Prime
  <1>15. CASE PrimeWithHint(r)
    BY <1>1, <1>15 DEF PrimeWithHint, Active
  <1>16. CASE PrimeFails(r)
    BY <1>1, <1>16 DEF PrimeFails
  <1>17. CASE CleanUp(r)
    BY <1>1, <1>17 DEF CleanUp
  <1>18. CASE RollBack(r)
    BY <1>1, <1>18 DEF RollBack, NotLive
  <1>19. CASE LoadMetadata(r)
    BY <1>1, <1>19 DEF LoadMetadata
  <1>20. CASE LoadSnapshot(r)
    BY <1>1, <1>20 DEF LoadSnapshot
  <1>21. CASE Restore(r)
    BY <1>1, <1>21 DEF Restore
  <1>22. CASE Resolve(r)
    BY <1>1, <1>22 DEF Resolve
  <1>23. CASE BindRestored(r)
    BY <1>1, <1>23 DEF BindRestored
  <1>24. CASE MarkUnavailable(r)
    BY <1>1, <1>24 DEF MarkUnavailable, Active
  <1>25. CASE LookFails(r)
    BY <1>1, <1>25 DEF LookFails
  <1>26. CASE Refuse(r)
    BY <1>1, <1>26 DEF Refuse
  <1>27. CASE CloseLive(r)
    BY <1>1, <1>27 DEF CloseLive, Active
  <1>28. CASE DeleteSnapshot(r)
    BY <1>1, <1>28 DEF DeleteSnapshot
  <1>29. CASE DeleteLive(r)
    BY <1>1, <1>29 DEF DeleteLive, NotLive
  <1>30. CASE Forget(r)
    BY <1>1, <1>30 DEF Forget
  <1>31. CASE RemoveCheckout(r)
    BY <1>1, <1>31 DEF RemoveCheckout
  <1>32. CASE SnapshotPrompt(r)
    BY <1>1, <1>32 DEF SnapshotPrompt
  <1>33. CASE Complete(r)
    BY <1>1, <1>33 DEF Complete, Active
  <1>34. CASE Persist(r)
    <2>1. row'[s] = SnapshotRow(row[s], snap[r], StatusToWrite(r)) /\ live' = live
      BY <1>1, <1>34 DEF Persist
    <2>. QED
      BY <2>1, SnapshotRows
  <1>35. CASE PersistFails(r)
    BY <1>1, <1>35 DEF PersistFails
  <1>36. ASSUME NEW t \in Sessions, Get(r, t)
        PROVE  Goal
    BY <1>1, <1>36 DEF Get
  <1>37. ASSUME NEW t \in Sessions, NEW what, Look(r, t, what)
        PROVE  Goal
    BY <1>1, <1>37 DEF Look
  <1>38. ASSUME NEW t \in Sessions, Rename(r, t)
        PROVE  Goal
    BY <1>1, <1>38 DEF Rename, Begin
  <1>39. ASSUME NEW t \in Sessions, Submit(r, t)
        PROVE  Goal
    BY <1>1, <1>39 DEF Submit, Begin, Active
  <1>. QED
    BY <1>2, <1>3, <1>4, <1>5, <1>6, <1>7, <1>8, <1>9, <1>10, <1>11, <1>12, <1>13, <1>14, <1>15, <1>16, <1>17, <1>18, <1>19, <1>20, <1>21, <1>22, <1>23, <1>24, <1>25, <1>26, <1>27, <1>28, <1>29, <1>30, <1>31, <1>32, <1>33, <1>34, <1>35, <1>36, <1>37, <1>38, <1>39 DEF RequestStep

(* A session that is deleted and not live stays so, in memory and in the   *)
(* store, once no request that began earlier is about to create or restore *)
(* it: what a prompt, a title or a late close still writes keeps           *)
(* deleted_at.                                                             *)
THEOREM TheDeletedStayDeleted == LifecycleSpec => GoneForGood
  <1>1. ASSUME LifecycleInv, LifecycleNext, NEW s \in Sessions, Gone(s)
        PROVE  ~IsLive(s)' /\ row'[s].deleted
    <2>1. ASSUME NEW r \in Requests, RequestStep(r)
          PROVE  ~IsLive(s)' /\ row'[s].deleted
      <3>1. CASE on'[r] = s
        BY <1>1, <2>1, <3>1, RequestStepLeavesGone
      <3>2. CASE on'[r] # s
        BY <1>1, <2>1, <3>2, RequestStepFrame DEF Apart, Gone, IsLive, NotLive
      <3>. QED
        BY <3>1, <3>2
    <2>2. CASE (\E f \in Sessions : ForgetBinding(f)) \/ DeleteWorkspace
      BY <1>1, <2>2 DEF ForgetBinding, DeleteWorkspace, durableVars, memoryVars, Gone, IsLive
    <2>3. CASE Restart
      BY <1>1, <2>3 DEF Restart, durableVars, Gone, IsLive, NotLive
    <2>. QED
      BY <1>1, <2>1, <2>2, <2>3 DEF LifecycleNext
  <1>2. LifecycleInv /\ [LifecycleNext]_lifecycleVars
          => [\A s \in Sessions :
                /\ row[s].deleted
                /\ ~IsLive(s)
                /\ \A r \in Requests : on[r] = s => ~CreatesOrRestores(r)
                => ~IsLive(s)' /\ row'[s].deleted]_lifecycleVars
    BY <1>1 DEF Gone
  <1>. QED
    BY <1>2, LifecycleAlways, PTL DEF LifecycleSpec, GoneForGood

=============================================================================
