-------------------------- MODULE SessionSetup_proofs --------------------------
(***************************************************************************)
(* Theorems about what a session's setup runs through: the manager of      *)
(* agents, the sandbox of an agent, the checkout it works in and the       *)
(* profiles it is launched by, for every number of launches, sessions,     *)
(* ports, files, tasks, branches and profiles.                             *)
(***************************************************************************)
EXTENDS AgentRuntime, AgentSandbox, WorkspaceCheckout, AgentProfiles,
        FiniteSetTheorems, SequenceTheorems, TLAPS

-----------------------------------------------------------------------------
(* The manager of agents                                                   *)

(* A launch that has not got to its spawn has no thread.                   *)
UnspawnedCalls ==
  \A c \in Callers :
    pc[c] \in {"idle", "reserving", "waiting", "preparing"} => spawner[c] = "none"

(* The safety properties of the registry in one inductive invariant. Each  *)
(* follows from the types alone, but that an agent stays held: a thread    *)
(* that starts must not take the place of one that still offers an agent.  *)
RuntimeInv ==
  /\ RuntimeTypeOK
  /\ UnspawnedCalls
  /\ WaitersHaveALaunch
  /\ LaunchingHasAnOwner
  /\ EveryAgentIsHeld

(* The steps that touch no slot and put no call to wait keep the waiters   *)
(* and the reservations as they are.                                       *)
Unslotted(c) ==
  \/ Launch(c) \/ WakeSpuriously(c) \/ Prepare(c) \/ PrepareFails(c)
  \/ PrepareStdio(c) \/ Spawn(c) \/ Receive(c) \/ SpawnTimesOut(c)
  \/ SpawnerCleansUp(c) \/ AgentReady(c) \/ AgentNotReady(c)
  \/ TerminateForgotten(c) \/ AgentExits(c)

(* The disjuncts of the next-state relation, in the two groups that the    *)
(* proofs treat apart.                                                     *)
LEMMA NextCases ==
  ASSUME RuntimeNext
  PROVE  \/ \E c \in Callers :
              Unslotted(c) \/ Reserve(c) \/ Store(c) \/ Clear(c)
         \/ \E s \in Sessions : Forget(s)
         \/ DropManager
  BY DEF RuntimeNext, LaunchStep, Unslotted

(* Killing ends live agents and does nothing else.                         *)
LEMMA KilledFacts ==
  ASSUME NEW victims,
         agent \in [Callers -> {"none", "alive", "exited", "killed"}]
  PROVE  /\ Killed(victims) \in [Callers -> {"none", "alive", "exited", "killed"}]
         /\ \A d \in Callers : /\ Killed(victims)[d] = "alive" => agent[d] = "alive"
                               /\ d \in victims => Killed(victims)[d] # "alive"
                               /\ d \notin victims => Killed(victims)[d] = agent[d]
                               /\ agent[d] = "none" => Killed(victims)[d] = "none"
  BY DEF Killed

(* Notifying leaves no waiter and changes no other call.                   *)
LEMMA NotifiedFacts ==
  ASSUME NEW calls,
         calls \in [Callers -> UnderWay \cup {"idle", "reserving", "waiting", "returned"}]
  PROVE  /\ Notified(calls) \in
              [Callers -> UnderWay \cup {"idle", "reserving", "waiting", "returned"}]
         /\ \A d \in Callers : /\ Notified(calls)[d] # "waiting"
                               /\ calls[d] # "waiting" => Notified(calls)[d] = calls[d]
                               /\ calls[d] = "waiting" => Notified(calls)[d] = "reserving"
  BY DEF Notified, UnderWay

(* Slots that differ in their state or their owner are different slots.    *)
LEMMA SlotsDiffer ==
  ASSUME NEW c, NEW d
  PROVE  /\ Launching(c) # Empty
         /\ Running(c) # Empty
         /\ Launching(c) # Running(d)
         /\ Launching(c) = Launching(d) => c = d
         /\ Running(c) = Running(d) => c = d
         /\ Launching(c).state = "launching" /\ Launching(c).by = c
         /\ Running(c).state = "running" /\ Running(c).by = c
         /\ Empty.state = "empty" /\ Empty.by = Nobody
  BY DEF Launching, Running, Empty

(* The type of the slots, in terms of their three forms.                   *)
LEMMA SlotTypes ==
  ASSUME RuntimeTypeOK
  PROVE  /\ DOMAIN slots = Sessions
         /\ \A s \in Sessions :
              \/ slots[s] = Empty
              \/ \E c \in Callers : /\ SessionOf(c) = s
                                   /\ slots[s] \in {Launching(c), Running(c)}
  BY DEF RuntimeTypeOK, Launching, Running

-----------------------------------------------------------------------------
(* The type invariant                                                      *)

LEMMA TypeInit ==
  ASSUME RuntimeInit
  PROVE  RuntimeTypeOK
  BY DEF RuntimeInit, RuntimeTypeOK, UnderWay

(* A step that touches no slot keeps the types.                            *)
LEMMA TypeUnslotted ==
  ASSUME RuntimeTypeOK, NEW c \in Callers, Unslotted(c)
  PROVE  RuntimeTypeOK'
  <1>1. /\ UNCHANGED <<request, slots, dropped>>
        /\ doomed' \subseteq doomed
    BY DEF Unslotted, Launch, WakeSpuriously, Prepare, PrepareFails, PrepareStdio,
           Spawn, Receive, SpawnTimesOut, SpawnerCleansUp, AgentReady,
           AgentNotReady, TerminateForgotten, AgentExits
  <1>2. pc' \in [Callers -> UnderWay \cup {"idle", "reserving", "waiting", "returned"}]
    BY DEF RuntimeTypeOK, UnderWay, Unslotted, Launch, WakeSpuriously, Prepare,
           PrepareFails, PrepareStdio, Spawn, Receive, SpawnTimesOut,
           SpawnerCleansUp, AgentReady, AgentNotReady, TerminateForgotten, AgentExits
  <1>3. spawner' \in [Callers -> {"none", "spawning", "offering", "gone"}]
    BY DEF RuntimeTypeOK, Unslotted, Launch, WakeSpuriously, Prepare,
           PrepareFails, PrepareStdio, Spawn, Receive, SpawnTimesOut,
           SpawnerCleansUp, AgentReady, AgentNotReady, TerminateForgotten, AgentExits
  <1>4. agent' \in [Callers -> {"none", "alive", "exited", "killed"}]
    <2>1. \A v : Killed(v) \in [Callers -> {"none", "alive", "exited", "killed"}]
      BY KilledFacts DEF RuntimeTypeOK
    <2>. QED
      BY <2>1
      DEF RuntimeTypeOK, Terminated, Unslotted, Launch, WakeSpuriously, Prepare,
          PrepareFails, PrepareStdio, Spawn, Receive, SpawnTimesOut,
          SpawnerCleansUp, AgentReady, AgentNotReady, TerminateForgotten, AgentExits
  <1>. QED
    BY <1>1, <1>2, <1>3, <1>4 DEF RuntimeTypeOK, SessionOf, Launching, Running

(* A call that moves on and writes its own slot keeps the types.           *)
LEMMA TypeSlotWritten ==
  ASSUME RuntimeTypeOK, NEW c \in Callers, Reserve(c) \/ Store(c) \/ Clear(c)
  PROVE  RuntimeTypeOK'
  <1>1. UNCHANGED <<request, spawner, doomed, dropped>>
    BY DEF Reserve, Store, Clear
  <1>2. SessionOf(c) \in Sessions
    BY DEF RuntimeTypeOK, SessionOf
  <1>3. \/ slots' = slots
        \/ slots' = [slots EXCEPT ![SessionOf(c)] = Launching(c)]
        \/ slots' = [slots EXCEPT ![SessionOf(c)] = Running(c)]
        \/ slots' = [slots EXCEPT ![SessionOf(c)] = Empty]
    BY DEF Reserve, Store, Clear
  <1>4. /\ DOMAIN slots' = Sessions
        /\ \A s \in Sessions :
             \/ slots'[s] = Empty
             \/ \E d \in Callers : /\ SessionOf(d) = s
                                  /\ slots'[s] \in {Launching(d), Running(d)}
    BY <1>2, <1>3, SlotTypes
  <1>5. pc' \in [Callers -> UnderWay \cup {"idle", "reserving", "waiting", "returned"}]
    <2>1. [pc EXCEPT ![c] = "returned"]
            \in [Callers -> UnderWay \cup {"idle", "reserving", "waiting", "returned"}]
      BY DEF RuntimeTypeOK
    <2>2. Notified([pc EXCEPT ![c] = "returned"])
            \in [Callers -> UnderWay \cup {"idle", "reserving", "waiting", "returned"}]
      BY <2>1, NotifiedFacts
    <2>. QED
      BY <2>1, <2>2 DEF RuntimeTypeOK, Reserve, Store, Clear, UnderWay
  <1>6. agent' \in [Callers -> {"none", "alive", "exited", "killed"}]
    BY KilledFacts DEF RuntimeTypeOK, Terminated, Reserve, Store, Clear
  <1>. QED
    BY <1>1, <1>4, <1>5, <1>6 DEF RuntimeTypeOK, SessionOf, Launching, Running, Empty

(* Forgetting and shutting down empty slots and kill.                      *)
LEMMA TypeSlotsEmptied ==
  ASSUME RuntimeTypeOK, (\E s \in Sessions : Forget(s)) \/ DropManager
  PROVE  RuntimeTypeOK'
  <1>1. UNCHANGED <<request, spawner>> /\ dropped' \in BOOLEAN /\ doomed' \subseteq Callers
    BY DEF RuntimeTypeOK, Forget, DropManager
  <1>2. /\ DOMAIN slots' = Sessions
        /\ \A s \in Sessions : slots'[s] \in {slots[s], Empty}
    BY DEF RuntimeTypeOK, Forget, DropManager
  <1>3. pc' \in [Callers -> UnderWay \cup {"idle", "reserving", "waiting", "returned"}]
    BY NotifiedFacts DEF RuntimeTypeOK, Forget, DropManager
  <1>4. agent' \in [Callers -> {"none", "alive", "exited", "killed"}]
    BY KilledFacts DEF RuntimeTypeOK, Forget, DropManager
  <1>. QED
    BY <1>1, <1>2, <1>3, <1>4 DEF RuntimeTypeOK, SessionOf, Launching, Running, Empty

-----------------------------------------------------------------------------
(* Waiters and reservations                                                *)

(* What a step that touches no slot does to the calls: none begins to wait *)
(* and none that is under way leaves off.                                  *)
LEMMA UnslottedCalls ==
  ASSUME RuntimeTypeOK, NEW c \in Callers, Unslotted(c)
  PROVE  /\ UNCHANGED <<request, slots>>
         /\ \A d \in Callers : /\ pc'[d] = "waiting" => pc[d] = "waiting"
                               /\ pc[d] \in UnderWay => pc'[d] \in UnderWay
  BY DEF RuntimeTypeOK, UnderWay, Unslotted, Launch, WakeSpuriously, Prepare,
           PrepareFails, PrepareStdio, Spawn, Receive, SpawnTimesOut,
           SpawnerCleansUp, AgentReady, AgentNotReady, TerminateForgotten, AgentExits

(* A reservation is behind every waiter, after any step: the step that     *)
(* takes it away notifies them all.                                        *)
LEMMA WaitersStep ==
  ASSUME RuntimeTypeOK, WaitersHaveALaunch, RuntimeNext
  PROVE  WaitersHaveALaunch'
  <1>1. ASSUME NEW c \in Callers, Unslotted(c)
        PROVE  WaitersHaveALaunch'
    BY <1>1, UnslottedCalls DEF WaitersHaveALaunch, SessionOf
  <1>2. ASSUME NEW c \in Callers, Reserve(c)
        PROVE  WaitersHaveALaunch'
    <2>1. SessionOf(c) \in Sessions
      BY DEF RuntimeTypeOK, SessionOf
    <2>2. ASSUME NEW d \in Callers, pc'[d] = "waiting"
          PROVE  slots'[SessionOf(d)].state = "launching"
      <3>1. SessionOf(d) \in Sessions
        BY DEF RuntimeTypeOK, SessionOf
      <3>2. pc[d] = "waiting" \/ (d = c /\ slots[SessionOf(c)].state = "launching" /\ UNCHANGED slots)
        BY <1>2, <2>2 DEF Reserve, RuntimeTypeOK
      <3>3. CASE pc[d] = "waiting"
        <4>1. slots[SessionOf(d)].state = "launching"
          BY <3>3 DEF WaitersHaveALaunch
        <4>2. slots' = slots \/ slots' = [slots EXCEPT ![SessionOf(c)] = Launching(c)]
          BY <1>2 DEF Reserve
        <4>. QED
          BY <2>1, <3>1, <4>1, <4>2, SlotTypes, SlotsDiffer
      <3>. QED
        BY <3>2, <3>3
    <2>. QED
      BY <1>2, <2>2 DEF WaitersHaveALaunch, Reserve, SessionOf
  <1>3. ASSUME NEW c \in Callers, Store(c) \/ Clear(c)
        PROVE  WaitersHaveALaunch'
    <2>1. [pc EXCEPT ![c] = "returned"]
            \in [Callers -> UnderWay \cup {"idle", "reserving", "waiting", "returned"}]
      BY DEF RuntimeTypeOK
    <2>2. CASE UNCHANGED slots /\ pc' = [pc EXCEPT ![c] = "returned"]
      BY <1>3, <2>2 DEF WaitersHaveALaunch, SessionOf, Store, Clear, RuntimeTypeOK
    <2>3. CASE pc' = Notified([pc EXCEPT ![c] = "returned"])
      BY <2>1, <2>3, NotifiedFacts DEF WaitersHaveALaunch
    <2>. QED
      BY <1>3, <2>2, <2>3 DEF Store, Clear
  <1>4. ASSUME NEW s \in Sessions, Forget(s)
        PROVE  WaitersHaveALaunch'
    BY <1>4, NotifiedFacts DEF WaitersHaveALaunch, Forget, RuntimeTypeOK
  <1>5. ASSUME DropManager
        PROVE  WaitersHaveALaunch'
    BY <1>5 DEF WaitersHaveALaunch, DropManager
  <1>. QED
    BY <1>1, <1>2, <1>3, <1>4, <1>5, NextCases

(* The launch that took a reservation is under way after any step.         *)
LEMMA OwnersStep ==
  ASSUME RuntimeTypeOK, LaunchingHasAnOwner, RuntimeNext
  PROVE  LaunchingHasAnOwner'
  <1>. SUFFICES ASSUME NEW s \in Sessions, NEW d \in Callers, slots'[s] = Launching(d)
                PROVE  SessionOf(d)' = s /\ pc'[d] \in UnderWay
    BY DEF LaunchingHasAnOwner, Launching
  <1>a. slots[s] = Launching(d) => SessionOf(d) = s /\ pc[d] \in UnderWay
    BY DEF LaunchingHasAnOwner, Launching
  <1>b. \A c \in Callers : SessionOf(c) \in Sessions
    BY DEF RuntimeTypeOK, SessionOf
  <1>1. ASSUME NEW c \in Callers, Unslotted(c)
        PROVE  SessionOf(d)' = s /\ pc'[d] \in UnderWay
    BY <1>1, <1>a, UnslottedCalls DEF SessionOf
  <1>2. ASSUME NEW c \in Callers, Reserve(c)
        PROVE  SessionOf(d)' = s /\ pc'[d] \in UnderWay
    <2>1. CASE slots' = [slots EXCEPT ![SessionOf(c)] = Launching(c)] /\ pc' = [pc EXCEPT ![c] = "preparing"]
      <3>1. (s = SessionOf(c) /\ d = c) \/ slots[s] = Launching(d)
        BY <1>b, <2>1, SlotsDiffer DEF RuntimeTypeOK
      <3>. QED
        BY <1>2, <1>a, <2>1, <3>1 DEF Reserve, SessionOf, RuntimeTypeOK, UnderWay
    <2>2. CASE UNCHANGED slots
      BY <1>2, <1>a, <2>2 DEF Reserve, SessionOf, RuntimeTypeOK, UnderWay
    <2>. QED
      BY <1>2, <2>1, <2>2 DEF Reserve
  <1>3. ASSUME NEW c \in Callers, Store(c) \/ Clear(c)
        PROVE  SessionOf(d)' = s /\ pc'[d] \in UnderWay
    <2>1. slots[s] = Launching(d) /\ (s = SessionOf(c) => slots[s] # Launching(c))
      BY <1>3, <1>b, SlotsDiffer, SMTT(30) DEF Store, Clear, HoldsReservation, RuntimeTypeOK
    <2>2. d # c
      BY <1>a, <2>1
    <2>3. [pc EXCEPT ![c] = "returned"]
            \in [Callers -> UnderWay \cup {"idle", "reserving", "waiting", "returned"}]
      BY DEF RuntimeTypeOK
    <2>4. pc[d] \in UnderWay /\ pc[d] # "waiting" /\ [pc EXCEPT ![c] = "returned"][d] = pc[d]
      BY <1>a, <2>1, <2>2 DEF RuntimeTypeOK, UnderWay
    <2>5. Notified([pc EXCEPT ![c] = "returned"])[d] = pc[d]
      BY <2>3, <2>4, NotifiedFacts
    <2>6. pc'[d] = pc[d]
      BY <1>3, <2>4, <2>5 DEF Store, Clear
    <2>. QED
      BY <1>3, <1>a, <2>1, <2>4, <2>6 DEF Store, Clear, SessionOf
  <1>4. ASSUME NEW t \in Sessions, Forget(t)
        PROVE  SessionOf(d)' = s /\ pc'[d] \in UnderWay
    <2>1. slots[s] = Launching(d)
      BY <1>4, SlotsDiffer DEF Forget, RuntimeTypeOK
    <2>2. pc[d] \in UnderWay /\ pc[d] # "waiting"
      BY <1>a, <2>1 DEF UnderWay
    <2>3. pc'[d] = pc[d]
      BY <1>4, <2>2, NotifiedFacts DEF Forget, RuntimeTypeOK
    <2>. QED
      BY <1>4, <1>a, <2>1, <2>2, <2>3 DEF Forget, SessionOf
  <1>5. ASSUME DropManager
        PROVE  SessionOf(d)' = s /\ pc'[d] \in UnderWay
    BY <1>5, SlotsDiffer DEF DropManager
  <1>. QED
    BY <1>1, <1>2, <1>3, <1>4, <1>5, NextCases

-----------------------------------------------------------------------------
(* The agents                                                              *)

(* A thread is started by the step that puts its launch past preparing.    *)
LEMMA UnspawnedStep ==
  ASSUME RuntimeTypeOK, UnspawnedCalls, RuntimeNext
  PROVE  UnspawnedCalls'
  <1>. DEFINE Early == {"idle", "reserving", "waiting", "preparing"}
  <1>. SUFFICES ASSUME NEW d \in Callers
                PROVE  pc'[d] \in Early => spawner'[d] = "none"
    BY DEF UnspawnedCalls
  <1>a. pc[d] \in Early => spawner[d] = "none"
    BY DEF UnspawnedCalls
  <1>1. ASSUME NEW c \in Callers, Unslotted(c)
        PROVE  pc'[d] \in Early => spawner'[d] = "none"
    <2>1. CASE Launch(c) \/ WakeSpuriously(c) \/ PrepareFails(c) \/ PrepareStdio(c)
                 \/ SpawnTimesOut(c) \/ AgentReady(c) \/ AgentNotReady(c)
                 \/ TerminateForgotten(c) \/ AgentExits(c)
      BY <1>a, <2>1
      DEF RuntimeTypeOK, Launch, WakeSpuriously, PrepareFails, PrepareStdio, SpawnTimesOut,
          AgentReady, AgentNotReady, TerminateForgotten, AgentExits
    <2>2. CASE Prepare(c) \/ Spawn(c) \/ Receive(c) \/ SpawnerCleansUp(c)
      BY <1>a, <2>2 DEF RuntimeTypeOK, Prepare, Spawn, Receive, SpawnerCleansUp
    <2>. QED
      BY <1>1, <2>1, <2>2 DEF Unslotted
  <1>2. ASSUME NEW c \in Callers, Reserve(c)
        PROVE  pc'[d] \in Early => spawner'[d] = "none"
    BY <1>2, <1>a DEF RuntimeTypeOK, Reserve
  <1>3. ASSUME NEW c \in Callers, Store(c) \/ Clear(c)
        PROVE  pc'[d] \in Early => spawner'[d] = "none"
    <2>1. [pc EXCEPT ![c] = "returned"]
            \in [Callers -> UnderWay \cup {"idle", "reserving", "waiting", "returned"}]
      BY DEF RuntimeTypeOK
    <2>2. [pc EXCEPT ![c] = "returned"][d] \in Early => pc[d] \in Early
      BY DEF RuntimeTypeOK
    <2>3. Notified([pc EXCEPT ![c] = "returned"])[d] \in Early => pc[d] \in Early
      BY <2>1, <2>2, NotifiedFacts
    <2>. QED
      BY <1>3, <1>a, <2>2, <2>3 DEF Store, Clear
  <1>4. ASSUME (\E s \in Sessions : Forget(s)) \/ DropManager
        PROVE  pc'[d] \in Early => spawner'[d] = "none"
    <2>1. Notified(pc)[d] \in Early => pc[d] \in Early
      BY NotifiedFacts DEF RuntimeTypeOK
    <2>. QED
      BY <1>4, <1>a, <2>1 DEF Forget, DropManager
  <1>. QED
    BY <1>1, <1>2, <1>3, <1>4, NextCases

(* A live agent is held after any step: whoever lets go of it stores it,   *)
(* passes it on or terminates it in the same step.                         *)
LEMMA AgentsHeldStep ==
  ASSUME RuntimeTypeOK, UnspawnedCalls, EveryAgentIsHeld, RuntimeNext
  PROVE  EveryAgentIsHeld'
  <1>. DEFINE Held(d) == \/ Registered(d)
                         \/ pc[d] \in {"readying", "storing"}
                         \/ spawner[d] = "offering"
                         \/ d \in doomed
  <1>. SUFFICES ASSUME NEW d \in Callers, agent'[d] = "alive"
                PROVE  Held(d)'
    BY DEF EveryAgentIsHeld
  <1>a. agent[d] = "alive" => Held(d)
    BY DEF EveryAgentIsHeld
  <1>b. \A c \in Callers : SessionOf(c) \in Sessions
    BY DEF RuntimeTypeOK, SessionOf
  <1>c. \A v : /\ Killed(v)[d] = "alive" => agent[d] = "alive" /\ d \notin v
    BY KilledFacts DEF RuntimeTypeOK
  <1>1. ASSUME NEW c \in Callers, Unslotted(c)
        PROVE  Held(d)'
    <2>1. Registered(d)' <=> Registered(d)
      BY <1>1, UnslottedCalls DEF Registered, SessionOf, Running
    <2>2. CASE Launch(c) \/ WakeSpuriously(c) \/ PrepareStdio(c)
                 \/ Prepare(c) \/ PrepareFails(c) \/ SpawnTimesOut(c)
      <3>1. agent[d] = "alive"
        BY <1>c, <2>2 DEF Launch, WakeSpuriously, PrepareStdio, Prepare, PrepareFails, SpawnTimesOut
      <3>2. CASE Registered(d)
        BY <2>1, <3>2
      <3>3. CASE pc[d] \in {"readying", "storing"}
        <4>1. pc'[d] = pc[d]
          BY <2>2, <3>3
          DEF RuntimeTypeOK, Launch, WakeSpuriously, PrepareStdio, Prepare, PrepareFails, SpawnTimesOut
        <4>. QED
          BY <3>3, <4>1
      <3>4. CASE spawner[d] = "offering"
        <4>1. spawner'[d] = spawner[d]
          BY <2>2, <3>4
          DEF RuntimeTypeOK, UnspawnedCalls, Launch, WakeSpuriously, PrepareStdio,
              Prepare, PrepareFails, SpawnTimesOut
        <4>. QED
          BY <3>4, <4>1
      <3>5. CASE d \in doomed
        BY <2>2, <3>5
        DEF Launch, WakeSpuriously, PrepareStdio, Prepare, PrepareFails, SpawnTimesOut
      <3>. QED
        BY <1>a, <3>1, <3>2, <3>3, <3>4, <3>5
    <2>4. CASE Spawn(c)
      BY <1>a, <2>1, <2>4 DEF RuntimeTypeOK, Spawn
    <2>5. CASE Receive(c)
      <3>1. agent[d] = "alive"
        BY <2>5 DEF Receive
      <3>2. CASE d = c
        BY <2>5, <3>1, <3>2 DEF RuntimeTypeOK, Receive
      <3>3. CASE d # c
        BY <1>a, <2>1, <2>5, <3>1, <3>3 DEF RuntimeTypeOK, Receive
      <3>. QED
        BY <3>2, <3>3
    <2>6. CASE SpawnerCleansUp(c)
      BY <1>a, <1>c, <2>1, <2>6 DEF RuntimeTypeOK, SpawnerCleansUp, Terminated
    <2>7. CASE AgentReady(c)
      BY <1>a, <2>1, <2>7 DEF RuntimeTypeOK, AgentReady
    <2>8. CASE AgentNotReady(c)
      BY <1>a, <1>c, <2>1, <2>8 DEF RuntimeTypeOK, AgentNotReady, Terminated
    <2>9. CASE TerminateForgotten(c)
      BY <1>a, <1>c, <2>1, <2>9 DEF RuntimeTypeOK, TerminateForgotten, Terminated
    <2>10. CASE AgentExits(c)
      BY <1>a, <2>1, <2>10 DEF RuntimeTypeOK, AgentExits
    <2>. QED
      BY <1>1, <2>2, <2>4, <2>5, <2>6, <2>7, <2>8, <2>9, <2>10 DEF Unslotted
  <1>2. ASSUME NEW c \in Callers, Reserve(c)
        PROVE  Held(d)'
    <2>1. Registered(d) => Registered(d)'
      BY <1>2, <1>b, SlotsDiffer DEF Reserve, Registered, RuntimeTypeOK, SessionOf, Running
    <2>. QED
      BY <1>2, <1>a, <2>1 DEF Reserve, RuntimeTypeOK
  <1>3. ASSUME NEW c \in Callers, Store(c) \/ Clear(c)
        PROVE  Held(d)'
    <2>1. Registered(d) => Registered(d)'
      <3>1. CASE UNCHANGED slots
        BY <1>3, <3>1 DEF Store, Clear, Registered, SessionOf, Running
      <3>2. CASE HoldsReservation(c)
        BY <1>3, <1>b, <3>2, SlotsDiffer
        DEF Store, Clear, HoldsReservation, Registered, RuntimeTypeOK, SessionOf, Running
      <3>. QED
        BY <1>3, <3>1, <3>2 DEF Store, Clear
    <2>2. [pc EXCEPT ![c] = "returned"]
            \in [Callers -> UnderWay \cup {"idle", "reserving", "waiting", "returned"}]
      BY DEF RuntimeTypeOK
    <2>3. CASE d = c /\ Store(c) /\ HoldsReservation(c)
      BY <1>b, <2>3 DEF Store, Registered, RuntimeTypeOK, SessionOf, Running
    <2>4. CASE d = c /\ Store(c) /\ ~HoldsReservation(c)
      BY <1>c, <2>4 DEF Store, Terminated
    <2>5. CASE d = c /\ Clear(c)
      BY <1>a, <2>1, <2>5 DEF Clear
    <2>6. CASE d # c
      <3>1. pc[d] \in {"readying", "storing"} => pc'[d] = pc[d]
        <4>1. ASSUME pc[d] \in {"readying", "storing"}
              PROVE  /\ [pc EXCEPT ![c] = "returned"][d] = pc[d]
                     /\ Notified([pc EXCEPT ![c] = "returned"])[d] = pc[d]
          <5>1. [pc EXCEPT ![c] = "returned"][d] = pc[d] /\ pc[d] # "waiting"
            BY <2>6, <4>1 DEF RuntimeTypeOK
          <5>. QED
            BY <2>2, <5>1, NotifiedFacts
        <4>. QED
          BY <1>3, <4>1 DEF Store, Clear
      <3>2. agent[d] = "alive"
        BY <1>3, <1>c DEF Store, Clear, Terminated
      <3>. QED
        BY <1>3, <1>a, <2>1, <3>1, <3>2 DEF Store, Clear
    <2>. QED
      BY <1>3, <2>3, <2>4, <2>5, <2>6
  <1>4. ASSUME NEW t \in Sessions, Forget(t)
        PROVE  Held(d)'
    <2>1. agent[d] = "alive"
      BY <1>4 DEF Forget
    <2>2. Registered(d) => Registered(d)' \/ d \in doomed'
      BY <1>4, <1>b DEF Forget, Registered, RuntimeTypeOK, SessionOf, Running
    <2>3. pc[d] \in {"readying", "storing"} => pc'[d] = pc[d]
      BY <1>4, NotifiedFacts DEF Forget, RuntimeTypeOK
    <2>. QED
      BY <1>4, <1>a, <2>1, <2>2, <2>3 DEF Forget
  <1>5. ASSUME DropManager
        PROVE  Held(d)'
    <2>1. agent[d] = "alive" /\ ~Registered(d)
      BY <1>5, <1>c DEF DropManager
    <2>. QED
      BY <1>5, <1>a, <2>1 DEF DropManager
  <1>. QED
    BY <1>1, <1>2, <1>3, <1>4, <1>5, NextCases

-----------------------------------------------------------------------------
(* The theorems                                                            *)

(* The invariant holds in every state, for any set of launches, sessions   *)
(* and modes.                                                              *)
THEOREM RuntimeInvariant == RuntimeSpec => []RuntimeInv
  <1>1. RuntimeInit => RuntimeInv
    <2>. SUFFICES ASSUME RuntimeInit PROVE RuntimeInv
      OBVIOUS
    <2>1. WaitersHaveALaunch /\ EveryAgentIsHeld
      BY DEF RuntimeInit, WaitersHaveALaunch, EveryAgentIsHeld
    <2>2. LaunchingHasAnOwner /\ UnspawnedCalls
      BY SlotsDiffer DEF RuntimeInit, LaunchingHasAnOwner, Launching, UnspawnedCalls
    <2>. QED
      BY <2>1, <2>2, TypeInit DEF RuntimeInv
  <1>2. RuntimeInv /\ [RuntimeNext]_runtimeVars => RuntimeInv'
    <2>. SUFFICES ASSUME RuntimeInv, [RuntimeNext]_runtimeVars
                  PROVE  RuntimeInv'
      OBVIOUS
    <2>1. CASE RuntimeNext
      <3>1. RuntimeTypeOK'
        BY <2>1, NextCases, TypeUnslotted, TypeSlotWritten, TypeSlotsEmptied DEF RuntimeInv
      <3>. QED
        BY <2>1, <3>1, UnspawnedStep, WaitersStep, OwnersStep, AgentsHeldStep DEF RuntimeInv
    <2>2. CASE UNCHANGED runtimeVars
      BY <2>2
      DEF runtimeVars, RuntimeInv, RuntimeTypeOK, UnspawnedCalls, WaitersHaveALaunch,
          LaunchingHasAnOwner, EveryAgentIsHeld, Registered, SessionOf, Running, Launching
    <2>. QED
      BY <2>1, <2>2
  <1>. QED
    BY <1>1, <1>2, PTL DEF RuntimeSpec

(* The registry and the launches keep their types.                         *)
THEOREM RuntimeTypeCorrect == RuntimeSpec => []RuntimeTypeOK
  BY RuntimeInvariant, PTL DEF RuntimeInv

(* No wakeup is lost, whichever launch ends, fails or is forgotten.        *)
THEOREM NoLostWakeup == RuntimeSpec => []WaitersHaveALaunch
  BY RuntimeInvariant, PTL DEF RuntimeInv

(* No reservation outlives the launch that took it.                        *)
THEOREM NoReservationLeftBehind == RuntimeSpec => []LaunchingHasAnOwner
  BY RuntimeInvariant, PTL DEF RuntimeInv

(* No live agent is ever out of everybody's hands.                         *)
THEOREM NoOrphanedAgent == RuntimeSpec => []EveryAgentIsHeld
  BY RuntimeInvariant, PTL DEF RuntimeInv

-----------------------------------------------------------------------------
(* Cancelled launches                                                      *)

(* A launch without its reservation does not get one back: the only step   *)
(* that writes the id of a call into a slot without finding it there is    *)
(* the reservation, which comes before the launch is under way.            *)
LEMMA CancelledStep ==
  ASSUME RuntimeTypeOK, [RuntimeNext]_runtimeVars, NEW c \in Callers,
         pc[c] \in UnderWay, slots[SessionOf(c)].by # c
  PROVE  slots'[SessionOf(c)].by # c
  <1>a. \A d \in Callers : SessionOf(d) \in Sessions
    BY DEF RuntimeTypeOK, SessionOf
  <1>1. ASSUME NEW d \in Callers, Unslotted(d)
        PROVE  slots'[SessionOf(c)].by # c
    BY <1>1, UnslottedCalls
  <1>2. ASSUME NEW d \in Callers, Reserve(d)
        PROVE  slots'[SessionOf(c)].by # c
    <2>1. d # c
      BY <1>2 DEF Reserve, UnderWay
    <2>. QED
      BY <1>2, <1>a, <2>1, SlotTypes, SlotsDiffer DEF Reserve
  <1>3. ASSUME NEW d \in Callers, Store(d) \/ Clear(d)
        PROVE  slots'[SessionOf(c)].by # c
    <2>1. CASE UNCHANGED slots
      BY <2>1
    <2>2. CASE HoldsReservation(d)
      <3>1. SessionOf(c) = SessionOf(d) => d # c
        BY <2>2, SlotsDiffer DEF HoldsReservation
      <3>2. \/ slots' = [slots EXCEPT ![SessionOf(d)] = Running(d)]
            \/ slots' = [slots EXCEPT ![SessionOf(d)] = Empty]
        BY <1>3, <2>2 DEF Store, Clear
      <3>3. Empty.by # c
        BY RuntimeAssumption, SlotsDiffer
      <3>. QED
        BY <1>a, <3>1, <3>2, <3>3, SlotTypes, SlotsDiffer
    <2>. QED
      BY <1>3, <2>1, <2>2 DEF Store, Clear
  <1>4. ASSUME (\E s \in Sessions : Forget(s)) \/ DropManager
        PROVE  slots'[SessionOf(c)].by # c
    <2>1. slots'[SessionOf(c)] \in {slots[SessionOf(c)], Empty}
      BY <1>4, <1>a DEF Forget, DropManager, RuntimeTypeOK
    <2>2. Empty.by # c
      BY RuntimeAssumption, SlotsDiffer
    <2>. QED
      BY <2>1, <2>2
  <1>5. CASE UNCHANGED runtimeVars
    BY <1>5 DEF runtimeVars
  <1>. QED
    BY <1>1, <1>2, <1>3, <1>4, <1>5, NextCases

(* A launch that was cancelled never comes back into the registry.         *)
THEOREM CancelledIsCancelled == RuntimeSpec => CancelledLaunchStaysCancelled
  <1>1. RuntimeTypeOK /\ [RuntimeNext]_runtimeVars
          => [\A c \in Callers :
                pc[c] \in UnderWay /\ slots[SessionOf(c)].by # c
                  => slots'[SessionOf(c)].by # c]_runtimeVars
    BY CancelledStep
  <1>. QED
    BY <1>1, RuntimeTypeCorrect, PTL DEF RuntimeSpec, CancelledLaunchStaysCancelled

-----------------------------------------------------------------------------
(* Agents on the host                                                      *)

(* Who may still terminate an agent: not a call that has passed it on, nor *)
(* a thread whose offer was taken. So an agent on the host that the         *)
(* registry holds is alive or ended by itself.                              *)
HandedOn ==
  \A c \in {d \in Callers : ~InCgroup(d)} :
    /\ spawner[c] # "gone" => agent[c] # "killed" /\ c \notin doomed
    /\ pc[c] \in {"readying", "storing"} =>
         /\ spawner[c] = "gone"
         /\ agent[c] # "killed"
         /\ c \notin doomed
    /\ c \in doomed => pc[c] = "returned"
    /\ Registered(c) =>
         /\ pc[c] = "returned"
         /\ spawner[c] = "gone"
         /\ agent[c] # "killed"
         /\ c \notin doomed

(* A control group that is killed holds no agent on the host.              *)
LEMMA HostAgentsAreSpared ==
  ASSUME RuntimeTypeOK, NEW d \in Callers, ~InCgroup(d)
  PROVE  \A c \in Callers : /\ d \notin CgroupOf(c)
                            /\ Killed(CgroupOf(c))[d] = agent[d]
                            /\ d # c => Terminated(c)[d] = agent[d]
  <1>1. \A c \in Callers : d \notin CgroupOf(c)
    BY DEF CgroupOf
  <1>. QED
    BY <1>1 DEF Killed, Terminated

(* The invariant of the hand-over is inductive.                            *)
LEMMA HandedOnStep ==
  ASSUME RuntimeTypeOK, UnspawnedCalls, HandedOn, RuntimeNext
  PROVE  HandedOn'
  <1>. DEFINE Fine(d) ==
         /\ spawner[d] # "gone" => agent[d] # "killed" /\ d \notin doomed
         /\ pc[d] \in {"readying", "storing"} =>
              /\ spawner[d] = "gone"
              /\ agent[d] # "killed"
              /\ d \notin doomed
         /\ d \in doomed => pc[d] = "returned"
         /\ Registered(d) =>
              /\ pc[d] = "returned"
              /\ spawner[d] = "gone"
              /\ agent[d] # "killed"
              /\ d \notin doomed
  <1>0. UNCHANGED request
    BY UnslottedCalls, NextCases DEF Reserve, Store, Clear, Forget, DropManager
  <1>. SUFFICES ASSUME NEW d \in Callers, ~InCgroup(d)
                PROVE  Fine(d)'
    BY <1>0 DEF HandedOn, InCgroup
  <1>a. Fine(d)
    BY DEF HandedOn
  <1>b. \A c \in Callers : SessionOf(c) \in Sessions
    BY DEF RuntimeTypeOK, SessionOf
  <1>1. ASSUME NEW c \in Callers, Unslotted(c)
        PROVE  Fine(d)'
    <2>1. Registered(d)' <=> Registered(d)
      BY <1>1, UnslottedCalls DEF Registered, SessionOf, Running
    <2>2. CASE d # c
      <3>1. pc'[d] = pc[d] /\ spawner'[d] = spawner[d] /\ (d \in doomed' <=> d \in doomed)
        BY <1>1, <2>2
        DEF RuntimeTypeOK, Unslotted, Launch, WakeSpuriously, Prepare, PrepareFails,
            PrepareStdio, Spawn, Receive, SpawnTimesOut, SpawnerCleansUp, AgentReady,
            AgentNotReady, TerminateForgotten, AgentExits
      <3>2. agent'[d] = agent[d]
        BY <1>1, <2>2, HostAgentsAreSpared
        DEF RuntimeTypeOK, Unslotted, Launch, WakeSpuriously, Prepare, PrepareFails,
            PrepareStdio, Spawn, Receive, SpawnTimesOut, SpawnerCleansUp, AgentReady,
            AgentNotReady, TerminateForgotten, AgentExits
      <3>. QED
        BY <1>a, <2>1, <3>1, <3>2
    <2>3. CASE Launch(d) \/ WakeSpuriously(d) \/ PrepareStdio(d)
      BY <1>a, <2>1, <2>3 DEF RuntimeTypeOK, Launch, WakeSpuriously, PrepareStdio
    <2>4. CASE Prepare(d) \/ PrepareFails(d) \/ SpawnTimesOut(d)
      <3>1. agent'[d] = agent[d]
        BY <2>4, HostAgentsAreSpared DEF Prepare, PrepareFails, SpawnTimesOut
      <3>. QED
        BY <1>a, <2>1, <2>4, <3>1 DEF RuntimeTypeOK, UnspawnedCalls, Prepare, PrepareFails, SpawnTimesOut
    <2>5. CASE Spawn(d)
      BY <1>a, <2>1, <2>5 DEF RuntimeTypeOK, Spawn
    <2>6. CASE Receive(d)
      BY <1>a, <2>1, <2>6 DEF RuntimeTypeOK, Receive
    <2>7. CASE SpawnerCleansUp(d)
      BY <1>a, <2>1, <2>7 DEF RuntimeTypeOK, SpawnerCleansUp
    <2>8. CASE AgentReady(d) \/ AgentNotReady(d)
      BY <1>a, <2>1, <2>8 DEF RuntimeTypeOK, AgentReady, AgentNotReady
    <2>9. CASE TerminateForgotten(d)
      BY <1>a, <2>1, <2>9 DEF RuntimeTypeOK, TerminateForgotten
    <2>10. CASE AgentExits(d)
      BY <1>a, <2>1, <2>10 DEF RuntimeTypeOK, AgentExits
    <2>. QED
      BY <1>1, <2>2, <2>3, <2>4, <2>5, <2>6, <2>7, <2>8, <2>9, <2>10 DEF Unslotted
  <1>2. ASSUME NEW c \in Callers, Reserve(c)
        PROVE  Fine(d)'
    <2>1. Registered(d)' => Registered(d)
      <3>1. slots' = slots \/ slots' = [slots EXCEPT ![SessionOf(c)] = Launching(c)]
        BY <1>2 DEF Reserve
      <3>2. slots'[SessionOf(d)] = slots[SessionOf(d)] \/ slots'[SessionOf(d)] = Launching(c)
        BY <1>b, <3>1 DEF RuntimeTypeOK
      <3>3. Registered(d)' <=> slots'[SessionOf(d)] = Running(d)
        BY <1>2 DEF Reserve, Registered, SessionOf, Running
      <3>. QED
        BY <3>2, <3>3, SlotsDiffer DEF Registered
    <2>2. d \in doomed => d # c
      BY <1>2, <1>a DEF Reserve
    <2>. QED
      BY <1>2, <1>a, <2>1, <2>2 DEF Reserve, RuntimeTypeOK
  <1>3. ASSUME NEW c \in Callers, Store(c) \/ Clear(c)
        PROVE  Fine(d)'
    <2>1. Registered(d)' => Registered(d) \/ (d = c /\ Store(c) /\ HoldsReservation(c))
      <3>1. CASE UNCHANGED slots
        BY <1>3, <3>1 DEF Store, Clear, Registered, SessionOf, Running
      <3>2. CASE HoldsReservation(c)
        BY <1>3, <1>b, <3>2, SlotsDiffer
        DEF Store, Clear, HoldsReservation, Registered, RuntimeTypeOK, SessionOf, Running
      <3>. QED
        BY <1>3, <3>1, <3>2 DEF Store, Clear
    <2>2. [pc EXCEPT ![c] = "returned"]
            \in [Callers -> UnderWay \cup {"idle", "reserving", "waiting", "returned"}]
      BY DEF RuntimeTypeOK
    <2>3. /\ [pc EXCEPT ![c] = "returned"][d] = IF d = c THEN "returned" ELSE pc[d]
          /\ \/ Notified([pc EXCEPT ![c] = "returned"])[d] = IF d = c THEN "returned" ELSE pc[d]
             \/ d # c /\ pc[d] = "waiting" /\ Notified([pc EXCEPT ![c] = "returned"])[d] = "reserving"
      <3>1. [pc EXCEPT ![c] = "returned"][d] = IF d = c THEN "returned" ELSE pc[d]
        BY DEF RuntimeTypeOK
      <3>. QED
        BY <2>2, <3>1, NotifiedFacts
    <2>4. \/ pc'[d] = IF d = c THEN "returned" ELSE pc[d]
          \/ d # c /\ pc[d] = "waiting" /\ pc'[d] = "reserving"
      BY <1>3, <2>3 DEF Store, Clear
    <2>5. /\ UNCHANGED <<spawner, doomed>>
          /\ d # c => agent'[d] = agent[d]
          /\ Clear(c) => agent'[d] = agent[d]
          /\ HoldsReservation(c) => agent'[d] = agent[d]
      BY <1>3, HostAgentsAreSpared DEF Store, Clear
    <2>6. d = c => ~Registered(d)
      BY <1>3, <1>a DEF Store, Clear
    <2>7. CASE d # c
      BY <1>a, <2>1, <2>4, <2>5, <2>7
    <2>8. CASE d = c /\ Store(c)
      <3>1. pc[d] = "storing"
        BY <2>8 DEF Store
      <3>. QED
        BY <1>a, <2>1, <2>4, <2>5, <2>6, <2>8, <3>1
    <2>9. CASE d = c /\ Clear(c) /\ ~Store(c)
      BY <1>a, <2>1, <2>4, <2>5, <2>6, <2>9
    <2>. QED
      BY <1>3, <2>7, <2>8, <2>9
  <1>4. ASSUME NEW t \in Sessions, Forget(t)
        PROVE  Fine(d)'
    <2>1. \/ pc'[d] = pc[d]
          \/ pc[d] = "waiting" /\ pc'[d] = "reserving"
      BY <1>4, NotifiedFacts DEF Forget, RuntimeTypeOK
    <2>2. Registered(d)' => Registered(d) /\ slots[t] # Running(d)
      <3>1. Registered(d)' <=> slots'[SessionOf(d)] = Running(d)
        BY <1>4 DEF Forget, Registered, SessionOf, Running
      <3>2. /\ slots'[t] = Empty
            /\ \A s \in Sessions : s # t => slots'[s] = slots[s]
        BY <1>4 DEF Forget, RuntimeTypeOK
      <3>3. slots[t] = Running(d) => SessionOf(d) = t
        <4>1. ASSUME slots[t] = Running(d)
              PROVE  SessionOf(d) = t
          <5>1. PICK c \in Callers : SessionOf(c) = t /\ slots[t] \in {Launching(c), Running(c)}
            BY <4>1, SlotTypes, SlotsDiffer
          <5>2. c = d
            BY <4>1, <5>1, SlotsDiffer
          <5>. QED
            BY <5>1, <5>2
        <4>. QED
          BY <4>1
      <3>. QED
        BY <1>b, <3>1, <3>2, <3>3, SlotsDiffer DEF Registered
    <2>3. d \in doomed' => d \in doomed \/ slots[t] = Running(d)
      BY <1>4 DEF Forget
    <2>4. slots[t] = Running(d) => Registered(d)
      BY SlotTypes, SlotsDiffer DEF Registered
    <2>5. UNCHANGED <<agent, spawner>>
      BY <1>4 DEF Forget
    <2>. QED
      BY <1>a, <2>1, <2>2, <2>3, <2>4, <2>5
  <1>5. ASSUME DropManager
        PROVE  Fine(d)'
    <2>1. ~Registered(d)' /\ UNCHANGED <<pc, spawner, doomed>>
      BY <1>5, <1>b, SlotsDiffer DEF DropManager, Registered, Running, SessionOf
    <2>2. ~Registered(d) => agent'[d] = agent[d]
      <3>1. \A c \in Callers : d \notin CgroupOf(c)
        BY HostAgentsAreSpared
      <3>2. ~Registered(d) =>
              d \notin UNION {CgroupOf(c) \cup {c} : c \in {e \in Callers : Registered(e)}}
        BY <3>1
      <3>. QED
        BY <1>5, <3>2, KilledFacts DEF DropManager, RuntimeTypeOK
    <2>3. doomed = {} /\ pc[d] \in {"idle", "returned"}
      BY <1>5 DEF DropManager
    <2>. QED
      BY <1>a, <2>1, <2>2, <2>3
  <1>. QED
    BY <1>1, <1>2, <1>3, <1>4, <1>5, NextCases

(* Whatever runs in control groups, the registry never holds an agent on    *)
(* the host that the backend killed.                                        *)
THEOREM HostAgentsAreNotKilled == RuntimeSpec => []HostAgentIsNotKilled
  <1>1. RuntimeInit => HandedOn
    BY DEF RuntimeInit, HandedOn, Registered, Empty, Running, SessionOf
  <1>2. RuntimeInv /\ HandedOn /\ [RuntimeNext]_runtimeVars => HandedOn'
    <2>. SUFFICES ASSUME RuntimeInv, HandedOn, [RuntimeNext]_runtimeVars
                  PROVE  HandedOn'
      OBVIOUS
    <2>1. CASE UNCHANGED runtimeVars
      BY <2>1 DEF runtimeVars, HandedOn, Registered, SessionOf, Running, InCgroup
    <2>. QED
      BY <2>1, HandedOnStep DEF RuntimeInv
  <1>3. HandedOn => HostAgentIsNotKilled
    BY DEF HandedOn, HostAgentIsNotKilled
  <1>. QED
    BY <1>1, <1>2, <1>3, RuntimeInvariant, PTL DEF RuntimeSpec

-----------------------------------------------------------------------------
(* The sandbox: how far each call of the child has brought it              *)

(* The stages of a child in chroot mode at which a call is not made yet.   *)
UpToJoining == {"joining"}
UpToLeading == UpToJoining \cup {"leading"}
UpToLocking == UpToLeading \cup {"locking"}
UpToRooting == UpToLocking \cup {"rooting"}
UpToEntering == UpToRooting \cup {"entering"}
UpToUngrouping == UpToEntering \cup {"ungrouping"}
UpToGid == UpToUngrouping \cup {"setting gid"}
UpToUid == UpToGid \cup {"setting uid"}

Setting == {"idle", "refused", "owning", "grouping", "binding", "spawning", "stdio", "failed"}
ChildStages == UpToUid \cup {"hosting", "executing"}
Ending == {"releasing", "watching", "running", "unspawned", "over"}

(* What the child is told is what the configuration says, as long as the   *)
(* port stays as it is.                                                    *)
ChildTyped(l) ==
  child[l] \in [state : {"none", "forked", "agent", "handed over", "dead"},
                grouped : BOOLEAN, leads : BOOLEAN, locked : BOOLEAN,
                root : {"machine", l}, cwd : {"machine", l},
                groups : {"backend", "none"},
                gid : {Root, AgentId}, uid : {Root, AgentId},
                told : {<<>>, Told(l)}]

SandboxTypeOK ==
  /\ plan \in [Launches -> Configs]
  /\ stage \in [Launches -> Setting \cup ChildStages \cup Ending]
  /\ owned \in [Launches -> 0 .. Files]
  /\ DOMAIN child = Launches
  /\ DOMAIN port = Launches
  /\ \A l \in Launches : ChildTyped(l)

(* Where a launch is, and what has been prepared by then.                  *)
Prepared(l) ==
  /\ stage[l] \in Setting => child[l] = NoChild
  /\ stage[l] \in ChildStages <=> child[l].state = "forked"
  /\ stage[l] \in UpToUid => Chrooted(l)
  /\ stage[l] \in {"hosting", "stdio"} => ~Chrooted(l)
  /\ stage[l] \notin {"idle", "refused"} => Valid(plan[l])
  /\ Chrooted(l) /\ stage[l] \in {"grouping", "binding", "spawning"} => owned[l] = Files
  /\ Chrooted(l) /\ child[l].state \in {"forked", "agent"} => owned[l] = Files
  /\ ~WantsEndpoint(plan[l]) => port[l] = NoEndpoint
  /\ child[l].state = "handed over" => ~Chrooted(l)
  /\ child[l].state \in {"forked", "agent", "handed over"} => child[l].told = Told(l)

(* What the calls that were made have done.                                *)
ConfinedSoFar(l) ==
  /\ Chrooted(l) =>
       /\ stage[l] \notin UpToJoining => child[l].grouped = HasGroups
       /\ stage[l] \notin UpToLeading => child[l].leads
       /\ stage[l] \notin UpToLocking => child[l].locked = HasGroups
       /\ stage[l] \notin UpToRooting => child[l].root = l
       /\ stage[l] \notin UpToEntering => child[l].cwd = l
       /\ stage[l] \notin UpToUngrouping => child[l].groups = "none"
       /\ stage[l] \notin UpToGid => child[l].gid = plan[l].gid
       /\ stage[l] \notin UpToUid => child[l].uid = plan[l].uid
  /\ ~Chrooted(l) /\ stage[l] # "hosting" => child[l].leads /\ child[l].cwd = l

(* A child that runs, as itself or as the agent, is as far as its stage    *)
(* says: no stage is passed but by making its call.                        *)
SandboxInv ==
  /\ SandboxTypeOK
  /\ \A l \in Launches :
       /\ Prepared(l)
       /\ child[l].state \in {"forked", "agent"} => ConfinedSoFar(l)

-----------------------------------------------------------------------------
(* What the invariant means                                                *)

LEMMA ToldFacts ==
  ASSUME NEW l \in Launches
  PROVE  /\ Told(l).env["ACP_SESSION_ID"] = l
         /\ Told(l).env["ACP_CHECKOUT_ROOT"] = CheckoutRoot(l)
         /\ port[l] # NoEndpoint => Told(l).env["ACP_ENDPOINT"] = port[l]
         /\ Told(l).argv = Expanded(l)
  <1>1. /\ {"ACP_SESSION_ID", "ACP_CHECKOUT_ROOT"} \subseteq DOMAIN OwnEnv(l)
        /\ OwnEnv(l)["ACP_SESSION_ID"] = l
        /\ OwnEnv(l)["ACP_CHECKOUT_ROOT"] = CheckoutRoot(l)
        /\ port[l] # NoEndpoint => /\ "ACP_ENDPOINT" \in DOMAIN OwnEnv(l)
                                   /\ OwnEnv(l)["ACP_ENDPOINT"] = port[l]
    BY DEF OwnEnv
  <1>2. ASSUME NEW early, NEW late, NEW n \in DOMAIN late
        PROVE  Override(early, late)[n] = late[n]
    BY DEF Override
  <1>3. Told(l).env = Override(Inherited(l), OwnEnv(l)) /\ Told(l).argv = Expanded(l)
    BY DEF Told, AgentEnv
  <1>. QED
    BY <1>1, <1>2, <1>3

LEMMA InvMeansConfined ==
  ASSUME SandboxInv
  PROVE  AgentsRunConfined
  <1>. SUFFICES ASSUME NEW l \in Launches, child[l].state = "agent"
                PROVE  /\ child[l].leads
                       /\ child[l].cwd = l
                       /\ Chrooted(l) =>
                            /\ child[l].root = l
                            /\ child[l].uid # Root /\ child[l].gid # Root
                            /\ child[l].groups = "none"
                            /\ owned[l] = Files
                            /\ platform = "linux" => child[l].grouped /\ child[l].locked
    BY DEF AgentsRunConfined
  <1>1. stage[l] \in Ending
    BY DEF SandboxInv, SandboxTypeOK, Prepared, NoChild, Forked
  <1>2. ConfinedSoFar(l)
    BY DEF SandboxInv
  <1>3. Valid(plan[l]) /\ (Chrooted(l) => owned[l] = Files)
    BY <1>1 DEF SandboxInv, Prepared, Ending
  <1>. QED
    BY <1>1, <1>2, <1>3
    DEF ConfinedSoFar, Ending, UpToJoining, UpToLeading, UpToLocking, UpToRooting,
        UpToEntering, UpToUngrouping, UpToGid, UpToUid, Valid, Chrooted, HasGroups

LEMMA InvMeansTold ==
  ASSUME SandboxInv
  PROVE  AgentsAreToldTheirOwn
  <1>. SUFFICES ASSUME NEW l \in Launches, child[l].state \in {"agent", "handed over"}
                PROVE  LET env == child[l].told.env
                       IN  /\ env["ACP_SESSION_ID"] = l
                           /\ LeadsTo(child[l], env["ACP_CHECKOUT_ROOT"]) = l
                           /\ child[l].told.argv = port[l]
                           /\ port[l] # NoEndpoint => env["ACP_ENDPOINT"] = port[l]
    BY DEF AgentsAreToldTheirOwn
  <1>1. /\ child[l].told = Told(l)
        /\ ~WantsEndpoint(plan[l]) => port[l] = NoEndpoint
        /\ child[l].state = "handed over" => ~Chrooted(l)
    BY DEF SandboxInv, Prepared
  <1>2. child[l].state = "agent" /\ Chrooted(l) => child[l].root = l
    BY InvMeansConfined DEF AgentsRunConfined
  <1>3. LeadsTo(child[l], CheckoutRoot(l)) = l
    BY <1>1, <1>2, SandboxAssumption DEF LeadsTo, CheckoutRoot
  <1>4. Expanded(l) = port[l]
    BY <1>1 DEF Expanded
  <1>. QED
    BY <1>1, <1>3, <1>4, ToldFacts

-----------------------------------------------------------------------------
(* The invariant is inductive                                              *)

LEMMA NoChildFacts ==
  ASSUME NEW l
  PROVE  /\ NoChild \in [state : {"none"}, grouped : {FALSE}, leads : {FALSE},
                         locked : {FALSE}, root : {"machine"}, cwd : {"machine"},
                         groups : {"backend"}, gid : {Root}, uid : {Root}, told : {<<>>}]
         /\ NoChild.state = "none" /\ NoChild.told = <<>>
  BY DEF NoChild, Forked

LEMMA SandboxInitially ==
  ASSUME SandboxInit
  PROVE  SandboxInv
  <1>1. /\ plan \in [Launches -> Configs]
        /\ stage \in [Launches -> Setting]
        /\ owned \in [Launches -> 0 .. Files]
        /\ DOMAIN child = Launches /\ DOMAIN port = Launches
    BY SandboxAssumption DEF SandboxInit, Setting
  <1>2. ASSUME NEW l \in Launches
        PROVE  child[l] = NoChild /\ stage[l] = "idle" /\ port[l] = NoEndpoint
    BY DEF SandboxInit
  <1>3. ASSUME NEW l \in Launches
        PROVE  ChildTyped(l)
    BY <1>2, NoChildFacts DEF ChildTyped
  <1>4. ASSUME NEW l \in Launches
        PROVE  Prepared(l) /\ child[l].state = "none"
    BY <1>2, NoChildFacts
    DEF Prepared, Setting, ChildStages, UpToJoining, UpToLeading, UpToLocking, UpToRooting,
        UpToEntering, UpToUngrouping, UpToGid, UpToUid
  <1>. QED
    BY <1>1, <1>3, <1>4 DEF SandboxInv, SandboxTypeOK

(* A launch is not touched by a step of another one.                       *)
LEMMA OtherLaunchesStay ==
  ASSUME SandboxInv, NEW k \in Launches, SandboxStep(k), NEW l \in Launches \ {k}
  PROVE  /\ UNCHANGED <<platform, server, plan>>
         /\ stage'[l] = stage[l] /\ child'[l] = child[l]
         /\ owned'[l] = owned[l] /\ port'[l] = port[l]
  BY DEF SandboxInv, SandboxTypeOK, SandboxStep, Validate, Chown, PrepareGroup, ReservePort,
         HandOver, SetUpFails, ForkChild, ChildCall, ChildCallFails, Exec, ReleasePort,
         AgentListens, ProgramExits, Ready, Proceed, contextVars, preparedVars, Calls

(* Nor is what the launch is told, as long as its port stays.              *)
LEMMA ToldStays ==
  ASSUME NEW l, UNCHANGED <<server, plan>>, port'[l] = port[l]
  PROVE  /\ Told(l)' = Told(l)
         /\ Chrooted(l)' = Chrooted(l)
         /\ WantsEndpoint(plan[l])' = WantsEndpoint(plan[l])
  BY DEF Told, AgentEnv, OwnEnv, Inherited, Expanded, CheckoutRoot, Chrooted, WantsEndpoint

LaunchInv(l) ==
  /\ ChildTyped(l)
  /\ Prepared(l)
  /\ child[l].state \in {"forked", "agent"} => ConfinedSoFar(l)

(* What is prepared before there is a child.                               *)
LEMMA PreparingStep ==
  ASSUME SandboxInv, NEW l \in Launches,
         Validate(l) \/ Chown(l) \/ PrepareGroup(l) \/ SetUpFails(l)
  PROVE  LaunchInv(l)'
  <1>1. /\ child[l] = NoChild /\ child' = child /\ stage[l] \in Setting /\ stage'[l] \in Setting
        /\ UNCHANGED <<server, plan, port>>
    BY DEF SandboxInv, SandboxTypeOK, Prepared, Validate, Chown, PrepareGroup, SetUpFails,
           Proceed, Setting, contextVars, preparedVars
  <1>2. ChildTyped(l)'
    BY <1>1, ToldStays DEF SandboxInv, SandboxTypeOK, ChildTyped
  <1>3. /\ stage'[l] \notin {"idle", "refused"} => Valid(plan[l])
        /\ Chrooted(l) /\ stage'[l] \in {"grouping", "binding", "spawning"} => owned'[l] = Files
        /\ stage'[l] # "stdio"
    BY DEF SandboxInv, SandboxTypeOK, Prepared, Validate, Chown, PrepareGroup, SetUpFails,
           Proceed, contextVars, preparedVars
  <1>4. Prepared(l)'
    BY <1>1, <1>3, ToldStays, NoChildFacts
    DEF SandboxInv, Prepared, Setting, ChildStages, UpToJoining, UpToLeading, UpToLocking,
        UpToRooting, UpToEntering, UpToUngrouping, UpToGid, UpToUid
  <1>. QED
    BY <1>1, <1>2, <1>4, NoChildFacts DEF LaunchInv

(* A port is chosen before there is a child to be told.                    *)
LEMMA PortStep ==
  ASSUME SandboxInv, NEW l \in Launches, ReservePort(l)
  PROVE  LaunchInv(l)'
  <1>1. /\ child[l] = NoChild /\ child' = child
        /\ stage[l] = "binding" /\ stage'[l] \in {"spawning", "stdio"}
        /\ UNCHANGED <<server, plan, owned>>
    BY DEF SandboxInv, SandboxTypeOK, Prepared, ReservePort, Proceed, Setting, contextVars
  <1>2. /\ ~WantsEndpoint(plan[l]) => port'[l] = port[l]
        /\ stage'[l] = "stdio" => ~Chrooted(l)
    BY DEF SandboxInv, SandboxTypeOK, ReservePort, Proceed
  <1>3. ChildTyped(l)'
    BY <1>1, NoChildFacts DEF ChildTyped
  <1>4. Prepared(l)'
    BY <1>1, <1>2, NoChildFacts
    DEF SandboxInv, Prepared, Chrooted, Setting, Ending, ChildStages, UpToJoining, UpToLeading, UpToLocking,
        UpToRooting, UpToEntering, UpToUngrouping, UpToGid, UpToUid
  <1>. QED
    BY <1>1, <1>3, <1>4, NoChildFacts DEF LaunchInv

(* A child begins as a copy of the backend that is told its own.           *)
LEMMA ForkStep ==
  ASSUME SandboxInv, NEW l \in Launches, HandOver(l) \/ ForkChild(l)
  PROVE  LaunchInv(l)'
  <1>1. UNCHANGED <<server, plan, port, owned>>
    BY DEF HandOver, ForkChild, contextVars, preparedVars
  <1>2. CASE HandOver(l)
    <2>1. /\ child'[l] = [Forked EXCEPT !.state = "handed over", !.cwd = l, !.told = Told(l)]
          /\ stage[l] = "stdio" /\ stage'[l] = "over"
      BY <1>2 DEF SandboxInv, SandboxTypeOK, HandOver, Proceed
    <2>2. child'[l].state = "handed over" /\ child'[l].told = Told(l)
      BY <2>1 DEF Forked
    <2>3. ChildTyped(l)'
      BY <1>1, <2>1, ToldStays DEF ChildTyped, Forked
    <2>4. Prepared(l)'
      BY <1>1, <2>1, <2>2, ToldStays
      DEF SandboxInv, Prepared, Setting, Ending, ChildStages, UpToJoining, UpToLeading, UpToLocking,
        UpToRooting, UpToEntering, UpToUngrouping, UpToGid, UpToUid
    <2>. QED
      BY <2>2, <2>3, <2>4 DEF LaunchInv
  <1>3. CASE ForkChild(l)
    <2>1. /\ child'[l] = [Forked EXCEPT !.told = Told(l)]
          /\ stage[l] = "spawning"
          /\ stage'[l] = IF Chrooted(l) THEN "joining" ELSE "hosting"
      BY <1>3 DEF SandboxInv, SandboxTypeOK, ForkChild, Proceed
    <2>2. child'[l].state = "forked" /\ child'[l].told = Told(l)
      BY <2>1 DEF Forked
    <2>3. ChildTyped(l)'
      BY <1>1, <2>1, ToldStays DEF ChildTyped, Forked
    <2>4. Prepared(l)'
      BY <1>1, <2>1, <2>2, ToldStays
      DEF SandboxInv, Prepared, Setting, Ending, ChildStages, UpToJoining, UpToLeading, UpToLocking,
        UpToRooting, UpToEntering, UpToUngrouping, UpToGid, UpToUid
    <2>5. ConfinedSoFar(l)'
      BY <1>1, <2>1, ToldStays
      DEF ConfinedSoFar, Setting, Ending, ChildStages, UpToJoining, UpToLeading, UpToLocking,
        UpToRooting, UpToEntering, UpToUngrouping, UpToGid, UpToUid
    <2>. QED
      BY <2>3, <2>4, <2>5 DEF LaunchInv
  <1>. QED
    BY <1>2, <1>3

(* Each call is made at its stage and leads to the next.                   *)
LEMMA CallCases ==
  ASSUME SandboxInv, NEW l \in Launches, ChildCall(l)
  PROVE  /\ UNCHANGED <<platform, server, plan, port, owned>>
         /\ \/ /\ stage[l] = "joining" /\ stage'[l] = "leading"
               /\ child'[l] = [child[l] EXCEPT !.grouped = HasGroups]
            \/ /\ stage[l] = "leading" /\ stage'[l] = "locking"
               /\ child'[l] = [child[l] EXCEPT !.leads = TRUE]
            \/ /\ stage[l] = "hosting" /\ stage'[l] = "executing"
               /\ child'[l] = [child[l] EXCEPT !.leads = TRUE, !.cwd = l]
            \/ /\ stage[l] = "locking" /\ stage'[l] = "rooting"
               /\ child'[l] = [child[l] EXCEPT !.locked = HasGroups]
            \/ /\ stage[l] = "rooting" /\ stage'[l] = "entering"
               /\ child'[l] = [child[l] EXCEPT !.root = l]
            \/ /\ stage[l] = "entering" /\ stage'[l] = "ungrouping"
               /\ child'[l] = [child[l] EXCEPT !.cwd = child[l].root]
            \/ /\ stage[l] = "ungrouping" /\ stage'[l] = "setting gid"
               /\ child'[l] = [child[l] EXCEPT !.groups = "none"]
            \/ /\ stage[l] = "setting gid" /\ stage'[l] = "setting uid"
               /\ child'[l] = [child[l] EXCEPT !.gid = plan[l].gid]
            \/ /\ stage[l] = "setting uid" /\ stage'[l] = "executing"
               /\ child'[l] = [child[l] EXCEPT !.uid = plan[l].uid]
  <1>1. PICK c \in Calls(l) : /\ stage[l] = c.at
                              /\ child' = [child EXCEPT ![l] = c.does]
                              /\ stage' = [stage EXCEPT ![l] = c.next]
                              /\ UNCHANGED <<platform, server, plan, port, owned>>
    BY DEF ChildCall, Proceed, contextVars, preparedVars
  <1>2. child'[l] = c.does /\ stage'[l] = c.next /\ stage[l] = c.at
    BY <1>1 DEF SandboxInv, SandboxTypeOK
  <1>3. LeadsTo(child[l], "/workspace") = child[l].root
    BY DEF LeadsTo
  <1>4. CASE c = [at |-> "joining", next |-> "leading",
                  does |-> Grouped(l)]
    BY <1>1, <1>2, <1>3, <1>4 DEF Grouped
  <1>5. CASE c = [at |-> "leading", next |-> "locking",
                  does |-> [child[l] EXCEPT !.leads = TRUE]]
    BY <1>1, <1>2, <1>3, <1>5
  <1>6. CASE c = [at |-> "hosting", next |-> "executing",
                  does |-> OnHost(l)]
    BY <1>1, <1>2, <1>3, <1>6 DEF OnHost
  <1>7. CASE c = [at |-> "locking", next |-> "rooting",
                  does |-> [child[l] EXCEPT !.locked = HasGroups]]
    BY <1>1, <1>2, <1>3, <1>7
  <1>8. CASE c = [at |-> "rooting", next |-> "entering",
                  does |-> [child[l] EXCEPT !.root = l]]
    BY <1>1, <1>2, <1>3, <1>8
  <1>9. CASE c = [at |-> "entering", next |-> "ungrouping",
                  does |-> [child[l] EXCEPT !.cwd = LeadsTo(child[l], "/workspace")]]
    BY <1>1, <1>2, <1>3, <1>9
  <1>10. CASE c = [at |-> "ungrouping", next |-> "setting gid",
                  does |-> [child[l] EXCEPT !.groups = "none"]]
    BY <1>1, <1>2, <1>3, <1>10
  <1>11. CASE c = [at |-> "setting gid", next |-> "setting uid",
                  does |-> [child[l] EXCEPT !.gid = plan[l].gid]]
    BY <1>1, <1>2, <1>3, <1>11
  <1>12. CASE c = [at |-> "setting uid", next |-> "executing",
                  does |-> [child[l] EXCEPT !.uid = plan[l].uid]]
    BY <1>1, <1>2, <1>3, <1>12
  <1>. QED
    BY <1>4, <1>5, <1>6, <1>7, <1>8, <1>9, <1>10, <1>11, <1>12 DEF Calls

LEMMA CallStep ==
  ASSUME SandboxInv, NEW l \in Launches, ChildCall(l)
  PROVE  LaunchInv(l)'
  <1>1. UNCHANGED <<platform, server, plan, port, owned>>
    BY CallCases
  <1>2. /\ Told(l)' = Told(l) /\ Chrooted(l)' = Chrooted(l) /\ HasGroups' = HasGroups
        /\ WantsEndpoint(plan[l])' = WantsEndpoint(plan[l])
    BY <1>1, ToldStays DEF HasGroups
  <1>3. ChildTyped(l) /\ Prepared(l) /\ stage[l] \in ChildStages
    BY CallCases
    DEF SandboxInv, SandboxTypeOK, Setting, Ending, ChildStages, UpToJoining, UpToLeading, UpToLocking,
        UpToRooting, UpToEntering, UpToUngrouping, UpToGid, UpToUid
  <1>4. child[l].state = "forked" /\ ConfinedSoFar(l)
    BY <1>3 DEF Prepared, SandboxInv
  <1>5. /\ plan[l].gid \in {Root, AgentId} /\ plan[l].uid \in {Root, AgentId}
        /\ HasGroups \in BOOLEAN
    BY DEF SandboxInv, SandboxTypeOK, Configs, HasGroups
  <1>6. ChildTyped(l)' /\ child'[l].state = "forked" /\ child'[l].told = child[l].told
    <2>. SUFFICES /\ child'[l] \in [state : {"none", "forked", "agent", "handed over", "dead"},
                       grouped : BOOLEAN, leads : BOOLEAN, locked : BOOLEAN,
                       root : {"machine", l}, cwd : {"machine", l},
                       groups : {"backend", "none"},
                       gid : {Root, AgentId}, uid : {Root, AgentId},
                       told : {<<>>, Told(l)}]
                  /\ child'[l].state = "forked" /\ child'[l].told = child[l].told
      BY <1>2 DEF ChildTyped
    <2>1. CASE child'[l] = [child[l] EXCEPT !.grouped = HasGroups]
      BY <1>3, <1>4, <1>5, <2>1 DEF ChildTyped
    <2>2. CASE child'[l] = [child[l] EXCEPT !.leads = TRUE]
      BY <1>3, <1>4, <1>5, <2>2 DEF ChildTyped
    <2>3. CASE child'[l] = [child[l] EXCEPT !.leads = TRUE, !.cwd = l]
      BY <1>3, <1>4, <1>5, <2>3 DEF ChildTyped
    <2>4. CASE child'[l] = [child[l] EXCEPT !.locked = HasGroups]
      BY <1>3, <1>4, <1>5, <2>4 DEF ChildTyped
    <2>5. CASE child'[l] = [child[l] EXCEPT !.root = l]
      BY <1>3, <1>4, <1>5, <2>5 DEF ChildTyped
    <2>6. CASE child'[l] = [child[l] EXCEPT !.cwd = child[l].root]
      BY <1>3, <1>4, <1>5, <2>6 DEF ChildTyped
    <2>7. CASE child'[l] = [child[l] EXCEPT !.groups = "none"]
      BY <1>3, <1>4, <1>5, <2>7 DEF ChildTyped
    <2>8. CASE child'[l] = [child[l] EXCEPT !.gid = plan[l].gid]
      BY <1>3, <1>4, <1>5, <2>8 DEF ChildTyped
    <2>9. CASE child'[l] = [child[l] EXCEPT !.uid = plan[l].uid]
      BY <1>3, <1>4, <1>5, <2>9 DEF ChildTyped
    <2>. QED
      BY <2>1, <2>2, <2>3, <2>4, <2>5, <2>6, <2>7, <2>8, <2>9, CallCases
  <1>7. /\ stage'[l] \in ChildStages \ {"hosting"}
        /\ stage'[l] \in UpToUid => Chrooted(l)
        /\ stage'[l] = "executing" => stage[l] \in {"hosting", "setting uid"}
    BY <1>3, CallCases
    DEF Prepared, Setting, Ending, ChildStages, UpToJoining, UpToLeading, UpToLocking,
        UpToRooting, UpToEntering, UpToUngrouping, UpToGid, UpToUid
  <1>8. Prepared(l)'
    BY <1>1, <1>2, <1>3, <1>4, <1>6, <1>7
    DEF Prepared, Setting, Ending, ChildStages, UpToJoining, UpToLeading, UpToLocking,
        UpToRooting, UpToEntering, UpToUngrouping, UpToGid, UpToUid
  <1>9. ConfinedSoFar(l)'
    <2>1. CASE stage[l] = "joining"
      <3>1. stage'[l] = "leading" /\ child'[l] = [child[l] EXCEPT !.grouped = HasGroups]
        BY <2>1, CallCases
      <3>2. Chrooted(l)
        BY <1>3, <2>1
        DEF Prepared, UpToJoining, UpToLeading, UpToLocking, UpToRooting, UpToEntering,
            UpToUngrouping, UpToGid, UpToUid
      <3>3. child'[l].grouped = HasGroups
        BY <1>3, <3>1 DEF ChildTyped
      <3>. QED
        BY <1>2, <3>1, <3>2, <3>3
        DEF ConfinedSoFar, UpToJoining, UpToLeading, UpToLocking, UpToRooting,
            UpToEntering, UpToUngrouping, UpToGid, UpToUid
    <2>2. CASE stage[l] = "leading"
      <3>1. stage'[l] = "locking" /\ child'[l] = [child[l] EXCEPT !.leads = TRUE]
        BY <2>2, CallCases
      <3>. QED
        BY <1>1, <1>2, <1>3, <1>4, <2>2, <3>1
        DEF ConfinedSoFar, Prepared, ChildTyped, UpToJoining, UpToLeading,
            UpToLocking, UpToRooting, UpToEntering, UpToUngrouping, UpToGid, UpToUid
    <2>3. CASE stage[l] = "hosting"
      <3>1. stage'[l] = "executing" /\ child'[l] = [child[l] EXCEPT !.leads = TRUE, !.cwd = l]
        BY <2>3, CallCases
      <3>. QED
        BY <1>1, <1>2, <1>3, <1>4, <2>3, <3>1
        DEF ConfinedSoFar, Prepared, ChildTyped, UpToJoining, UpToLeading,
            UpToLocking, UpToRooting, UpToEntering, UpToUngrouping, UpToGid, UpToUid
    <2>4. CASE stage[l] = "locking"
      <3>1. stage'[l] = "rooting" /\ child'[l] = [child[l] EXCEPT !.locked = HasGroups]
        BY <2>4, CallCases
      <3>. QED
        BY <1>1, <1>2, <1>3, <1>4, <2>4, <3>1, ZenonT(60)
        DEF ConfinedSoFar, Prepared, ChildTyped, UpToJoining, UpToLeading,
            UpToLocking, UpToRooting, UpToEntering, UpToUngrouping, UpToGid, UpToUid
    <2>5. CASE stage[l] = "rooting"
      <3>1. stage'[l] = "entering" /\ child'[l] = [child[l] EXCEPT !.root = l]
        BY <2>5, CallCases
      <3>. QED
        BY <1>1, <1>2, <1>3, <1>4, <2>5, <3>1
        DEF ConfinedSoFar, Prepared, ChildTyped, UpToJoining, UpToLeading,
            UpToLocking, UpToRooting, UpToEntering, UpToUngrouping, UpToGid, UpToUid
    <2>6. CASE stage[l] = "entering"
      <3>1. stage'[l] = "ungrouping" /\ child'[l] = [child[l] EXCEPT !.cwd = child[l].root]
        BY <2>6, CallCases
      <3>. QED
        BY <1>1, <1>2, <1>3, <1>4, <2>6, <3>1
        DEF ConfinedSoFar, Prepared, ChildTyped, UpToJoining, UpToLeading,
            UpToLocking, UpToRooting, UpToEntering, UpToUngrouping, UpToGid, UpToUid
    <2>7. CASE stage[l] = "ungrouping"
      <3>1. stage'[l] = "setting gid" /\ child'[l] = [child[l] EXCEPT !.groups = "none"]
        BY <2>7, CallCases
      <3>. QED
        BY <1>1, <1>2, <1>3, <1>4, <2>7, <3>1, ZenonT(60)
        DEF ConfinedSoFar, Prepared, ChildTyped, UpToJoining, UpToLeading,
            UpToLocking, UpToRooting, UpToEntering, UpToUngrouping, UpToGid, UpToUid
    <2>8. CASE stage[l] = "setting gid"
      <3>1. stage'[l] = "setting uid" /\ child'[l] = [child[l] EXCEPT !.gid = plan[l].gid]
        BY <2>8, CallCases
      <3>. QED
        BY <1>1, <1>2, <1>3, <1>4, <2>8, <3>1, ZenonT(60)
        DEF ConfinedSoFar, Prepared, ChildTyped, UpToJoining, UpToLeading,
            UpToLocking, UpToRooting, UpToEntering, UpToUngrouping, UpToGid, UpToUid
    <2>9. CASE stage[l] = "setting uid"
      <3>1. stage'[l] = "executing" /\ child'[l] = [child[l] EXCEPT !.uid = plan[l].uid]
        BY <2>9, CallCases
      <3>. QED
        BY <1>1, <1>2, <1>3, <1>4, <2>9, <3>1
        DEF ConfinedSoFar, Prepared, ChildTyped, UpToJoining, UpToLeading,
            UpToLocking, UpToRooting, UpToEntering, UpToUngrouping, UpToGid, UpToUid
    <2>. QED
      BY <2>1, <2>2, <2>3, <2>4, <2>5, <2>6, <2>7, <2>8, <2>9, CallCases
  <1>. QED
    BY <1>6, <1>8, <1>9 DEF LaunchInv

(* The child ends: a call failed, its program exits, or it becomes one.    *)
LEMMA ChildEnds ==
  ASSUME SandboxInv, NEW l \in Launches,
         ChildCallFails(l) \/ ProgramExits(l) \/ Exec(l)
  PROVE  LaunchInv(l)'
  <1>1. UNCHANGED <<platform, server, plan, port, owned>>
    BY DEF ChildCallFails, ProgramExits, Exec, contextVars, preparedVars
  <1>2. /\ Told(l)' = Told(l) /\ Chrooted(l)' = Chrooted(l) /\ HasGroups' = HasGroups
        /\ WantsEndpoint(plan[l])' = WantsEndpoint(plan[l])
    BY <1>1, ToldStays DEF HasGroups
  <1>3. ChildTyped(l) /\ Prepared(l) /\ stage[l] \in Setting \cup ChildStages \cup Ending
    BY DEF SandboxInv, SandboxTypeOK
  <1>4. CASE ChildCallFails(l) \/ ProgramExits(l)
    <2>1. /\ child'[l] = [child[l] EXCEPT !.state = "dead"]
          /\ stage'[l] \in Ending
      BY <1>3, <1>4, NoChildFacts
      DEF SandboxInv, SandboxTypeOK, ChildCallFails, ProgramExits, Proceed, Prepared,
          contextVars, preparedVars, Ending
    <2>2. ChildTyped(l)' /\ child'[l].state = "dead"
      BY <1>2, <1>3, <2>1 DEF ChildTyped
    <2>3. stage[l] \notin {"idle", "refused"}
      BY <1>3, <1>4, NoChildFacts
      DEF ChildCallFails, ProgramExits, Prepared, Setting
    <2>4. Prepared(l)'
      BY <1>1, <1>2, <1>3, <2>1, <2>2, <2>3
      DEF Prepared, Setting, Ending, ChildStages, UpToJoining, UpToLeading, UpToLocking,
        UpToRooting, UpToEntering, UpToUngrouping, UpToGid, UpToUid
    <2>. QED
      BY <2>2, <2>4 DEF LaunchInv
  <1>5. CASE Exec(l)
    <2>1. /\ child'[l] = [child[l] EXCEPT !.state = "agent"]
          /\ stage[l] = "executing" /\ stage'[l] = "releasing"
      BY <1>5 DEF SandboxInv, SandboxTypeOK, Exec, Proceed
    <2>2. /\ ChildTyped(l)' /\ child'[l].state = "agent"
          /\ child'[l].told = child[l].told
          /\ child[l].state = "forked" /\ ConfinedSoFar(l)
      BY <1>2, <1>3, <2>1
      DEF ChildTyped, SandboxInv, Prepared, ChildStages
    <2>3. Prepared(l)'
      BY <1>1, <1>2, <1>3, <2>1, <2>2
      DEF Prepared, Setting, Ending, ChildStages, UpToJoining, UpToLeading, UpToLocking,
        UpToRooting, UpToEntering, UpToUngrouping, UpToGid, UpToUid
    <2>4. /\ child'[l].grouped = child[l].grouped /\ child'[l].leads = child[l].leads
          /\ child'[l].locked = child[l].locked /\ child'[l].root = child[l].root
          /\ child'[l].cwd = child[l].cwd /\ child'[l].groups = child[l].groups
          /\ child'[l].gid = child[l].gid /\ child'[l].uid = child[l].uid
      BY <1>3, <2>1 DEF ChildTyped
    <2>5. ConfinedSoFar(l)'
      BY <1>1, <1>2, <2>1, <2>2, <2>4
      DEF ConfinedSoFar, UpToJoining, UpToLeading, UpToLocking, UpToRooting,
          UpToEntering, UpToUngrouping, UpToGid, UpToUid
    <2>. QED
      BY <2>2, <2>3, <2>5 DEF LaunchInv
  <1>. QED
    BY <1>4, <1>5

(* The steps after the spawn leave the child as it is.                     *)
LEMMA EndingStep ==
  ASSUME SandboxInv, NEW l \in Launches, ReleasePort(l) \/ AgentListens(l) \/ Ready(l)
  PROVE  LaunchInv(l)'
  <1>1. /\ UNCHANGED <<platform, server, plan, port, owned, child>>
        /\ \/ stage'[l] = stage[l]
           \/ stage[l] \in Ending \cup {"failed"} /\ stage'[l] \in Ending
    BY DEF SandboxInv, SandboxTypeOK, ReleasePort, AgentListens, Ready, Proceed,
           contextVars, preparedVars, Ending
  <1>2. /\ Told(l)' = Told(l) /\ Chrooted(l)' = Chrooted(l) /\ HasGroups' = HasGroups
        /\ WantsEndpoint(plan[l])' = WantsEndpoint(plan[l])
    BY <1>1, ToldStays DEF HasGroups
  <1>3. ChildTyped(l) /\ Prepared(l)
    BY DEF SandboxInv, SandboxTypeOK
  <1>4. ChildTyped(l)'
    BY <1>1, <1>2, <1>3 DEF ChildTyped
  <1>5. Prepared(l)'
    BY <1>1, <1>2, <1>3, NoChildFacts
    DEF Prepared, Setting, Ending, ChildStages, UpToJoining, UpToLeading, UpToLocking,
        UpToRooting, UpToEntering, UpToUngrouping, UpToGid, UpToUid
  <1>6. ASSUME child'[l].state \in {"forked", "agent"}
        PROVE  ConfinedSoFar(l)'
    <2>1. child[l].state \in {"forked", "agent"} /\ ConfinedSoFar(l)
      BY <1>1, <1>6 DEF SandboxInv
    <2>2. stage[l] # "failed"
      BY <1>3, <2>1, NoChildFacts DEF Prepared, Setting
    <2>. QED
      BY <1>1, <1>2, <2>1, <2>2
      DEF ConfinedSoFar, Setting, Ending, ChildStages, UpToJoining, UpToLeading, UpToLocking,
        UpToRooting, UpToEntering, UpToUngrouping, UpToGid, UpToUid
  <1>. QED
    BY <1>4, <1>5, <1>6 DEF LaunchInv

LEMMA OwnStep ==
  ASSUME SandboxInv, NEW l \in Launches, SandboxStep(l)
  PROVE  LaunchInv(l)'
  BY PreparingStep, PortStep, ForkStep, CallStep, ChildEnds, EndingStep DEF SandboxStep

LEMMA TypesStep ==
  ASSUME SandboxInv, NEW l \in Launches, SandboxStep(l)
  PROVE  /\ plan' \in [Launches -> Configs]
         /\ stage' \in [Launches -> Setting \cup ChildStages \cup Ending]
         /\ owned' \in [Launches -> 0 .. Files]
         /\ DOMAIN child' = Launches
         /\ DOMAIN port' = Launches
  <1>. USE DEF SandboxInv, SandboxTypeOK
  <1>1. CASE ChildCall(l)
    <2>1. PICK c \in Calls(l) : /\ child' = [child EXCEPT ![l] = c.does]
                                /\ stage' = [stage EXCEPT ![l] = c.next]
                                /\ UNCHANGED <<plan, port, owned>>
      BY <1>1 DEF ChildCall, Proceed, contextVars, preparedVars
    <2>2. stage'[l] \in ChildStages
      BY <1>1, CallCases
      DEF Setting, Ending, ChildStages, UpToJoining, UpToLeading, UpToLocking,
        UpToRooting, UpToEntering, UpToUngrouping, UpToGid, UpToUid
    <2>. QED
      BY <2>1, <2>2
  <1>2. CASE ~ChildCall(l)
    <2>1. owned' \in [Launches -> 0 .. Files]
      BY <1>2, SandboxAssumption
      DEF SandboxStep, Validate, Chown, PrepareGroup, ReservePort, HandOver, SetUpFails,
          ForkChild, ChildCallFails, Exec, ReleasePort, AgentListens, ProgramExits, Ready,
          Proceed, contextVars, preparedVars
    <2>2. stage' \in [Launches -> Setting \cup ChildStages \cup Ending]
      BY <1>2
      DEF SandboxStep, Validate, Chown, PrepareGroup, ReservePort, HandOver, SetUpFails,
          ForkChild, ChildCallFails, Exec, ReleasePort, AgentListens, ProgramExits, Ready,
          Proceed, contextVars, preparedVars, Setting, Ending, ChildStages, UpToJoining, UpToLeading, UpToLocking,
        UpToRooting, UpToEntering, UpToUngrouping, UpToGid, UpToUid
    <2>. QED
      BY <1>2, <2>1, <2>2
      DEF SandboxStep, Validate, Chown, PrepareGroup, ReservePort, HandOver, SetUpFails,
          ForkChild, ChildCallFails, Exec, ReleasePort, AgentListens, ProgramExits, Ready,
          Proceed, contextVars, preparedVars
  <1>. QED
    BY <1>1, <1>2

(* A launch of which nothing changes stays as it is.                       *)
LEMMA LaunchStays ==
  ASSUME NEW l, LaunchInv(l), UNCHANGED <<platform, server, plan>>,
         stage'[l] = stage[l], child'[l] = child[l],
         owned'[l] = owned[l], port'[l] = port[l]
  PROVE  LaunchInv(l)'
  <1>1. /\ Told(l)' = Told(l) /\ Chrooted(l)' = Chrooted(l)
        /\ WantsEndpoint(plan[l])' = WantsEndpoint(plan[l])
    BY ToldStays
  <1>2. ChildTyped(l)'
    BY <1>1 DEF LaunchInv, ChildTyped
  <1>3. Prepared(l)'
    BY <1>1 DEF LaunchInv, Prepared
  <1>4. ConfinedSoFar(l) => ConfinedSoFar(l)'
    BY <1>1 DEF ConfinedSoFar, HasGroups
  <1>. QED
    BY <1>2, <1>3, <1>4 DEF LaunchInv

LEMMA SandboxStepKeepsInv ==
  ASSUME SandboxInv, [SandboxNext]_sandboxVars
  PROVE  SandboxInv'
  <1>0. ASSUME NEW l \in Launches
        PROVE  LaunchInv(l)
    BY DEF SandboxInv, SandboxTypeOK, LaunchInv
  <1>1. CASE UNCHANGED <<platform, server, plan, stage, owned, port, child>>
    <2>1. ASSUME NEW l \in Launches
          PROVE  LaunchInv(l)'
      BY <1>0, <1>1, LaunchStays
    <2>. QED
      BY <1>1, <2>1 DEF SandboxInv, SandboxTypeOK, LaunchInv
  <1>2. CASE \E k \in Launches : SandboxStep(k)
    <2>1. PICK k \in Launches : SandboxStep(k)
      BY <1>2
    <2>2. ASSUME NEW l \in Launches
          PROVE  LaunchInv(l)'
      BY <1>0, <2>1, OwnStep, OtherLaunchesStay, LaunchStays
    <2>. QED
      BY <2>1, <2>2, TypesStep DEF SandboxInv, SandboxTypeOK, LaunchInv
  <1>. QED
    BY <1>1, <1>2
    DEF SandboxNext, OtherBinds, OtherLeaves, sandboxVars, contextVars, preparedVars

LEMMA SandboxInvariant == SandboxSpec => []SandboxInv
  BY SandboxInitially, SandboxStepKeepsInv, PTL DEF SandboxSpec

(* Every agent that runs is confined as its mode promises, on every        *)
(* platform and whatever failed before it: a child that misses a call      *)
(* never becomes the agent (prepare_chroot_child_with).                    *)
THEOREM AgentsAreConfined == SandboxSpec => []AgentsRunConfined
  BY SandboxInvariant, InvMeansConfined, PTL

(* Every agent is told its own session, checkout and endpoint, whatever    *)
(* variables it inherits (agent_env, expand_agent_argv).                   *)
THEOREM AgentsHearTheTruth == SandboxSpec => []AgentsAreToldTheirOwn
  BY SandboxInvariant, InvMeansTold, PTL

-----------------------------------------------------------------------------
(* Lists of branches                                                       *)

(* A sequence that holds each member of a set once.                        *)
IsListing(s, E) ==
  /\ s \in Seq(E)
  /\ ToSet(s) = E
  /\ Len(s) = Cardinality(E)

(* There is a sequence of a finite set of numbers in their order: each has *)
(* the place that counts those up to it.                                   *)
LEMMA SortedExists ==
  ASSUME NEW E, E \subseteq Nat, IsFiniteSet(E)
  PROVE  \E s \in [1..Cardinality(E) -> E] :
            \A i, k \in 1..Cardinality(E) : i < k => s[i] < s[k]
  <1>. DEFINE n == Cardinality(E)
              below(b) == {c \in E : c <= b}
              rank == [b \in E |-> Cardinality(below(b))]
  <1>0. n \in Nat
    BY FS_CardinalityType
  <1>1. ASSUME NEW b \in E
        PROVE  IsFiniteSet(below(b)) /\ rank[b] \in 1..n
    <2>1. IsFiniteSet(below(b)) /\ Cardinality(below(b)) <= n
      BY FS_Subset
    <2>2. Cardinality(below(b)) \in Nat /\ Cardinality(below(b)) # 0
      <3>1. b \in below(b)
        OBVIOUS
      <3>. QED
        BY <2>1, <3>1, FS_CardinalityType, FS_EmptySet
    <2>. QED
      BY <1>0, <2>1, <2>2
  <1>2. ASSUME NEW a \in E, NEW b \in E, a < b
        PROVE  rank[a] < rank[b]
    <2>0. a \in Nat /\ b \in Nat /\ E \subseteq Nat
      OBVIOUS
    <2>1. below(a) \in SUBSET below(b) /\ b \in below(b) /\ b \notin below(a)
      <3>1. \A c \in E : c \in Nat
        BY <2>0
      <3>2. \A c \in E : c <= a => c <= b
        BY <1>2, <2>0, <3>1
      <3>3. b <= b /\ ~(b <= a)
        BY <1>2, <2>0
      <3>. QED
        BY <3>2, <3>3
    <2>2. /\ Cardinality(below(a)) <= Cardinality(below(b))
          /\ Cardinality(below(a)) # Cardinality(below(b))
      <3>. HIDE DEF below
      <3>. QED
        BY <1>1, <2>1, FS_Subset
    <2>. QED
      BY <1>1, <2>2
  <1>3. rank \in Injection(E, 1..n)
    <2>. HIDE DEF rank
    <2>1. rank \in [E -> 1..n]
      BY <1>1 DEF rank
    <2>2. ASSUME NEW a \in E, NEW b \in E, rank[a] = rank[b]
          PROVE  a = b
      <3>1. ~(rank[a] < rank[b]) /\ ~(rank[b] < rank[a])
        <4>. HIDE DEF n, below
        <4>1. rank[a] \in 1..n
          BY <1>1
        <4>2. rank[a] \in Nat
          BY <1>0, <4>1
        <4>. QED
          BY <2>2, <4>2
      <3>2. ~(a < b) /\ ~(b < a)
        BY <1>2, <3>1
      <3>3. a \in Nat /\ b \in Nat
        OBVIOUS
      <3>. QED
        BY <3>2, <3>3
    <2>. QED
      BY <2>1, <2>2 DEF Injection, IsInjective
  <1>4. rank \in Surjection(E, 1..n)
    <2>1. IsFiniteSet(1..n) /\ Cardinality(1..n) = n
      BY <1>0, FS_Interval
    <2>. QED
      BY <1>3, <2>1, FS_Injection
  <1>. DEFINE s == [i \in 1..n |-> CHOOSE b \in E : rank[b] = i]
  <1>5. ASSUME NEW i \in 1..n
        PROVE  s[i] \in E /\ rank[s[i]] = i
    <2>. HIDE DEF rank
    <2>1. \E b \in E : rank[b] = i
      BY <1>4 DEF Surjection
    <2>. QED
      BY <2>1
  <1>6. ASSUME NEW i \in 1..n, NEW k \in 1..n, i < k
        PROVE  s[i] < s[k]
    <2>. HIDE DEF rank, s
    <2>1. /\ s[i] \in E /\ s[k] \in E
          /\ rank[s[i]] = i /\ rank[s[k]] = k
      BY <1>5
    <2>. HIDE DEF n
    <2>2. s[i] \in Nat /\ s[k] \in Nat /\ ~(k < i) /\ i # k
      <3>1. s[i] \in Nat /\ s[k] \in Nat
        BY <2>1
      <3>2. i \in Nat /\ k \in Nat
        BY <1>0
      <3>. QED
        BY <1>6, <3>1, <3>2
    <2>3. ~(s[k] < s[i])
      <3>1. s[k] < s[i] => rank[s[k]] < rank[s[i]]
        BY <1>2, <2>1
      <3>. QED
        BY <2>1, <2>2, <3>1
    <2>. QED
      BY <2>1, <2>2, <2>3
  <1>7. s \in [1..n -> E]
    <2>. HIDE DEF rank
    <2>. QED
      BY <1>5
  <1>. QED
    BY <1>6, <1>7

(* A sequence of as many members of a finite set as it has, each greater   *)
(* than the one before, holds every one of them.                           *)
LEMMA SortedLists ==
  ASSUME NEW E, E \subseteq Nat, IsFiniteSet(E),
         NEW s \in [1..Cardinality(E) -> E],
         \A i, k \in 1..Cardinality(E) : i < k => s[i] < s[k]
  PROVE  IsListing(s, E)
  <1>. DEFINE n == Cardinality(E)
  <1>0. n \in Nat /\ IsFiniteSet(1..n) /\ Cardinality(1..n) = n
    BY FS_CardinalityType, FS_Interval
  <1>1. s \in Injection(1..n, E)
    <2>1. ASSUME NEW i \in 1..n, NEW k \in 1..n, s[i] = s[k]
          PROVE  i = k
      <3>1. s[i] \in E /\ s[k] \in E
        OBVIOUS
      <3>3. s[i] \in Nat /\ s[k] \in Nat
        BY <3>1
      <3>4. i \in Nat /\ k \in Nat
        <4>. HIDE DEF n
        <4>. QED
          BY <1>0
      <3>2. (i < k => s[i] < s[k]) /\ (k < i => s[k] < s[i])
        OBVIOUS
      <3>. QED
        BY <2>1, <3>2, <3>3, <3>4
    <2>. QED
      BY <2>1 DEF Injection, IsInjective
  <1>2. s \in Surjection(1..n, E)
    BY <1>0, <1>1, FS_Injection
  <1>3. s \in Seq(E) /\ DOMAIN s = 1..n /\ Len(s) = n
    BY <1>0
  <1>4. \A b \in E : \E i \in 1..n : s[i] = b
    BY <1>2 DEF Surjection
  <1>. QED
    BY <1>3, <1>4 DEF IsListing, ToSet

(* To take a member out of its place and put it first keeps a list one.    *)
LEMMA PrioritisedLists ==
  ASSUME NEW E, NEW s, IsListing(s, E), NEW b
  PROVE  /\ IsListing(Prioritised(s, b), E)
         /\ b \in E => Prioritised(s, b)[1] = b
  <1>1. CASE b \notin E
    BY <1>1 DEF IsListing, Prioritised
  <1>2. CASE b \in E
    <2>1. PICK index \in DOMAIN s : /\ index = CHOOSE i \in DOMAIN s : s[i] = b
                                    /\ s[index] = b
      <3>1. \E i \in DOMAIN s : s[i] = b
        BY <1>2 DEF IsListing, ToSet
      <3>. QED
        BY <3>1
    <2>. DEFINE n == Len(s)
                before == SubSeq(s, 1, index - 1)
                after == SubSeq(s, index + 1, n)
                rest == before \o after
                t == <<s[index]>> \o rest
    <2>2. Prioritised(s, b) = t
      BY <1>2, <2>1 DEF Prioritised, IsListing, RemoveAt
    <2>3. /\ n \in Nat /\ index \in 1..n /\ DOMAIN s = 1..n
          /\ \A i \in 1..n : s[i] \in E
      BY LenProperties, ElementOfSeq DEF IsListing
    <2>4. /\ before \in Seq(E) /\ Len(before) = index - 1
          /\ \A i \in 1..(index - 1) : before[i] = s[i]
      <3>1. /\ before \in Seq(E)
            /\ Len(before) = IF 1 <= index - 1 THEN index - 1 - 1 + 1 ELSE 0
            /\ \A i \in 1..(index - 1 - 1 + 1) : before[i] = s[1 + i - 1]
        BY <2>3, SubSeqProperties
      <3>. QED
        <4>. HIDE DEF before, n
        <4>. QED
          BY <2>3, <3>1
    <2>5. /\ after \in Seq(E) /\ Len(after) = n - index
          /\ \A i \in 1..(n - index) : after[i] = s[index + i]
      <3>1. /\ after \in Seq(E)
            /\ Len(after) = IF index + 1 <= n THEN n - (index + 1) + 1 ELSE 0
            /\ \A i \in 1..(n - (index + 1) + 1) : after[i] = s[index + 1 + i - 1]
        BY <2>3, SubSeqProperties
      <3>. HIDE DEF after, n
      <3>2. Len(after) = n - index
        BY <2>3, <3>1
      <3>3. ASSUME NEW i \in 1..(n - index)
            PROVE  after[i] = s[index + i]
        <4>1. i \in 1..(n - (index + 1) + 1) /\ index + 1 + i - 1 = index + i
          BY <2>3
        <4>. QED
          BY <3>1, <4>1
      <3>. QED
        BY <3>1, <3>2, <3>3
    <2>6. /\ rest \in Seq(E) /\ Len(rest) = n - 1
          /\ \A i \in 1..(n - 1) : rest[i] = IF i < index THEN s[i] ELSE s[i + 1]
      <3>1. /\ rest \in Seq(E)
            /\ Len(rest) = Len(before) + Len(after)
            /\ \A i \in 1..(Len(before) + Len(after)) :
                 rest[i] = IF i <= Len(before) THEN before[i] ELSE after[i - Len(before)]
        <4>. HIDE DEF before, after
        <4>. QED
          BY <2>4, <2>5, ConcatProperties
      <3>. HIDE DEF before, after, rest, n
      <3>2. Len(before) + Len(after) = n - 1
        BY <2>3, <2>4, <2>5
      <3>3. ASSUME NEW i \in 1..(n - 1)
            PROVE  rest[i] = IF i < index THEN s[i] ELSE s[i + 1]
        <4>1. CASE i < index
          BY <2>3, <2>4, <3>1, <3>2, <4>1
        <4>2. CASE ~(i < index)
          <5>1. i - (index - 1) \in 1..(n - index) /\ index + (i - (index - 1)) = i + 1
            BY <2>3, <4>2
          <5>2. rest[i] = after[i - (index - 1)]
            BY <2>3, <2>4, <3>1, <3>2, <4>2
          <5>3. after[i - (index - 1)] = s[index + (i - (index - 1))]
            BY <2>5, <5>1
          <5>. QED
            BY <4>2, <5>1, <5>2, <5>3
        <4>. QED
          BY <4>1, <4>2
      <3>. QED
        BY <3>1, <3>2, <3>3
    <2>7. /\ t \in Seq(E) /\ Len(t) = n
          /\ t[1] = b
          /\ \A i \in 2..n : t[i] = rest[i - 1]
      <3>1. <<s[index]>> \in Seq(E) /\ Len(<<s[index]>>) = 1 /\ <<s[index]>>[1] = b
        BY <2>1, <2>3
      <3>. HIDE DEF rest, n
      <3>2. /\ t \in Seq(E)
            /\ Len(t) = 1 + Len(rest)
            /\ \A i \in 1..(1 + Len(rest)) : t[i] = IF i <= 1 THEN <<s[index]>>[i] ELSE rest[i - 1]
        BY <2>6, <3>1, ConcatProperties
      <3>. HIDE DEF t
      <3>. QED
        BY <2>3, <2>6, <3>1, <3>2
    <2>8. ASSUME NEW i \in 1..n
          PROVE  \E k \in 1..n : t[k] = s[i]
      <3>. HIDE DEF t, rest, n
      <3>1. CASE i < index
        <4>1. i + 1 \in 2..n /\ i \in 1..(n - 1) /\ (i + 1) - 1 = i
          BY <2>3, <3>1
        <4>2. t[i + 1] = rest[i]
          BY <2>7, <4>1
        <4>3. rest[i] = s[i]
          BY <2>6, <3>1, <4>1
        <4>4. i + 1 \in 1..n
          BY <2>3, <4>1
        <4>. QED
          BY <4>2, <4>3, <4>4
      <3>2. CASE i = index
        BY <2>1, <2>3, <2>7, <3>2
      <3>3. CASE i > index
        <4>1. i \in 2..n /\ i - 1 \in 1..(n - 1) /\ ~(i - 1 < index) /\ (i - 1) + 1 = i
          BY <2>3, <3>3
        <4>. QED
          BY <2>3, <2>6, <2>7, <4>1
      <3>. QED
        BY <2>3, <3>1, <3>2, <3>3
    <2>9. ToSet(t) = E
      <3>. HIDE DEF t, rest
      <3>1. DOMAIN t = 1..n /\ \A k \in 1..n : t[k] \in E
        BY <2>7, LenProperties, ElementOfSeq
      <3>2. E \subseteq ToSet(t)
        BY <2>3, <2>8, <3>1 DEF IsListing, ToSet
      <3>. QED
        BY <3>1, <3>2 DEF ToSet
    <2>. QED
      BY <2>2, <2>7, <2>9 DEF IsListing
  <1>. QED
    BY <1>1, <1>2

(* A list made from one look at the upstream, and the branch put first in  *)
(* it (list_remote_workspace_branches, list_local_workspace_branches).     *)
LEMMA BranchesAreListed ==
  ASSUME NEW u, NEW b
  PROVE  LET answer == Prioritised(SortedBranches(u), b)
         IN  /\ IsListing(answer, Existing(u))
             /\ b \in Existing(u) => answer[1] = b
  <1>1. Existing(u) \subseteq Nat /\ IsFiniteSet(Existing(u))
    BY CheckoutAssumption, FS_Subset DEF Existing
  <1>2. IsListing(SortedBranches(u), Existing(u))
    BY <1>1, SortedExists, SortedLists DEF SortedBranches
  <1>. QED
    BY <1>2, PrioritisedLists

-----------------------------------------------------------------------------
(* The checkout: what is on disk, and what is known, at each step          *)

IsJob(r) ==
  /\ r = [op |-> r.op, override |-> r.override, step |-> r.step, ref |-> r.ref,
          ok |-> r.ok, answer |-> r.answer]
  /\ r.answer = [ref |-> r.answer.ref, sha |-> r.answer.sha, branches |-> r.answer.branches]
  /\ r.op \in {"prepare", "list"}

IsDisk(d) ==
  /\ d = [probe |-> d.probe, there |-> d.there, fetched |-> d.fetched, tree |-> d.tree,
          head |-> d.head]
  /\ d.there \in BOOLEAN

Probing == {"opening", "connecting", "unprobing"}
Made == {"fetching", "checking out", "reading"}

(* A probe is there only while it is used, a checkout only from when it is *)
(* initialised and until a task that failed cleans up.                     *)
TidySoFar(j) ==
  /\ job[j].op = "list" => job[j].step \notin Made \cup {"clearing", "initialising"}
  /\ job[j].op = "list" => ~disk[j].there
  /\ At(j, "listing") => job[j].op = "list"
  /\ job[j].step \in Made \/ (At(j, "done") /\ job[j].op = "prepare") => disk[j].there
  /\ job[j].step \notin Made \cup {"failing", "failed"} /\ ~(At(j, "done") /\ job[j].op = "prepare")
       => ~disk[j].there
  /\ j \notin spoilt => /\ job[j].step \notin Probing => ~disk[j].probe
                        /\ At(j, "failed") => ~disk[j].there

(* The ref is the one that was asked for or one that HEAD was at.          *)
RefIsGenuine(j, ref) ==
  IF AskedRef(j) # NoRef THEN ref = AskedRef(j)
  ELSE \E u \in seen[j] : SymbolicRef(u) = ref

(* What a task that prepares a checkout has found out, was so at a moment  *)
(* since it began.                                                         *)
KnownSoFar(j) ==
  /\ JobUnderWay(j) => upstream \in seen[j]
  /\ job[j].op = "prepare" =>
       /\ job[j].step \in Probing => AskedRef(j) = NoRef
       /\ \/ job[j].step \in Made \cup {"initialising", "done"}
          \/ At(j, "unprobing") /\ job[j].ok
          => RefIsGenuine(j, job[j].ref)
       /\ job[j].step \in {"checking out", "reading", "done"} =>
            \E u \in seen[j] : CommitOf(u, job[j].ref) = disk[j].fetched
       /\ job[j].step \in {"reading", "done"} =>
            /\ disk[j].fetched # NoCommit
            /\ disk[j].tree = disk[j].fetched
            /\ disk[j].head = disk[j].fetched
       /\ At(j, "done") =>
            /\ job[j].answer.ref = job[j].ref
            /\ job[j].answer.sha = disk[j].head

(* What a task that lists branches has found out, was so at a moment since *)
(* it began.                                                               *)
ListedSoFar(j) ==
  job[j].op = "list" =>
    /\ At(j, "listing") => \E v \in seen[j] : SymbolicRef(v) = job[j].ref
    /\ (At(j, "unprobing") /\ job[j].ok) \/ At(j, "done") => ListIsGenuine(j)

JobInv(j) ==
  /\ IsJob(job[j])
  /\ IsDisk(disk[j])
  /\ TidySoFar(j)
  /\ KnownSoFar(j)
  /\ ListedSoFar(j)

CheckoutInv ==
  /\ DOMAIN job = Jobs /\ DOMAIN disk = Jobs /\ DOMAIN seen = Jobs
  /\ \A j \in Jobs : JobInv(j)

LEMMA InvMeansGenuine ==
  ASSUME CheckoutInv
  PROVE  ReportsAreGenuine /\ OnlyCheckoutsRemain
  <1>1. ASSUME NEW j \in Jobs, At(j, "done")
        PROVE  IF job[j].op = "prepare" THEN CheckoutIsGenuine(j) ELSE ListIsGenuine(j)
    <2>1. CASE job[j].op = "prepare"
      BY <1>1, <2>1
      DEF CheckoutInv, JobInv, KnownSoFar, RefIsGenuine, CheckoutIsGenuine, Made, At
    <2>2. CASE job[j].op = "list"
      BY <1>1, <2>2 DEF CheckoutInv, JobInv, ListedSoFar
    <2>. QED
      BY <2>1, <2>2 DEF CheckoutInv, JobInv, IsJob
  <1>2. ASSUME NEW j \in Jobs \ spoilt, job[j].step \in {"done", "failed"}
        PROVE  /\ disk[j].there <=> At(j, "done") /\ job[j].op = "prepare"
               /\ disk[j].there \in BOOLEAN
               /\ ~disk[j].probe
    BY <1>2 DEF CheckoutInv, JobInv, IsJob, IsDisk, TidySoFar, Made, Probing, At
  <1>3. OnlyCheckoutsRemain
    BY <1>2, Zenon DEF OnlyCheckoutsRemain
  <1>. QED
    BY <1>1, <1>3 DEF ReportsAreGenuine

LEMMA CheckoutInitially ==
  ASSUME CheckoutInit
  PROVE  CheckoutInv
  <1>1. DOMAIN job = Jobs /\ DOMAIN disk = Jobs /\ DOMAIN seen = Jobs
    BY DEF CheckoutInit
  <1>2. ASSUME NEW j \in Jobs
        PROVE  JobInv(j)
    <2>1. /\ \/ \E o : job[j] = NewJob("prepare", o)
             \/ job[j] = NewJob("list", NoRef)
          /\ disk[j] = NoDisk
      BY DEF CheckoutInit
    <2>2. IsJob(job[j]) /\ job[j].step = "idle"
      <3>1. ASSUME NEW op \in {"prepare", "list"}, NEW o
            PROVE  IsJob(NewJob(op, o)) /\ NewJob(op, o).step = "idle"
        <4>1. IsJob(NewJob(op, o)) <=> NewJob(op, o).answer = NoAnswer
          BY DEF NewJob, IsJob, NoAnswer
        <4>. QED
          BY <4>1 DEF NewJob
      <3>. QED
        BY <2>1, <3>1
    <2>3. IsDisk(disk[j]) /\ ~disk[j].probe /\ ~disk[j].there
      BY <2>1 DEF NoDisk, IsDisk
    <2>. QED
      BY <2>2, <2>3 DEF JobInv, TidySoFar, KnownSoFar, ListedSoFar, At, JobUnderWay, Made, Probing
  <1>. QED
    BY <1>1, <1>2 DEF CheckoutInv

(* A task of which nothing changes but that others see more of the         *)
(* upstream.                                                               *)
LEMMA JobStays ==
  ASSUME NEW j, JobInv(j), UNCHANGED <<workspace>>,
         job'[j] = job[j], disk'[j] = disk[j], seen[j] \subseteq seen'[j],
         j \in spoilt' <=> j \in spoilt,
         JobUnderWay(j) => upstream' \in seen'[j]
  PROVE  JobInv(j)'
  <1>1. AskedRef(j)' = AskedRef(j)
    BY DEF AskedRef
  <1>2. TidySoFar(j)'
    BY DEF JobInv, TidySoFar, At
  <1>3. \A ref : RefIsGenuine(j, ref) => RefIsGenuine(j, ref)'
    BY <1>1 DEF RefIsGenuine
  <1>4. KnownSoFar(j)'
    BY <1>1, <1>3 DEF JobInv, KnownSoFar, At, JobUnderWay
  <1>5. ListIsGenuine(j) => ListIsGenuine(j)'
    BY DEF ListIsGenuine
  <1>6. ListedSoFar(j)'
    BY <1>5 DEF JobInv, ListedSoFar, At
  <1>. QED
    BY <1>2, <1>4, <1>6 DEF JobInv, IsJob, IsDisk

(* A change of the upstream is seen by every task under way.               *)
LEMMA UpstreamStep ==
  ASSUME CheckoutInv, NEW u, ChangeUpstream(u)
  PROVE  CheckoutInv'
  <1>1. ASSUME NEW j \in Jobs
        PROVE  JobInv(j)'
    BY <1>1, JobStays DEF CheckoutInv, ChangeUpstream
  <1>. QED
    BY <1>1 DEF CheckoutInv, ChangeUpstream

(* What a step of a task leaves alone.                                     *)
LEMMA JobStepFrame ==
  ASSUME CheckoutInv, NEW k \in Jobs, JobStep(k)
  PROVE  /\ DOMAIN job' = Jobs /\ DOMAIN disk' = Jobs /\ DOMAIN seen' = Jobs
         /\ UNCHANGED <<workspace, upstream>>
         /\ seen' = seen \/ (At(k, "idle") /\ seen' = [seen EXCEPT ![k] = {upstream}])
         /\ spoilt' \in {spoilt, spoilt \cup {k}}
         /\ \A j \in Jobs \ {k} : /\ job'[j] = job[j] /\ disk'[j] = disk[j]
                                  /\ seen'[j] = seen[j]
  BY DEF CheckoutInv, JobStep, BeginJob, ClearPath, ClearPathFails, TakeAskedRef, RefuseUrl,
         ReadSymbolicRef, ListLocal, MakeProbe, OpenProbe, Connect, ConnectFails, RemoveProbe,
         Initialise, Fetch, CheckOut, ReadHead, JobFails, CleanUp, Go, KeepsUpstream

(* The acting task: its record and its directories stay records.           *)
LEMMA JobStepKeepsRecords ==
  ASSUME CheckoutInv, NEW k \in Jobs, JobStep(k)
  PROVE  IsJob(job[k])' /\ IsDisk(disk[k])' /\ job'[k].op = job[k].op
                       /\ job'[k].override = job[k].override
  <1>. IsJob(job[k]) /\ IsDisk(disk[k]) /\ k \in DOMAIN job /\ k \in DOMAIN disk
    BY DEF CheckoutInv, JobInv
  <1>. USE DEF Go, KeepsUpstream, At, IsJob, IsDisk, NoDisk
  <1>1. CASE BeginJob(k)
    BY <1>1 DEF BeginJob
  <1>2. CASE ClearPath(k)
    BY <1>2 DEF ClearPath
  <1>3. CASE ClearPathFails(k)
    BY <1>3 DEF ClearPathFails
  <1>4. CASE TakeAskedRef(k)
    BY <1>4 DEF TakeAskedRef
  <1>5. CASE RefuseUrl(k)
    BY <1>5 DEF RefuseUrl
  <1>6. CASE ReadSymbolicRef(k)
    BY <1>6 DEF ReadSymbolicRef
  <1>7. CASE ListLocal(k)
    BY <1>7 DEF ListLocal
  <1>8. CASE MakeProbe(k)
    BY <1>8 DEF MakeProbe
  <1>9. CASE OpenProbe(k)
    BY <1>9 DEF OpenProbe
  <1>10. CASE Connect(k)
    BY <1>10 DEF Connect
  <1>11. CASE ConnectFails(k)
    BY <1>11 DEF ConnectFails
  <1>12. CASE RemoveProbe(k)
    BY <1>12 DEF RemoveProbe
  <1>13. CASE Initialise(k)
    BY <1>13 DEF Initialise
  <1>14. CASE Fetch(k)
    BY <1>14 DEF Fetch
  <1>15. CASE CheckOut(k)
    BY <1>15 DEF CheckOut
  <1>16. CASE ReadHead(k)
    BY <1>16 DEF ReadHead
  <1>17. CASE JobFails(k)
    BY <1>17 DEF JobFails
  <1>18. CASE CleanUp(k)
    BY <1>18 DEF CleanUp
  <1>. QED
    BY <1>1, <1>2, <1>3, <1>4, <1>5, <1>6, <1>7, <1>8, <1>9, <1>10, <1>11, <1>12, <1>13, <1>14, <1>15, <1>16, <1>17, <1>18 DEF JobStep

LEMMA JobStepIsTidy ==
  ASSUME CheckoutInv, NEW k \in Jobs, JobStep(k)
  PROVE  TidySoFar(k)'
  <1>. IsJob(job[k]) /\ IsDisk(disk[k]) /\ k \in DOMAIN job /\ k \in DOMAIN disk /\ TidySoFar(k)
    BY DEF CheckoutInv, JobInv
  <1>. USE DEF Go, KeepsUpstream, IsJob, IsDisk, TidySoFar, At, Made, Probing
  <1>1. CASE BeginJob(k)
    BY <1>1 DEF BeginJob, Refused
  <1>2. CASE ClearPath(k)
    BY <1>2 DEF ClearPath, NoDisk
  <1>3. CASE ClearPathFails(k)
    BY <1>3 DEF ClearPathFails
  <1>4. CASE TakeAskedRef(k)
    BY <1>4 DEF TakeAskedRef
  <1>5. CASE RefuseUrl(k)
    BY <1>5 DEF RefuseUrl
  <1>6. CASE ReadSymbolicRef(k)
    BY <1>6 DEF ReadSymbolicRef
  <1>7. CASE ListLocal(k)
    BY <1>7 DEF ListLocal
  <1>8. CASE MakeProbe(k)
    BY <1>8 DEF MakeProbe
  <1>9. CASE OpenProbe(k)
    BY <1>9 DEF OpenProbe
  <1>10. CASE Connect(k)
    BY <1>10 DEF Connect
  <1>11. CASE ConnectFails(k)
    BY <1>11 DEF ConnectFails
  <1>12. CASE RemoveProbe(k)
    BY <1>12 DEF RemoveProbe
  <1>13. CASE Initialise(k)
    BY <1>13 DEF Initialise
  <1>14. CASE Fetch(k)
    BY <1>14 DEF Fetch
  <1>15. CASE CheckOut(k)
    BY <1>15 DEF CheckOut
  <1>16. CASE ReadHead(k)
    BY <1>16 DEF ReadHead
  <1>17. CASE JobFails(k)
    BY <1>17 DEF JobFails
  <1>18. CASE CleanUp(k)
    BY <1>18 DEF CleanUp, NoDisk
  <1>. QED
    BY <1>1, <1>2, <1>3, <1>4, <1>5, <1>6, <1>7, <1>8, <1>9, <1>10, <1>11, <1>12, <1>13, <1>14, <1>15, <1>16, <1>17, <1>18 DEF JobStep

LEMMA JobStepKnows ==
  ASSUME CheckoutInv, NEW k \in Jobs, JobStep(k)
  PROVE  KnownSoFar(k)'
  <1>. IsJob(job[k]) /\ IsDisk(disk[k]) /\ k \in DOMAIN job /\ k \in DOMAIN disk
       /\ k \in DOMAIN seen /\ TidySoFar(k) /\ KnownSoFar(k)
    BY DEF CheckoutInv, JobInv
  <1>. AskedRef(k)' = AskedRef(k)
    BY JobStepFrame, JobStepKeepsRecords DEF AskedRef
  <1>. USE DEF Go, KeepsUpstream, IsJob, IsDisk, At, Made, Probing, KnownSoFar, RefIsGenuine, JobUnderWay
  <1>1. CASE BeginJob(k)
    BY <1>1 DEF BeginJob, Refused, TidySoFar
  <1>2. CASE ClearPath(k)
    BY <1>2 DEF ClearPath, NoDisk
  <1>3. CASE ClearPathFails(k)
    BY <1>3 DEF ClearPathFails
  <1>4. CASE TakeAskedRef(k)
    BY <1>4 DEF TakeAskedRef
  <1>5. CASE RefuseUrl(k)
    BY <1>5 DEF RefuseUrl
  <1>6. CASE ReadSymbolicRef(k)
    BY <1>6 DEF ReadSymbolicRef
  <1>7. CASE ListLocal(k)
    BY <1>7 DEF ListLocal, TidySoFar
  <1>8. CASE MakeProbe(k)
    BY <1>8 DEF MakeProbe
  <1>9. CASE OpenProbe(k)
    BY <1>9 DEF OpenProbe
  <1>10. CASE Connect(k)
    BY <1>10 DEF Connect, DefaultBranch
  <1>11. CASE ConnectFails(k)
    BY <1>11 DEF ConnectFails
  <1>12. CASE RemoveProbe(k)
    BY <1>12 DEF RemoveProbe, TidySoFar
  <1>13. CASE Initialise(k)
    BY <1>13 DEF Initialise
  <1>14. CASE Fetch(k)
    BY <1>14 DEF Fetch
  <1>15. CASE CheckOut(k)
    BY <1>15 DEF CheckOut
  <1>16. CASE ReadHead(k)
    BY <1>16 DEF ReadHead, CurrentHead
  <1>17. CASE JobFails(k)
    BY <1>17 DEF JobFails
  <1>18. CASE CleanUp(k)
    BY <1>18 DEF CleanUp, NoDisk
  <1>. QED
    BY <1>1, <1>2, <1>3, <1>4, <1>5, <1>6, <1>7, <1>8, <1>9, <1>10, <1>11, <1>12, <1>13, <1>14, <1>15, <1>16, <1>17, <1>18 DEF JobStep

LEMMA JobStepLists ==
  ASSUME CheckoutInv, NEW k \in Jobs, JobStep(k)
  PROVE  ListedSoFar(k)'
  <1>. /\ IsJob(job[k]) /\ k \in DOMAIN job /\ TidySoFar(k) /\ KnownSoFar(k)
       /\ ListedSoFar(k)
    BY DEF CheckoutInv, JobInv
  <1>. USE DEF Go, KeepsUpstream, IsJob, At, JobUnderWay, ListedSoFar
  <1>1. CASE BeginJob(k)
    BY <1>1 DEF BeginJob
  <1>2. CASE ClearPath(k) \/ ClearPathFails(k) \/ RefuseUrl(k)
    BY <1>2 DEF ClearPath, ClearPathFails, RefuseUrl
  <1>3. CASE TakeAskedRef(k) \/ MakeProbe(k) \/ OpenProbe(k) \/ ConnectFails(k)
    BY <1>3 DEF TakeAskedRef, MakeProbe, OpenProbe, ConnectFails
  <1>4. CASE ReadSymbolicRef(k)
    BY <1>4 DEF ReadSymbolicRef, KnownSoFar
  <1>5. CASE ListLocal(k)
    <2>. DEFINE answer == Prioritised(SortedBranches(upstream), job[k].ref)
    <2>1. PICK v \in seen[k] : SymbolicRef(v) = job[k].ref
      BY <1>5 DEF ListLocal, TidySoFar
    <2>2. /\ upstream \in seen[k] /\ seen' = seen
          /\ job'[k].answer.branches = answer
      BY <1>5 DEF ListLocal, KnownSoFar
    <2>3. ListIsGenuine(k)'
      BY <2>1, <2>2, BranchesAreListed DEF ListIsGenuine, IsListing
    <2>. QED
      BY <1>5, <2>3 DEF ListLocal
  <1>6. CASE Connect(k)
    <2>. DEFINE answer == Prioritised(SortedBranches(upstream), SymbolicRef(upstream))
    <2>1. /\ upstream \in seen[k] /\ seen' = seen
          /\ job[k].op = "list" => job'[k].answer.branches = answer
      BY <1>6 DEF Connect, KnownSoFar, DefaultBranch
    <2>2. job[k].op = "list" => ListIsGenuine(k)'
      BY <2>1, BranchesAreListed DEF ListIsGenuine, IsListing
    <2>. QED
      BY <1>6, <2>2 DEF Connect
  <1>7. CASE RemoveProbe(k)
    <2>1. /\ seen' = seen /\ job'[k].answer = job[k].answer
          /\ job'[k].op = job[k].op /\ At(k, "unprobing")
          /\ job[k].op = "list" /\ At(k, "done")' => job[k].ok
      BY <1>7 DEF RemoveProbe
    <2>2. ListIsGenuine(k) => ListIsGenuine(k)'
      BY <2>1 DEF ListIsGenuine
    <2>. QED
      BY <1>7, <2>1, <2>2 DEF RemoveProbe
  <1>8. CASE Initialise(k) \/ Fetch(k) \/ CheckOut(k) \/ ReadHead(k)
    <2>1. job[k].op # "list"
      BY <1>8 DEF Initialise, Fetch, CheckOut, ReadHead, TidySoFar, Made
    <2>2. job'[k].op = job[k].op
      BY JobStepKeepsRecords
    <2>. QED
      BY <2>1, <2>2
  <1>9. CASE JobFails(k) \/ CleanUp(k)
    <2>1. job' = [job EXCEPT ![k].step = "failing"] \/ job' = [job EXCEPT ![k].step = "failed"]
      BY <1>9 DEF JobFails, CleanUp
    <2>. QED
      BY <2>1
  <1>. QED
    BY <1>1, <1>2, <1>3, <1>4, <1>5, <1>6, <1>7, <1>8, <1>9 DEF JobStep

LEMMA CheckoutStep ==
  ASSUME CheckoutInv, [CheckoutNext]_checkoutVars
  PROVE  CheckoutInv'
  <1>1. CASE UNCHANGED checkoutVars
    <2>1. ASSUME NEW j \in Jobs
          PROVE  JobInv(j)'
      BY <1>1, JobStays DEF CheckoutInv, checkoutVars, JobInv, KnownSoFar
    <2>. QED
      BY <1>1, <2>1 DEF CheckoutInv, checkoutVars
  <1>2. ASSUME NEW k \in Jobs, JobStep(k)
        PROVE  CheckoutInv'
    <2>1. JobInv(k)'
      BY <1>2, JobStepKeepsRecords, JobStepIsTidy, JobStepKnows, JobStepLists DEF JobInv
    <2>2. ASSUME NEW j \in Jobs \ {k}
          PROVE  JobInv(j)'
      <3>1. JobInv(j) /\ (JobUnderWay(j) => upstream \in seen[j])
        BY DEF CheckoutInv, JobInv, KnownSoFar
      <3>. QED
        BY <1>2, <3>1, JobStepFrame, JobStays
    <2>. QED
      BY <1>2, <2>1, <2>2, JobStepFrame DEF CheckoutInv
  <1>3. ASSUME NEW b \in Branches, Push(b) \/ DeleteBranch(b) \/ SwitchHead(b)
        PROVE  CheckoutInv'
    BY <1>3, UpstreamStep DEF Push, DeleteBranch, SwitchHead
  <1>4. CASE DetachHead
    BY <1>4, UpstreamStep DEF DetachHead
  <1>. QED
    BY <1>1, <1>2, <1>3, <1>4 DEF CheckoutNext

(* Once a task is over there is a checkout if and only if it reports one,  *)
(* and no probe repository, whichever step failed - but for directories    *)
(* that could not be removed, and a probe in which no repository could be  *)
(* made (prepare_checkout_sync, with_probe_repository).                    *)
THEOREM CheckoutsRemain == CheckoutSpec => []OnlyCheckoutsRemain
  <1>1. CheckoutInit => CheckoutInv
    BY CheckoutInitially
  <1>2. CheckoutInv /\ [CheckoutNext]_checkoutVars => CheckoutInv'
    BY CheckoutStep
  <1>3. CheckoutInv => OnlyCheckoutsRemain
    BY InvMeansGenuine
  <1>. QED
    BY <1>1, <1>2, <1>3, PTL DEF CheckoutSpec

(* What is reported was so, though the upstream changes between the steps  *)
(* of a task: a checkout is of the ref that was asked for, or of one HEAD  *)
(* was at meanwhile, and its tree is the commit that is reported, which    *)
(* the ref was at meanwhile; a list holds once each branch that was there  *)
(* at a moment, and the one HEAD was at first (fetch_workspace_checkout,   *)
(* list_remote_workspace_branches, list_local_workspace_branches).         *)
THEOREM TasksReportWhatWas == CheckoutSpec => []ReportsAreGenuine
  <1>1. CheckoutInit => CheckoutInv
    BY CheckoutInitially
  <1>2. CheckoutInv /\ [CheckoutNext]_checkoutVars => CheckoutInv'
    BY CheckoutStep
  <1>3. CheckoutInv => ReportsAreGenuine
    BY InvMeansGenuine
  <1>. QED
    BY <1>1, <1>2, <1>3, PTL DEF CheckoutSpec

-----------------------------------------------------------------------------
(* Agent profiles.                                                         *)

ProfileTables == [Profiles -> Names \cup {None}]

ProfileRequests ==
  [stage : {"idle", "sent", "writing", "answered"},
   kind : {"list", "create", "save", "delete"}, own : BOOLEAN,
   on : Profiles \cup {None}, name : Names \cup {None}, ok : BOOLEAN,
   list : ProfileTables]

(* Every table, the lock and every request has its type, and a request     *)
(* that changes a profile carries the name the change is about.            *)
ProfilesTypeOK ==
  /\ memory \in ProfileTables
  /\ file \in ProfileTables
  /\ promised \in [Profiles -> Names \cup {None, Unsure}]
  /\ holder \in Requests \cup {None}
  /\ pending \in [Requests -> ProfileRequests]

(* The lock is held by the one request that writes, and what it writes is  *)
(* what the profiles are in memory.                                        *)
WriterHoldsTheLock ==
  \A r \in Requests :
    /\ holder = r <=> pending[r].stage = "writing"
    /\ pending[r].stage = "writing" =>
         pending[r].on \in Profiles /\ pending[r].list = memory

(* The file keeps what was confirmed; memory has it too, but for the one   *)
(* profile that is being written.                                          *)
ConfirmedAreKept ==
  \A p \in Profiles :
    promised[p] # Unsure =>
      /\ file[p] = promised[p]
      /\ \/ memory[p] = promised[p]
         \/ \E r \in Requests : holder = r /\ pending[r].on = p

ProfilesInv == ProfilesTypeOK /\ WriterHoldsTheLock /\ ConfirmedAreKept

(* No request is under way for nobody.                                     *)
LEMMA ProfileRequestFacts ==
  ASSUME AgentProfilesAssumption
  PROVE  /\ NoProfiles \in ProfileTables
         /\ NoRequest \in ProfileRequests
         /\ NoRequest.stage = "idle"
         /\ None \notin Requests
BY DEF NoProfiles, ProfileTables, NoRequest, ProfileRequests, AgentProfilesAssumption

(* A request is sent as a request, and not one that writes.                *)
LEMMA SentIsARequest ==
  ASSUME AgentProfilesAssumption,
         NEW kind \in {"list", "create", "save", "delete"},
         NEW p \in Profiles \cup {None}, NEW n \in Names \cup {None}, NEW own \in BOOLEAN
  PROVE  /\ Sent(kind, p, n, own) \in ProfileRequests
         /\ Sent(kind, p, n, own).stage = "sent"
BY ProfileRequestFacts DEF Sent, NoRequest, ProfileRequests

(* A step of requests that do not write, before or after it, and that      *)
(* leaves the tables and the lock alone, keeps the invariant.              *)
LEMMA OthersLeaveTheTables ==
  ASSUME ProfilesInv, UNCHANGED <<memory, file, promised, holder>>,
         pending' \in [Requests -> ProfileRequests],
         \A r \in Requests :
           \/ /\ pending[r].stage # "writing"
              /\ pending'[r].stage # "writing"
           \/ /\ pending'[r].stage = pending[r].stage
              /\ pending'[r].on = pending[r].on
              /\ pending'[r].list = pending[r].list
  PROVE  ProfilesInv'
<1>1. \A r \in Requests : holder = r => pending[r].stage = "writing"
  BY DEF ProfilesInv, WriterHoldsTheLock
<1>2. \A r \in Requests :
        /\ pending'[r].stage = "writing" <=> pending[r].stage = "writing"
        /\ pending[r].stage = "writing" =>
             pending'[r].on = pending[r].on /\ pending'[r].list = pending[r].list
  OBVIOUS
<1>3. ProfilesTypeOK'
  BY DEF ProfilesInv, ProfilesTypeOK
<1>4. WriterHoldsTheLock'
  BY <1>2 DEF ProfilesInv, WriterHoldsTheLock
<1>5. ConfirmedAreKept'
  BY <1>1, <1>2 DEF ProfilesInv, ConfirmedAreKept
<1> QED
  BY <1>3, <1>4, <1>5 DEF ProfilesInv

(* The same for one request that is replaced.                              *)
LEMMA OneReplaced ==
  ASSUME ProfilesInv, UNCHANGED <<memory, file, promised, holder>>,
         NEW r \in Requests, NEW q \in ProfileRequests,
         pending' = [pending EXCEPT ![r] = q],
         pending[r].stage # "writing", q.stage # "writing"
  PROVE  ProfilesInv'
<1>1. /\ pending' \in [Requests -> ProfileRequests]
      /\ \A s \in Requests : s # r => pending'[s] = pending[s]
      /\ pending'[r] = q
  BY DEF ProfilesInv, ProfilesTypeOK
<1> QED
  BY <1>1, OthersLeaveTheTables

(* An answer is a request that does not write.                             *)
LEMMA AnAnswer ==
  ASSUME AgentProfilesAssumption, pending \in [Requests -> ProfileRequests],
         NEW r \in Requests, NEW ok \in BOOLEAN, NEW list \in ProfileTables,
         Answered(r, ok, list)
  PROVE  \E q \in ProfileRequests : /\ pending' = [pending EXCEPT ![r] = q]
                                    /\ q.stage # "writing"
<1> DEFINE a == [pending[r] EXCEPT !.stage = "answered", !.ok = ok, !.list = list]
<1>1. pending[r] \in ProfileRequests
  OBVIOUS
<1>2. a \in ProfileRequests /\ a.stage # "writing"
  BY <1>1 DEF ProfileRequests
<1>3. CASE pending[r].own
  BY <1>2, <1>3 DEF Answered
<1>4. CASE ~pending[r].own
  BY <1>4, ProfileRequestFacts DEF Answered
<1> QED
  BY <1>3, <1>4

(* Stores, the page and the requests start empty.                          *)
LEMMA ProfilesBegin ==
  ASSUME AgentProfilesAssumption, AgentProfilesInit
  PROVE  ProfilesInv
<1>1. ProfilesTypeOK
  BY ProfileRequestFacts DEF AgentProfilesInit, ProfilesTypeOK, NoProfiles
<1>2. WriterHoldsTheLock
  BY ProfileRequestFacts DEF AgentProfilesInit, WriterHoldsTheLock
<1>3. ConfirmedAreKept
  BY DEF AgentProfilesInit, ConfirmedAreKept
<1> QED
  BY <1>1, <1>2, <1>3 DEF ProfilesInv

(* What the page does, and what another administrator sends.               *)
LEMMA PagesKeepTheProfiles ==
  ASSUME AgentProfilesAssumption, ProfilesInv, NEW r \in Requests,
         PageStep(r) \/ Elsewhere(r)
  PROVE  ProfilesInv'
<1>0. pending \in [Requests -> ProfileRequests]
  BY DEF ProfilesInv, ProfilesTypeOK
<1>1. CASE Visit(r)
  <2> DEFINE next(d) == IF d = r THEN Sent("list", None, None, TRUE)
                        ELSE IF pending[d].stage = "answered" THEN NoRequest
                        ELSE [pending[d] EXCEPT !.own = FALSE]
  <2>1. /\ Sent("list", None, None, TRUE) \in ProfileRequests
        /\ Sent("list", None, None, TRUE).stage = "sent"
    BY SentIsARequest
  <2>2. ASSUME NEW d \in Requests
        PROVE  /\ next(d) \in ProfileRequests
               /\ \/ pending[d].stage # "writing" /\ next(d).stage # "writing"
                  \/ /\ next(d).stage = pending[d].stage /\ next(d).on = pending[d].on
                     /\ next(d).list = pending[d].list
    <3>1. CASE d = r
      BY <1>1, <2>1, <3>1, ProfileRequestFacts DEF Visit
    <3>2. CASE d # r /\ pending[d].stage = "answered"
      BY <3>2, ProfileRequestFacts
    <3>3. CASE d # r /\ pending[d].stage # "answered"
      <4>1. pending[d] \in ProfileRequests
        BY <1>0
      <4> QED
        BY <3>3, <4>1 DEF ProfileRequests
    <3> QED
      BY <3>1, <3>2, <3>3
  <2>3. pending' = [d \in Requests |-> next(d)]
    BY <1>1 DEF Visit
  <2> HIDE DEF next
  <2>4. /\ pending' \in [Requests -> ProfileRequests]
        /\ \A d \in Requests : pending'[d] = next(d)
    BY <2>2, <2>3
  <2> QED
    BY <1>1, <2>2, <2>4, OthersLeaveTheTables DEF Visit
<1>2. ASSUME NEW kind \in {"create", "save", "delete"}, NEW p \in Profiles \cup {None},
             NEW n \in Names \cup {None}, NEW own \in BOOLEAN,
             pending[r] = NoRequest,
             pending' = [pending EXCEPT ![r] = Sent(kind, p, n, own)],
             UNCHANGED <<memory, file, holder, promised>>
      PROVE  ProfilesInv'
  <2>1. Sent(kind, p, n, own) \in ProfileRequests /\ Sent(kind, p, n, own).stage = "sent"
    BY SentIsARequest
  <2> QED
    BY <1>2, <2>1, ProfileRequestFacts, OneReplaced
<1>3. CASE \E n \in Names : Create(r, n)
  BY <1>2, <1>3 DEF Create, Send
<1>4. CASE \E p \in Profiles, n \in Names : Save(r, p, n)
  BY <1>2, <1>4 DEF Save, Send
<1>5. CASE \E p \in Profiles : Delete(r, p)
  BY <1>2, <1>5 DEF Delete, Send
<1>6. CASE Elsewhere(r)
  BY <1>2, <1>6 DEF Elsewhere, SendElsewhere
<1>7. ASSUME NEW q \in ProfileRequests, q.stage # "writing",
             pending[r].stage = "answered", pending' = [pending EXCEPT ![r] = q],
             UNCHANGED <<memory, file, holder, promised>>
      PROVE  ProfilesInv'
  BY <1>7, OneReplaced
<1>8. CASE Created(r)
  BY <1>7, <1>8, SentIsARequest DEF Created, Hears
<1>9. CASE Loaded(r) \/ LoadFailed(r) \/ Saved(r) \/ Deleted(r) \/ ChangeFailed(r)
  <2>1. /\ pending[r].stage = "answered" /\ pending' = [pending EXCEPT ![r] = NoRequest]
        /\ UNCHANGED <<memory, file, holder, promised>>
    BY <1>9 DEF Loaded, LoadFailed, Saved, Deleted, ChangeFailed, Hears, Finish
  <2> QED
    BY <1>7, <2>1, ProfileRequestFacts
<1> QED
  BY <1>1, <1>3, <1>4, <1>5, <1>6, <1>8, <1>9 DEF PageStep

(* A change is made in memory under the lock.                              *)
LEMMA ChangesAreApplied ==
  ASSUME AgentProfilesAssumption, ProfilesInv, NEW r \in Requests, NEW p \in Profiles,
         Apply(r, p)
  PROVE  ProfilesInv'
<1>1. /\ pending[r] \in ProfileRequests /\ pending \in [Requests -> ProfileRequests]
      /\ holder = None /\ holder' = r /\ memory \in ProfileTables
      /\ UNCHANGED <<file, promised>>
      /\ pending[r].kind \in {"create", "save", "delete"}
  BY DEF ProfilesInv, ProfilesTypeOK, Apply, AtServer
<1>2. \E n \in Names \cup {None} : memory' = [memory EXCEPT ![p] = n]
  <2>1. pending[r].name \in Names \cup {None}
    BY <1>1 DEF ProfileRequests
  <2> QED
    BY <1>1, <2>1 DEF Apply, Change
<1>3. memory' \in ProfileTables /\ \A q \in Profiles : q # p => memory'[q] = memory[q]
  BY <1>1, <1>2 DEF ProfileTables
<1>4. PICK n \in ProfileTables : n = memory'
  BY <1>3
<1> DEFINE w == [pending[r] EXCEPT !.stage = "writing", !.on = p, !.list = n]
<1>5. w \in ProfileRequests /\ w.stage = "writing" /\ w.on = p /\ w.list = n
  BY <1>1 DEF ProfileRequests
<1>6. pending' = [pending EXCEPT ![r] = w]
  BY <1>1, <1>4 DEF Apply, ProfileRequests
<1> HIDE DEF w
<1>7. /\ pending' \in [Requests -> ProfileRequests] /\ pending'[r] = w
      /\ \A s \in Requests : s # r => pending'[s] = pending[s]
  BY <1>1, <1>5, <1>6
<1>8. ProfilesTypeOK'
  BY <1>1, <1>3, <1>7 DEF ProfilesInv, ProfilesTypeOK
<1>9. \A s \in Requests : pending[s].stage # "writing"
  BY <1>1, ProfileRequestFacts DEF ProfilesInv, WriterHoldsTheLock
<1>10. WriterHoldsTheLock'
  BY <1>1, <1>4, <1>5, <1>7, <1>9 DEF WriterHoldsTheLock
<1>11. ConfirmedAreKept'
  BY <1>1, <1>3, <1>5, <1>7, ProfileRequestFacts DEF ProfilesInv, ConfirmedAreKept
<1> QED
  BY <1>8, <1>10, <1>11 DEF ProfilesInv

(* The file is written, or not, and the lock released.                     *)
LEMMA WritesEnd ==
  ASSUME AgentProfilesAssumption, ProfilesInv, NEW r \in Requests,
         WriteProfiles(r) \/ WriteFails(r)
  PROVE  ProfilesInv'
<1>1. /\ pending \in [Requests -> ProfileRequests] /\ pending[r].stage = "writing"
      /\ pending[r].on \in Profiles /\ pending[r].list = memory
      /\ holder = r /\ holder' = None /\ UNCHANGED memory
      /\ memory \in ProfileTables
      /\ promised \in [Profiles -> Names \cup {None, Unsure}]
  BY DEF ProfilesInv, ProfilesTypeOK, WriterHoldsTheLock, WriteProfiles, WriteFails
<1>2. PICK q \in ProfileRequests : pending' = [pending EXCEPT ![r] = q] /\ q.stage # "writing"
  BY <1>1, AnAnswer, ProfileRequestFacts DEF WriteProfiles, WriteFails
<1>3. /\ pending' \in [Requests -> ProfileRequests] /\ pending'[r] = q
      /\ \A s \in Requests : s # r => pending'[s] = pending[s]
  BY <1>1, <1>2
<1>4. WriterHoldsTheLock'
  <2>1. \A s \in Requests : pending'[s].stage # "writing"
    BY <1>1, <1>2, <1>3 DEF ProfilesInv, WriterHoldsTheLock
  <2> QED
    BY <1>1, <2>1, ProfileRequestFacts DEF WriterHoldsTheLock
<1>5. \A p \in Profiles : p # pending[r].on /\ promised[p] # Unsure =>
        memory[p] = promised[p] /\ file[p] = promised[p]
  BY <1>1 DEF ProfilesInv, ConfirmedAreKept
<1>6. CASE WriteProfiles(r)
  <2>1. file' = memory /\ promised' = [promised EXCEPT ![pending[r].on] = memory[pending[r].on]]
    BY <1>1, <1>6 DEF WriteProfiles
  <2>2. ProfilesTypeOK'
    BY <1>1, <1>3, <2>1 DEF ProfilesTypeOK, ProfileTables
  <2>3. \A p \in Profiles : promised'[p] # Unsure => memory[p] = promised'[p]
    BY <1>1, <1>5, <2>1
  <2>4. ConfirmedAreKept'
    BY <1>1, <2>1, <2>3 DEF ConfirmedAreKept
  <2> QED
    BY <1>4, <2>2, <2>4 DEF ProfilesInv
<1>7. CASE WriteFails(r)
  <2>1. UNCHANGED file /\ promised' = [promised EXCEPT ![pending[r].on] = Unsure]
    BY <1>7 DEF WriteFails
  <2>2. ProfilesTypeOK'
    BY <1>1, <1>3, <2>1 DEF ProfilesInv, ProfilesTypeOK
  <2>3. ConfirmedAreKept'
    BY <1>1, <1>5, <2>1 DEF ConfirmedAreKept
  <2> QED
    BY <1>4, <2>2, <2>3 DEF ProfilesInv
<1> QED
  BY <1>6, <1>7

(* The backend is back with what the file holds.                           *)
LEMMA RestartsKeepTheFile ==
  ASSUME AgentProfilesAssumption, ProfilesInv, Restart
  PROVE  ProfilesInv'
<1>1. /\ pending \in [Requests -> ProfileRequests] /\ memory' = file /\ holder' = None
      /\ UNCHANGED <<file, promised>>
  BY DEF ProfilesInv, ProfilesTypeOK, Restart
<1> DEFINE next(d) == IF pending[d].stage \notin {"sent", "writing"} THEN pending[d]
                      ELSE IF ~pending[d].own THEN NoRequest
                      ELSE [pending[d] EXCEPT !.stage = "answered", !.list = NoProfiles]
<1>2. ASSUME NEW d \in Requests
      PROVE  next(d) \in ProfileRequests /\ next(d).stage # "writing"
  <2>1. pending[d] \in ProfileRequests
    BY <1>1
  <2>2. CASE pending[d].stage \notin {"sent", "writing"}
    BY <2>1, <2>2
  <2>3. CASE pending[d].stage \in {"sent", "writing"} /\ ~pending[d].own
    BY <2>3, ProfileRequestFacts
  <2>4. CASE pending[d].stage \in {"sent", "writing"} /\ pending[d].own
    BY <2>1, <2>4, ProfileRequestFacts DEF ProfileRequests
  <2> QED
    BY <2>2, <2>3, <2>4
<1>3. pending' = [d \in Requests |-> next(d)]
  BY DEF Restart
<1> HIDE DEF next
<1>4. /\ pending' \in [Requests -> ProfileRequests]
      /\ \A d \in Requests : pending'[d].stage # "writing"
  BY <1>2, <1>3
<1>5. ProfilesTypeOK' /\ WriterHoldsTheLock'
  BY <1>1, <1>4, ProfileRequestFacts DEF ProfilesInv, ProfilesTypeOK, WriterHoldsTheLock
<1>6. ConfirmedAreKept'
  BY <1>1 DEF ProfilesInv, ConfirmedAreKept
<1> QED
  BY <1>5, <1>6 DEF ProfilesInv

(* The types, the lock and what was confirmed carry each other.            *)
THEOREM ProfilesInvariant == AgentProfilesSpec => []ProfilesInv
<1>1. AgentProfilesInit => ProfilesInv
  BY ProfilesBegin, AgentProfilesAssumption
<1>2. ProfilesInv /\ [AgentProfilesNext]_agentProfilesVars => ProfilesInv'
  <2> SUFFICES ASSUME ProfilesInv, [AgentProfilesNext]_agentProfilesVars
               PROVE  ProfilesInv'
    OBVIOUS
  <2>1. ASSUME NEW r \in Requests, PageStep(r) \/ Elsewhere(r) PROVE ProfilesInv'
    BY <2>1, PagesKeepTheProfiles, AgentProfilesAssumption
  <2>2. ASSUME NEW r \in Requests, NEW p \in Profiles, Apply(r, p) PROVE ProfilesInv'
    BY <2>2, ChangesAreApplied, AgentProfilesAssumption
  <2>3. ASSUME NEW r \in Requests, WriteProfiles(r) \/ WriteFails(r) PROVE ProfilesInv'
    BY <2>3, WritesEnd, AgentProfilesAssumption
  <2>4. ASSUME NEW r \in Requests, ServeList(r) \/ Refuse(r) PROVE ProfilesInv'
    <3>1. pending \in [Requests -> ProfileRequests] /\ memory \in ProfileTables
      BY DEF ProfilesInv, ProfilesTypeOK
    <3>2. NoProfiles \in ProfileTables
      BY ProfileRequestFacts, AgentProfilesAssumption
    <3>3. \E q \in ProfileRequests : pending' = [pending EXCEPT ![r] = q] /\ q.stage # "writing"
      BY <2>4, <3>1, <3>2, AnAnswer, AgentProfilesAssumption DEF ServeList, Refuse
    <3> QED
      BY <2>4, <3>3, OneReplaced DEF ServeList, Refuse, AtServer
  <2>5. ASSUME NEW r \in Requests, LoseAnswer(r) PROVE ProfilesInv'
    <3> DEFINE q == [pending[r] EXCEPT !.ok = FALSE, !.list = NoProfiles]
    <3>1. /\ pending[r] \in ProfileRequests
          /\ pending[r].stage = "answered"
          /\ pending' = [pending EXCEPT ![r] = q]
      BY <2>5 DEF ProfilesInv, ProfilesTypeOK, LoseAnswer, ProfileRequests
    <3>2. q \in ProfileRequests /\ q.stage # "writing"
      BY <3>1, ProfileRequestFacts, AgentProfilesAssumption DEF ProfileRequests
    <3> QED
      BY <2>5, <3>1, <3>2, OneReplaced DEF LoseAnswer
  <2>6. CASE Restart
    BY <2>6, RestartsKeepTheFile, AgentProfilesAssumption
  <2>7. CASE UNCHANGED agentProfilesVars
    BY <2>7 DEF agentProfilesVars, ProfilesInv, ProfilesTypeOK, WriterHoldsTheLock,
       ConfirmedAreKept
  <2> QED
    BY <2>1, <2>2, <2>3, <2>4, <2>5, <2>6, <2>7 DEF AgentProfilesNext, BackendStep
<1> QED
  BY <1>1, <1>2, PTL DEF AgentProfilesSpec

(* What a confirmed change left of a profile is in the file, and in memory *)
(* whenever nothing is being written, until the next change of it: changes *)
(* written later, writes that fail and restarts do not undo it.            *)
THEOREM ConfirmedChangesSurvive == AgentProfilesSpec => []ConfirmedProfilesSurvive
<1>1. ProfilesInv => ConfirmedProfilesSurvive
  BY ProfileRequestFacts, AgentProfilesAssumption
  DEF ProfilesInv, ConfirmedAreKept, ConfirmedProfilesSurvive
<1> QED
  BY <1>1, ProfilesInvariant, PTL

===============================================================================
