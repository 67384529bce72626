--------------------------- MODULE ServerProcess ---------------------------
(***************************************************************************)
(* The life of the backend's process: runtime.rs (start, readiness),       *)
(* server/connection.rs (the accept loop and its end), and the database    *)
(* connections its requests open (workspace_store.rs), over the files      *)
(* StoreSchema describes.                                                  *)
(*                                                                         *)
(* stage:  down -> bound -> opened -> built -> serving <-> backing         *)
(*          ^                                     \-> draining -> returned *)
(*          +------------------------------------------------------+       *)
(*                                                                         *)
(* A connection is a task of the server's JoinSet; what a request does to  *)
(* the store runs on a blocking thread, which neither a departing client   *)
(* nor abort_all stops, and for which the runtime waits before it ends.    *)
(* The process may be killed at any time, and the database file deleted    *)
(* under it.  TLS and HTTP are left out but for the points at which a      *)
(* connection waits.                                                       *)
(***************************************************************************)
EXTENDS StoreSchema

CONSTANTS
  Connections,           (* the connections there are at one time          *)
  Origins,               (* the database files the first start may find    *)
  MaxAcceptErrors,       (* MAX_CONSECUTIVE_TRANSIENT_ACCEPT_ERRORS        *)
  MaxProbes,             (* READY_CHECK_ATTEMPTS                           *)
  MaxStarts,             (* bound: how often the process is started        *)
  MaxRemovals            (* bound: how often the file is deleted           *)

ASSUME ProcessAssumption ==
  /\ Origins \subseteq EarlierDatabases
  /\ {MaxAcceptErrors, MaxProbes, MaxStarts, MaxRemovals} \subseteq Nat

VARIABLES
  file,      (* what is at the path of the database                        *)
  owed,      (* history: the sign-ins and accounts the first file held     *)
  ended,     (* history: the sign-ins that were ended since                *)
  removals,  (* how often the file was deleted                             *)
  starts,    (* how often the process was started                          *)
  stage,     (* where run() and serve_with_shutdown are                    *)
  outcome,   (* how the last start ended                                   *)
  ready,     (* the readiness probes                                       *)
  errors,    (* consecutive_transient_accept_errors                        *)
  signal,    (* the shutdown future has resolved                           *)
  connection,(* the tasks of the JoinSet                                   *)
  task       (* the blocking tasks their requests started                  *)

storeVars == <<file, owed, ended, removals>>
loopVars == <<starts, stage, outcome, ready, errors, signal>>
processVars == <<storeVars, loopVars, connection, task>>

-----------------------------------------------------------------------------
Stages == {"down", "bound", "opened", "built", "serving", "backing",
           "draining", "returned"}
Outcomes == {"none", "ok", "failed", "refused"}
Phases == {"none", "handshake", "idle", "busy", "streaming"}

NoTask == [step |-> "none", needsSchema |-> FALSE, linked |-> TRUE,
           hasSchema |-> FALSE]
Tasks == [step : {"none", "inspected", "opened", "ready"},
          needsSchema : BOOLEAN, linked : BOOLEAN, hasSchema : BOOLEAN]

NoConnections == [c \in Connections |-> [phase |-> "none", told |-> FALSE]]
NoTasks == [c \in Connections |-> NoTask]

Serving == stage \in {"serving", "backing", "draining"}
Quiet == \A c \in Connections : connection[c].phase = "none"

(* database_file_needs_schema                                              *)
NeedsSchema == file \in {Missing, Blank}

(* What the first file holds: the sign-ins of its accounts, and the        *)
(* accounts with the hash and the role each ought to have.                 *)
Owed(db) ==
  IF db = Missing
  THEN [signIns |-> {}, accounts |-> {}]
  ELSE
  LET old == IF db.accounts = NoAccounts THEN <<>> ELSE db.accounts.rows
      present == IF db.users = NoTable THEN {}
                 ELSE {u \in db.users : u.principal[1] = "local_account"}
      names == {u.principal[2] : u \in present}
               \cup {old[i].name : i \in DOMAIN old}
      rows == IF db.signIns = NoTable THEN {} ELSE db.signIns
      holder(s) == IF "user" \in DOMAIN s THEN s.user[2] ELSE s.name
      noAdmin == \A i \in DOMAIN old : ~(db.accounts.flags /\ old[i].admin)
  IN [signIns |-> {<<s.token, holder(s)>> : s \in {s \in rows :
                                              holder(s) \in names}},
      accounts |->
        {<<u.principal[2], u.hash, u.admin>> : u \in present}
        \cup {<<old[i].name, "legacy",
                IF noAdmin THEN i = 1 ELSE old[i].admin>> :
                i \in {i \in DOMAIN old : \A u \in present :
                         u.principal[2] # old[i].name}}]

Collides(db) ==
  /\ db # Missing
  /\ db.signIns # NoTable /\ ~HasUserColumn(db.signIns)
  /\ db.staged # NoTable

ProcessInit ==
  /\ file \in Origins
  /\ owed = Owed(file)
  /\ ended = {}
  /\ removals = 0
  /\ starts = 0
  /\ stage = "down"
  /\ outcome = "none"
  /\ ready = 0
  /\ errors = 0
  /\ signal = FALSE
  /\ connection = NoConnections
  /\ task = NoTasks

-----------------------------------------------------------------------------
(* Starting.                                                               *)

(* bind_listener                                                           *)
Bind ==
  /\ stage = "down"
  /\ starts < MaxStarts
  /\ stage' = "bound"
  /\ starts' = starts + 1
  /\ outcome' = "none"
  /\ ready' = 0
  /\ errors' = 0
  /\ signal' = FALSE
  /\ UNCHANGED <<storeVars, connection, task>>

(* Opening the file makes an empty one where there is none.                *)
OpenFile ==
  /\ stage = "bound"
  /\ file' = IF file = Missing THEN Blank ELSE file
  /\ stage' = "opened"
  /\ UNCHANGED <<owed, ended, removals, starts, outcome, ready, errors,
                 signal, connection, task>>

(* SqliteWorkspaceRepository::initialize: all of it, or none.              *)
InitializeStore ==
  /\ stage = "opened"
  /\ file # Missing
  /\ IF InitializeSchema(file) = Refused
     THEN stage' = "returned" /\ outcome' = "refused" /\ file' = file
     ELSE stage' = "built" /\ outcome' = outcome
          /\ file' = InitializeSchema(file)
  /\ UNCHANGED <<owed, ended, removals, starts, ready, errors, signal,
                 connection, task>>

(* AppState::new, whose profile store may be unreadable.                   *)
StartServing ==
  /\ stage = "built"
  /\ \/ stage' = "serving" /\ outcome' = outcome
     \/ stage' = "returned" /\ outcome' = "failed"
  /\ UNCHANGED <<storeVars, starts, ready, errors, signal, connection, task>>

-----------------------------------------------------------------------------
(* run_service_with_readiness: the probes run beside the server.  When     *)
(* they are used up the server is dropped with its connections.            *)
ProbeFails ==
  /\ Serving
  /\ ready < MaxProbes
  /\ ready' = ready + 1
  /\ IF ready' = MaxProbes
     THEN /\ stage' = "returned"
          /\ outcome' = "failed"
          /\ connection' = NoConnections
     ELSE UNCHANGED <<stage, outcome, connection>>
  /\ UNCHANGED <<storeVars, starts, errors, signal, task>>

(* The startup line is printed; no probe follows.                          *)
ProbeSucceeds ==
  /\ Serving
  /\ ready < MaxProbes
  /\ ready' = MaxProbes + 1
  /\ UNCHANGED <<storeVars, starts, stage, outcome, errors, signal,
                 connection, task>>

-----------------------------------------------------------------------------
(* The accept loop.                                                        *)
Accept(c) ==
  /\ stage = "serving"
  /\ connection[c].phase = "none"
  /\ connection' = [connection EXCEPT ![c].phase = "handshake"]
  /\ errors' = 0
  /\ UNCHANGED <<storeVars, starts, stage, outcome, ready, signal, task>>

(* shutdown_connections, before the error is returned.                     *)
StopWith(result) == stage' = "draining" /\ outcome' = result

AcceptFailsTransiently ==
  /\ stage = "serving"
  /\ errors' = errors + 1
  /\ IF errors' > MaxAcceptErrors
     THEN StopWith("failed")
     ELSE stage' = "backing" /\ outcome' = outcome
  /\ UNCHANGED <<storeVars, starts, ready, signal, connection, task>>

AcceptFails ==
  /\ stage = "serving"
  /\ StopWith("failed")
  /\ UNCHANGED <<storeVars, starts, ready, errors, signal, connection, task>>

BackoffEnds ==
  /\ stage = "backing"
  /\ stage' = "serving"
  /\ UNCHANGED <<storeVars, starts, outcome, ready, errors, signal,
                 connection, task>>

(* --exit-after-ms runs out.                                               *)
ShutdownResolves ==
  /\ Serving
  /\ ~signal
  /\ signal' = TRUE
  /\ UNCHANGED <<storeVars, starts, stage, outcome, ready, errors,
                 connection, task>>

SeeShutdown ==
  /\ stage \in {"serving", "backing"}
  /\ signal
  /\ StopWith("ok")
  /\ UNCHANGED <<storeVars, starts, ready, errors, signal, connection, task>>

(* drain_connection_tasks: returns when the last connection has ended, or  *)
(* at its deadline with all of them aborted.                               *)
(* Faulty variant: no deadline.                                            *)
DrainPatiently ==
  /\ stage = "draining"
  /\ Quiet
  /\ connection' = NoConnections
  /\ stage' = "returned"
  /\ UNCHANGED <<storeVars, starts, outcome, ready, errors, signal, task>>

Drain ==
  /\ stage = "draining"
  /\ connection' = NoConnections
  /\ stage' = "returned"
  /\ UNCHANGED <<storeVars, starts, outcome, ready, errors, signal, task>>

-----------------------------------------------------------------------------
(* A connection.                                                           *)
Move(c, phase) == connection' = [connection EXCEPT ![c].phase = phase]

End(c) ==
  connection' = [connection EXCEPT ![c] = [phase |-> "none", told |-> FALSE]]

Handshake(c) ==
  /\ connection[c].phase = "handshake"
  /\ Move(c, "idle") \/ End(c)
  /\ UNCHANGED <<storeVars, loopVars, task>>

OpenStream(c) ==
  /\ connection[c].phase = "idle"
  /\ Move(c, "streaming")
  /\ UNCHANGED <<storeVars, loopVars, task>>

(* A client goes away; the task its request started does not.              *)
ClientLeaves(c) ==
  /\ connection[c].phase # "none"
  /\ End(c)
  /\ UNCHANGED <<storeVars, loopVars, task>>

(* The watch channel is only read after the handshake.  An idle connection *)
(* is closed, others finish what they do.                                  *)
NoticeShutdown(c) ==
  /\ stage = "draining"
  /\ connection[c].phase \in {"idle", "busy", "streaming"}
  /\ ~connection[c].told
  /\ IF connection[c].phase = "idle"
     THEN End(c)
     ELSE connection' = [connection EXCEPT ![c].told = TRUE]
  /\ UNCHANGED <<storeVars, loopVars, task>>

(* CONNECTION_SHUTDOWN_GRACE_PERIOD                                        *)
GraceEnds(c) ==
  /\ connection[c].told
  /\ End(c)
  /\ UNCHANGED <<storeVars, loopVars, task>>

-----------------------------------------------------------------------------
(* The database connection of a request: open_connection, then its work.   *)
Request(c) ==
  /\ connection[c].phase = "idle"
  /\ task[c] = NoTask
  /\ Move(c, "busy")
  /\ task' = [task EXCEPT ![c] = [NoTask EXCEPT !.step = "inspected",
                                                !.needsSchema = NeedsSchema]]
  /\ UNCHANGED <<storeVars, loopVars>>

OpenRawConnection(c) ==
  /\ task[c].step = "inspected"
  /\ file' = IF file = Missing THEN Blank ELSE file
  /\ task' = [task EXCEPT ![c].step = "opened"]
  /\ UNCHANGED <<owed, ended, removals, loopVars, connection>>

(* The schema of the file a task has open, wherever that file is.          *)
InitializeConnectionSchema(c) ==
  /\ IF task[c].linked
     THEN file' = InitializeSchema(file)
     ELSE file' = file
  /\ task' = [task EXCEPT ![c].step = "ready", ![c].hasSchema = TRUE]

(* Faulty variant: the file is looked at only before it is opened.         *)
PrepareAsInspected(c) ==
  /\ task[c].step = "opened"
  /\ IF task[c].needsSchema
     THEN InitializeConnectionSchema(c)
     ELSE /\ task' = [task EXCEPT ![c].step = "ready"]
          /\ file' = file
  /\ UNCHANGED <<owed, ended, removals, loopVars, connection>>

PrepareConnection(c) ==
  /\ task[c].step = "opened"
  /\ IF task[c].needsSchema \/ NeedsSchema
     THEN InitializeConnectionSchema(c)
     ELSE /\ task' = [task EXCEPT ![c].step = "ready"]
          /\ file' = file
  /\ UNCHANGED <<owed, ended, removals, loopVars, connection>>

FileHasSchema == file \notin {Missing, Blank}

TaskHasTables(t) == IF t.linked THEN FileHasSchema ELSE t.hasSchema

(* The work of a task, and its answer if somebody waits for it: a sign-out *)
(* (soft_delete_browser_session), a deleted account                        *)
(* (delete_local_account_in_transaction), or anything that leaves these    *)
(* alone, as does work on a file that was deleted.                         *)
Work(c, db) ==
  /\ task[c].step = "ready"
  /\ file' = IF task[c].linked THEN db ELSE file
  /\ task' = [task EXCEPT ![c] = NoTask]
  /\ IF connection[c].phase = "busy"
     THEN IF connection[c].told THEN End(c) ELSE Move(c, "idle")
     ELSE UNCHANGED connection
  /\ UNCHANGED <<owed, removals, loopVars>>

Answer(c) == Work(c, file) /\ UNCHANGED ended

OnTheFile(c) == task[c].step = "ready" /\ task[c].linked /\ FileHasSchema

SignOutWork(c, token) ==
  /\ OnTheFile(c)
  /\ Work(c, [file EXCEPT !.signIns =
       {[s EXCEPT !.deleted = @ \/ s.token = token] : s \in @}])
  /\ ended' = ended \cup {token}

DeleteAccountWork(c, name) ==
  LET principal == <<"local_account", name>>
      tokens == {s.token : s \in {s \in file.signIns : s.user = principal}}
  IN /\ OnTheFile(c)
     /\ ActiveAccount(file, name) # {}
     /\ Work(c, [file EXCEPT
          !.users = {IF u.principal = principal
                     THEN [u EXCEPT !.deleted = TRUE, !.hash = "none"]
                     ELSE u : u \in @},
          !.signIns = {[s EXCEPT !.deleted = @ \/ s.user = principal] :
                         s \in @}])
     /\ ended' = ended \cup tokens \cup {name}

-----------------------------------------------------------------------------
(* What happens to the process and its files.                              *)

(* The runtime ends once the blocking tasks have.                          *)
Exit ==
  /\ stage = "returned"
  /\ task = NoTasks
  /\ stage' = "down"
  /\ UNCHANGED <<storeVars, starts, outcome, ready, errors, signal,
                 connection, task>>

Kill ==
  /\ stage # "down"
  /\ stage' = "down"
  /\ connection' = NoConnections
  /\ task' = NoTasks
  /\ UNCHANGED <<storeVars, starts, outcome, ready, errors, signal>>

(* Somebody deletes the file.  Tasks that have it open keep it.            *)
DeleteFile ==
  /\ removals < MaxRemovals
  /\ stage \in {"serving", "backing"}
  /\ file # Missing
  /\ removals' = removals + 1
  /\ file' = Missing
  /\ task' = [c \in Connections |->
       IF task[c].step \in {"opened", "ready"} /\ task[c].linked
       THEN [task[c] EXCEPT !.linked = FALSE, !.hasSchema = FileHasSchema]
       ELSE task[c]]
  /\ UNCHANGED <<owed, ended, loopVars, connection>>

-----------------------------------------------------------------------------
ConnectionStep(c) ==
  \/ Accept(c)
  \/ Handshake(c)
  \/ OpenStream(c)
  \/ ClientLeaves(c)
  \/ NoticeShutdown(c)
  \/ GraceEnds(c)

TaskStep(c) ==
  \/ Request(c)
  \/ OpenRawConnection(c)
  \/ PrepareConnection(c)
  \/ Answer(c)
  \/ \E t \in Tokens : SignOutWork(c, t)
  \/ \E n \in Names : DeleteAccountWork(c, n)

ProcessNext ==
  \/ Bind \/ OpenFile \/ InitializeStore \/ StartServing
  \/ ProbeFails \/ ProbeSucceeds
  \/ AcceptFailsTransiently \/ AcceptFails \/ BackoffEnds
  \/ ShutdownResolves \/ SeeShutdown \/ Drain
  \/ Exit \/ Kill \/ DeleteFile
  \/ \E c \in Connections : ConnectionStep(c) \/ TaskStep(c)

(* The runtime polls the server: a shutdown is seen and the drain ends, at *)
(* the latest at its deadline; blocking tasks run to their end.  Nothing   *)
(* is assumed of the clients.                                              *)
ProcessFairness ==
  /\ WF_processVars(SeeShutdown)
  /\ WF_processVars(Drain)
  /\ WF_processVars(Exit)
  /\ \A c \in Connections :
       /\ WF_processVars(OpenRawConnection(c))
       /\ WF_processVars(PrepareConnection(c))
       /\ WF_processVars(Answer(c))

ProcessSpec ==
  ProcessInit /\ [][ProcessNext]_processVars /\ ProcessFairness

-----------------------------------------------------------------------------
(* Every variable keeps its type, and a file that is served from has the   *)
(* present schema.                                                         *)
ProcessTypeOK ==
  /\ file \in {Missing, Blank} \cup Origins \/ IsPresentSchema(file)
  /\ ended \subseteq Tokens \cup Names
  /\ removals \in 0..MaxRemovals
  /\ starts \in 0..MaxStarts
  /\ stage \in Stages
  /\ outcome \in Outcomes
  /\ ready \in 0..MaxProbes + 1
  /\ errors \in 0..MaxAcceptErrors + 1
  /\ signal \in BOOLEAN
  /\ connection \in [Connections -> [phase : Phases, told : BOOLEAN]]
  /\ task \in [Connections -> Tasks]

(* The backend starts on the file, unless the name for the staged sign-ins *)
(* is taken; rows that refer to nothing are gone by the time the           *)
(* references are checked.                                                 *)
StoreOpens == outcome = "refused" => Collides(file)

(* Whoever had an account has it, with the same password and the role it   *)
(* ought to have, and whoever was signed in still is, unless ended since.  *)
AccountsSurvive ==
  stage \notin {"down", "bound", "opened", "returned"} =>
    /\ \A a \in owed.accounts : a[1] \notin ended =>
         \E u \in ActiveAccount(file, a[1]) : u.hash = a[2] /\ u.admin = a[3]
    /\ \A s \in owed.signIns : {s[1], s[2]} \cap ended = {} =>
         SignedInAs(file, s[1]) = {<<"local_account", s[2]>>}

(* Whatever version wrote the file, the backend starts on it with every    *)
(* account and sign-in it holds, however often the process is killed while *)
(* it starts and started again, as long as nobody deletes the file.        *)
EarlierStoresSurvive == removals = 0 => StoreOpens /\ AccountsSurvive

(* An account that was deleted and a sign-in that was ended do not come    *)
(* back, though every start migrates what it finds in legacy tables.       *)
EndedSignInsStayEnded ==
  removals = 0 =>
    /\ \A t \in ended \cap Tokens : SignedInAs(file, t) = {}
    /\ \A n \in ended \cap Names : ActiveAccount(file, n) = {}

(* A request finds its tables, also when the file was deleted between its  *)
(* look at the file and its opening, or between that and its work.         *)
RequestsFindTheirTables ==
  \A c \in Connections : task[c].step = "ready" => TaskHasTables(task[c])

(* A server that is told to stop stops, whatever its connections do: wait  *)
(* for a handshake, stream, or be in the middle of a request.              *)
ServerStops == signal ~> stage = "down"
=============================================================================
