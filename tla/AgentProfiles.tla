--------------------------- MODULE AgentProfiles ---------------------------
(***************************************************************************)
(* The agent profiles: the backend keeps them in memory and in a JSON file *)
(* that every change writes anew (agent_profiles.rs); the settings page of *)
(* an administrator keeps a table of them (accounts/agent_profiles.rs) and *)
(* sends changes without waiting for each other's answers.                 *)
(*                                                                         *)
(* A profile is its name here: the mode and the command go with it; how a  *)
(* command comes to the page and back is CommandLine.  Left out: who may   *)
(* change profiles (Accounts) and how one is launched (AgentRuntime).      *)
(***************************************************************************)
EXTENDS CommandLine

CONSTANTS
  Profiles,     (* the ids of profiles                                     *)
  Names,        (* their names                                             *)
  Requests,     (* bound: the requests under way at a time                 *)
  None,         (* no profile, no name, no request                         *)
  Unsure,       (* a profile of which the last change was not confirmed    *)
  MaxRestarts   (* bound: how often the backend restarts                   *)

ASSUME AgentProfilesAssumption ==
  /\ None \notin Profiles \cup Names \cup Requests
  /\ Unsure \notin Names \cup {None}
  /\ MaxRestarts \in Nat

VARIABLES
  memory,     (* AgentProfileStore.profiles: the name of each, or None     *)
  file,       (* agent-profiles.json                                       *)
  holder,     (* the request that has the lock on the profiles             *)
  pending,    (* the requests under way                                    *)
  page,       (* the settings page                                         *)
  promised,   (* history: what the last change of each profile that was    *)
              (* not refused left, if it was confirmed                     *)
  restarts    (* bound *)

agentProfilesVars ==
  <<memory, file, holder, pending, page, promised, restarts>>

NoProfiles == [p \in Profiles |-> None]

(* list is what the handler writes or answers with.                        *)
NoRequest == [stage |-> "idle", kind |-> "list", own |-> FALSE, on |-> None,
              name |-> None, ok |-> FALSE, list |-> NoProfiles]

(* saving has the requests of the rows that show one: a table built anew   *)
(* has rows that show none.                                                *)
FreshPage == [table |-> NoProfiles, loading |-> TRUE, creating |-> FALSE,
              deleting |-> None, saving |-> {}]

-----------------------------------------------------------------------------
(* The page.                                                               *)

Sent(kind, p, n, own) ==
  [NoRequest EXCEPT !.stage = "sent", !.kind = kind, !.own = own,
                    !.on = p, !.name = n]

Send(r, kind, p, n, newPage) ==
  /\ pending[r] = NoRequest
  /\ pending' = [pending EXCEPT ![r] = Sent(kind, p, n, TRUE)]
  /\ page' = newPage
  /\ UNCHANGED <<memory, file, holder, promised, restarts>>

(* The page is opened anew: what it has sent is nobody's now.              *)
Visit(r) ==
  /\ pending[r] = NoRequest
  /\ page' = FreshPage
  /\ pending' = [d \in Requests |->
       IF d = r THEN Sent("list", None, None, TRUE)
       ELSE IF pending[d].stage = "answered" THEN NoRequest
       ELSE [pending[d] EXCEPT !.own = FALSE]]
  /\ UNCHANGED <<memory, file, holder, promised, restarts>>

Create(r, n) ==
  /\ ~page.creating
  /\ Send(r, "create", None, n, [page EXCEPT !.creating = TRUE])

HasRow(p) == ~page.loading /\ page.table[p] # None

Dirty(p, n) == n # page.table[p]

Save(r, p, n) ==
  /\ HasRow(p)
  /\ Dirty(p, n)
  /\ \A d \in page.saving : pending[d].on # p
  /\ Send(r, "save", p, n, [page EXCEPT !.saving = @ \cup {r}])

Delete(r, p) ==
  /\ HasRow(p)
  /\ page.deleting = None
  /\ Send(r, "delete", p, None, [page EXCEPT !.deleting = p])

(* Another administrator's, from wherever.                                 *)
SendElsewhere(r, kind, p, n) ==
  /\ pending[r] = NoRequest
  /\ pending' = [pending EXCEPT ![r] = Sent(kind, p, n, FALSE)]
  /\ UNCHANGED <<memory, file, holder, page, promised, restarts>>

-----------------------------------------------------------------------------
(* The backend.                                                            *)

AtServer(r, kinds) == pending[r].stage = "sent" /\ pending[r].kind \in kinds

Answered(r, ok, list) ==
  pending' = [pending EXCEPT ![r] =
    IF ~@.own THEN NoRequest
    ELSE [@ EXCEPT !.stage = "answered", !.ok = ok, !.list = list]]

ServeList(r) ==
  /\ AtServer(r, {"list"})
  /\ holder = None
  /\ Answered(r, TRUE, memory)
  /\ UNCHANGED <<memory, file, holder, page, promised, restarts>>

(* ensure_unique_profile_name                                              *)
NameIsFree(p, n) == \A q \in Profiles \ {p} : memory[q] # n

(* What the change does to the profiles.  A save also makes the profile    *)
(* when it is not there, or no longer.                                     *)
Change(r, p) ==
  CASE pending[r].kind = "delete" ->
         /\ p = pending[r].on /\ memory[p] # None
         /\ memory' = [memory EXCEPT ![p] = None]
    [] pending[r].kind = "save" ->
         /\ p = pending[r].on /\ NameIsFree(p, pending[r].name)
         /\ memory' = [memory EXCEPT ![p] = pending[r].name]
    [] pending[r].kind = "create" ->
         /\ memory[p] = None /\ NameIsFree(p, pending[r].name)
         /\ memory' = [memory EXCEPT ![p] = pending[r].name]

(* Faulty variant: the lock is released before the file is written.        *)
ApplyUnlocked(r, p) ==
  /\ AtServer(r, {"create", "save", "delete"})
  /\ holder = None
  /\ Change(r, p)
  /\ pending' = [pending EXCEPT ![r].stage = "writing", ![r].on = p,
                                ![r].list = memory']
  /\ UNCHANGED <<file, holder, page, promised, restarts>>

Apply(r, p) ==
  /\ AtServer(r, {"create", "save", "delete"})
  /\ holder = None
  /\ Change(r, p)
  /\ holder' = r
  /\ pending' = [pending EXCEPT ![r].stage = "writing", ![r].on = p,
                                ![r].list = memory']
  /\ UNCHANGED <<file, page, promised, restarts>>

(* A temporary file is written, synced and renamed; the lock is released.  *)
WriteProfiles(r) ==
  /\ pending[r].stage = "writing"
  /\ file' = pending[r].list
  /\ holder' = None
  /\ promised' = [promised EXCEPT ![pending[r].on] = file'[pending[r].on]]
  /\ Answered(r, TRUE, NoProfiles)
  /\ UNCHANGED <<memory, page, restarts>>

(* The change is answered with an error and stays in memory.               *)
WriteFails(r) ==
  /\ pending[r].stage = "writing"
  /\ holder' = None
  /\ promised' = [promised EXCEPT ![pending[r].on] = Unsure]
  /\ Answered(r, FALSE, NoProfiles)
  /\ UNCHANGED <<memory, file, page, restarts>>

(* A name in use, a missing profile, or values that are not valid.         *)
Refuse(r) ==
  /\ AtServer(r, {"create", "save", "delete"})
  /\ Answered(r, FALSE, NoProfiles)
  /\ UNCHANGED <<memory, file, holder, page, promised, restarts>>

(* The backend stops at any point and reads the file when it is back; what *)
(* has not been answered fails.                                            *)
Restart ==
  /\ restarts < MaxRestarts
  /\ restarts' = restarts + 1
  /\ memory' = file
  /\ holder' = None
  /\ pending' = [r \in Requests |->
       IF pending[r].stage \notin {"sent", "writing"} THEN pending[r]
       ELSE IF ~pending[r].own THEN NoRequest
       ELSE [pending[r] EXCEPT !.stage = "answered", !.list = NoProfiles]]
  /\ UNCHANGED <<file, page, promised>>

LoseAnswer(r) ==
  /\ pending[r].stage = "answered" /\ pending[r].ok
  /\ pending' = [pending EXCEPT ![r].ok = FALSE, ![r].list = NoProfiles]
  /\ UNCHANGED <<memory, file, holder, page, promised, restarts>>

-----------------------------------------------------------------------------
(* The answers.                                                            *)

Hears(r, kind, ok) ==
  /\ pending[r].stage = "answered"
  /\ pending[r].kind = kind
  /\ pending[r].ok = ok

Finish(r, newPage) ==
  /\ pending' = [pending EXCEPT ![r] = NoRequest]
  /\ page' = newPage
  /\ UNCHANGED <<memory, file, holder, promised, restarts>>

Loaded(r) ==
  /\ Hears(r, "list", TRUE)
  /\ Finish(r, [page EXCEPT !.table = pending[r].list, !.loading = FALSE,
                            !.saving = {}])

LoadFailed(r) ==
  /\ Hears(r, "list", FALSE)
  /\ Finish(r, [page EXCEPT !.loading = FALSE, !.saving = {}])

(* The new row is shown, and the table is loaded again at once.            *)
Created(r) ==
  /\ Hears(r, "create", TRUE)
  /\ pending' = [pending EXCEPT ![r] = Sent("list", None, None, TRUE)]
  /\ page' = [page EXCEPT !.table[pending[r].on] = pending[r].name,
                          !.creating = FALSE, !.loading = TRUE, !.saving = {}]
  /\ UNCHANGED <<memory, file, holder, promised, restarts>>

(* The row is replaced if it is there; all rows are built anew.            *)
Saved(r) ==
  /\ Hears(r, "save", TRUE)
  /\ LET p == pending[r].on IN
     Finish(r, [page EXCEPT
       !.table[p] = IF @ = None THEN None ELSE pending[r].name,
       !.saving = {}])

Deleted(r) ==
  /\ Hears(r, "delete", TRUE)
  /\ Finish(r, [page EXCEPT !.table[pending[r].on] = None,
                            !.deleting = None, !.saving = {}])

ChangeFailed(r) ==
  \/ Hears(r, "create", FALSE) /\ Finish(r, [page EXCEPT !.creating = FALSE])
  \/ Hears(r, "save", FALSE) /\ Finish(r, [page EXCEPT !.saving = @ \ {r}])
  \/ Hears(r, "delete", FALSE) /\ Finish(r, [page EXCEPT !.deleting = None])

-----------------------------------------------------------------------------
AgentProfilesInit ==
  /\ memory = NoProfiles
  /\ file = NoProfiles
  /\ holder = None
  /\ pending = [r \in Requests |-> NoRequest]
  /\ page = [FreshPage EXCEPT !.loading = FALSE]
  /\ promised = NoProfiles
  /\ restarts = 0

PageStep(r) ==
  \/ Visit(r)
  \/ \E n \in Names : Create(r, n)
  \/ \E p \in Profiles, n \in Names : Save(r, p, n)
  \/ \E p \in Profiles : Delete(r, p)
  \/ Loaded(r) \/ LoadFailed(r) \/ Created(r) \/ Saved(r) \/ Deleted(r)
  \/ ChangeFailed(r)

BackendStep(r) ==
  \/ ServeList(r)
  \/ \E p \in Profiles : Apply(r, p)
  \/ WriteProfiles(r) \/ WriteFails(r) \/ Refuse(r) \/ LoseAnswer(r)

Elsewhere(r) ==
  \E n \in Names :
    \/ SendElsewhere(r, "create", None, n)
    \/ \E p \in Profiles : \/ SendElsewhere(r, "save", p, n)
                           \/ SendElsewhere(r, "delete", p, None)

AgentProfilesNext ==
  \/ \E r \in Requests : PageStep(r) \/ BackendStep(r) \/ Elsewhere(r)
  \/ Restart

AgentProfilesSpec == AgentProfilesInit /\ [][AgentProfilesNext]_agentProfilesVars

-----------------------------------------------------------------------------
(* What a change left of a profile is in the file from the moment it is    *)
(* confirmed, until the next change: changes that are written later, fail  *)
(* or are cut off by a restart do not undo it.                             *)
ConfirmedProfilesSurvive ==
  \A p \in Profiles :
    promised[p] # Unsure =>
      /\ file[p] = promised[p]
      /\ holder = None => memory[p] = promised[p]

(* A profile that is in the table can be saved under a new name and keep   *)
(* its command, whatever line the command was typed as: what the row sends *)
(* back is split into the arguments that the backend keeps.                *)
CommandsSurviveThePage ==
  \A p \in Profiles : HasRow(p) => LostCommands = {}
=============================================================================
