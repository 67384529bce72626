------------------------- MODULE WorkspaceCheckout -------------------------
(***************************************************************************)
(* FsWorkspaceCheckoutManager in workspace_checkout.rs: a checkout of a    *)
(* workspace for a new session, and the list of its branches.  Each is a   *)
(* blocking task of its own and takes several looks at the upstream, which *)
(* others change meanwhile: the server of upstream_url, or the repository  *)
(* the backend runs in.  Any step may fail.                                *)
(*                                                                         *)
(* Every checkout has a directory of its own, for it is named by a new     *)
(* session; probe repositories, which are made to ask a server for its     *)
(* branches, are named by new ids.  A ref is a branch, and the branches    *)
(* are numbered in the order of their names.  What an agent does to its    *)
(* checkout later is left out, and so is a stop of the server, which       *)
(* leaves every directory as it is.                                        *)
(***************************************************************************)
EXTENDS Integers, Sequences, FiniteSets, SequencesExt

CONSTANTS
  Jobs,       \* the tasks
  Branches,   \* the branches there may be
  MaxChanges  \* bound: changes of the upstream

ASSUME CheckoutAssumption ==
  /\ Branches \subseteq Nat \ {0}
  /\ IsFiniteSet(Branches)
  /\ MaxChanges \in Nat

NoRef == 0
Invalid == -1       \* a ref validate_checkout_ref refuses
NoCommit == 0

VARIABLES
  workspace,  \* the record of the workspace: its upstream_url and default_ref
  upstream,   \* the branches' commits, the branch HEAD names, and the commit
              \* a detached HEAD is at
  changes,    \* the changes of the upstream
  job,        \* the tasks
  disk,       \* the directories of each
  seen,       \* history: what the upstream was while each was under way
  spoilt      \* history: tasks for which a directory could not be removed or
              \* its repository not made

checkoutVars == <<workspace, upstream, changes, job, disk, seen, spoilt>>

NoAnswer == [ref |-> NoRef, sha |-> NoCommit, branches |-> <<>>]
NewJob(what, override) ==
  [op |-> what, override |-> override, step |-> "idle", ref |-> NoRef, ok |-> TRUE,
   answer |-> NoAnswer]
NoDisk == [probe |-> FALSE, there |-> FALSE, fetched |-> NoCommit, tree |-> NoCommit,
           head |-> NoCommit]

At(j, step) == job[j].step = step
JobUnderWay(j) == job[j].step \notin {"idle", "done", "failed"}

\* git_symbolic_ref: none if HEAD is detached, or at a branch that does not
\* exist yet.
SymbolicRef(u) ==
  IF u.default # NoRef /\ u.head[u.default] # NoCommit THEN u.default ELSE NoRef

\* parse_remote_default_branch: a server that names none is an error.
DefaultBranch(u) == SymbolicRef(u)

Existing(u) == {b \in Branches : u.head[b] # NoCommit}
HeadOf(u) == IF u.default # NoRef THEN u.head[u.default] ELSE u.loose
CommitOf(u, ref) == IF ref = NoRef THEN HeadOf(u) ELSE u.head[ref]

\* workspace_branches_from_refs: in the order of their names.
SortedBranches(u) ==
  LET places == 1..Cardinality(Existing(u))
  IN  CHOOSE s \in [places -> Existing(u)] : \A i, k \in places : i < k => s[i] < s[k]

\* prioritize_workspace_branch_ref: the preferred branch, if it is there, is
\* taken out of its place and put first.
Prioritised(branches, preferred) ==
  IF preferred \in ToSet(branches)
  THEN LET index == CHOOSE i \in DOMAIN branches : branches[i] = preferred
       IN  <<branches[index]>> \o RemoveAt(branches, index)
  ELSE branches

\* The ref that is asked for, by the caller or by the workspace.
AskedRef(j) ==
  IF job[j].override # NoRef THEN job[j].override ELSE workspace.default

Remote == workspace.url # "none"

\* A task goes on with its next step.
Go(j, step) == job' = [job EXCEPT ![j].step = step]
KeepsUpstream == UNCHANGED <<workspace, upstream, changes, seen>>

(***************************************************************************)
(* The upstream, which others change                                       *)
(***************************************************************************)

NextCommit == Cardinality(Branches) + changes + 1

ChangeUpstream(u) ==
  /\ changes < MaxChanges
  /\ changes' = changes + 1
  /\ upstream' = u
  /\ seen' = [j \in Jobs |-> IF JobUnderWay(j) THEN seen[j] \cup {u} ELSE seen[j]]
  /\ UNCHANGED <<workspace, job, disk, spoilt>>

Push(b) == ChangeUpstream([upstream EXCEPT !.head[b] = NextCommit])

DeleteBranch(b) ==
  /\ upstream.head[b] # NoCommit
  /\ ChangeUpstream([upstream EXCEPT !.head[b] = NoCommit])

\* HEAD moves to a branch, or to a commit.
SwitchHead(b) == ChangeUpstream([upstream EXCEPT !.default = b])
DetachHead == ChangeUpstream([upstream EXCEPT !.default = NoRef, !.loose = NextCommit])

(***************************************************************************)
(* Beginning                                                               *)
(***************************************************************************)

\* prepare_checkout_sync and list_branches_sync: what is asked is looked at
\* before anything is touched.
Refused(j) ==
  IF job[j].op = "prepare" THEN job[j].override = Invalid ELSE workspace.url = "other"

BeginJob(j) ==
  /\ At(j, "idle")
  /\ Go(j, CASE Refused(j) -> "failed"
             [] ~Refused(j) /\ job[j].op = "prepare" -> "clearing"
             [] ~Refused(j) /\ job[j].op = "list" -> "resolving")
  /\ seen' = [seen EXCEPT ![j] = {upstream}]
  /\ UNCHANGED <<workspace, upstream, changes, disk, spoilt>>

\* The parent is made, and what is at the checkout's path removed.
ClearPath(j) ==
  /\ At(j, "clearing")
  /\ disk' = [disk EXCEPT ![j] = NoDisk]
  /\ Go(j, "resolving")
  /\ UNCHANGED spoilt
  /\ KeepsUpstream

ClearPathFails(j) ==
  /\ At(j, "clearing")
  /\ Go(j, "failed")
  /\ UNCHANGED <<disk, spoilt>>
  /\ KeepsUpstream

(***************************************************************************)
(* Which ref it is                                                         *)
(***************************************************************************)

\* clone_https_workspace and clone_local_workspace: a ref that is asked for
\* is taken as it is.
TakeAskedRef(j) ==
  /\ At(j, "resolving")
  /\ job[j].op = "prepare"
  /\ workspace.url # "other"
  /\ AskedRef(j) # NoRef
  /\ job' = [job EXCEPT ![j].ref = AskedRef(j), ![j].step = "initialising"]
  /\ UNCHANGED <<disk, spoilt>>
  /\ KeepsUpstream

\* validate_https_upstream_url.
RefuseUrl(j) ==
  /\ At(j, "resolving")
  /\ workspace.url = "other"
  /\ Go(j, "failing")
  /\ UNCHANGED <<disk, spoilt>>
  /\ KeepsUpstream

\* git_symbolic_ref; list_local_workspace_branches reads it too, before the
\* branches.
ReadSymbolicRef(j) ==
  /\ At(j, "resolving")
  /\ ~Remote
  /\ job[j].op = "prepare" => AskedRef(j) = NoRef
  /\ job' = [job EXCEPT ![j].ref = SymbolicRef(upstream),
                        ![j].step = IF job[j].op = "prepare" THEN "initialising" ELSE "listing"]
  /\ UNCHANGED <<disk, spoilt>>
  /\ KeepsUpstream

ListLocal(j) ==
  /\ At(j, "listing")
  /\ job' = [job EXCEPT ![j].answer.branches = Prioritised(SortedBranches(upstream), job[j].ref),
                        ![j].step = "done"]
  /\ UNCHANGED <<disk, spoilt>>
  /\ KeepsUpstream

\* with_probe_repository: a directory ...
MakeProbe(j) ==
  /\ At(j, "resolving")
  /\ workspace.url = "https"
  /\ job[j].op = "prepare" => AskedRef(j) = NoRef
  /\ disk' = [disk EXCEPT ![j].probe = TRUE]
  /\ Go(j, "opening")
  /\ UNCHANGED spoilt
  /\ KeepsUpstream

\* ... a bare repository in it; if none can be made the directory stays ...
OpenProbe(j) ==
  /\ At(j, "opening")
  /\ \/ Go(j, "connecting") /\ UNCHANGED spoilt
     \/ Go(j, "failing") /\ spoilt' = spoilt \cup {j}
  /\ UNCHANGED disk
  /\ KeepsUpstream

\* ... the server's branches and its HEAD, as they are when it answers ...
Connect(j) ==
  /\ At(j, "connecting")
  /\ job' = [job EXCEPT ![j].ref = DefaultBranch(upstream),
                        ![j].ok = DefaultBranch(upstream) # NoRef,
                        ![j].answer.branches =
                          IF job[j].op = "list"
                          THEN Prioritised(SortedBranches(upstream), DefaultBranch(upstream))
                          ELSE <<>>,
                        ![j].step = "unprobing"]
  /\ UNCHANGED <<disk, spoilt>>
  /\ KeepsUpstream

ConnectFails(j) ==
  /\ At(j, "connecting")
  /\ job' = [job EXCEPT ![j].ok = FALSE, ![j].step = "unprobing"]
  /\ UNCHANGED <<disk, spoilt>>
  /\ KeepsUpstream

\* ... and the directory is removed, if it can be, whatever came of it.
RemoveProbe(j) ==
  /\ At(j, "unprobing")
  /\ \/ disk' = [disk EXCEPT ![j].probe = FALSE] /\ UNCHANGED spoilt
     \/ spoilt' = spoilt \cup {j} /\ UNCHANGED disk
  /\ Go(j, CASE ~job[j].ok -> "failing"
             [] job[j].ok /\ job[j].op = "prepare" -> "initialising"
             [] job[j].ok /\ job[j].op = "list" -> "done")
  /\ KeepsUpstream

(***************************************************************************)
(* The checkout                                                            *)
(***************************************************************************)

\* fetch_workspace_checkout: a repository, ...
Initialise(j) ==
  /\ At(j, "initialising")
  /\ disk' = [disk EXCEPT ![j].there = TRUE]
  /\ Go(j, "fetching")
  /\ UNCHANGED spoilt
  /\ KeepsUpstream

\* Mutant: HEAD is fetched, whatever the ref.
FetchHead(j) ==
  /\ At(j, "fetching")
  /\ disk' = [disk EXCEPT ![j].fetched = HeadOf(upstream)]
  /\ Go(j, "checking out")
  /\ UNCHANGED spoilt
  /\ KeepsUpstream

\* ... what the ref, or HEAD, is at now; a ref that is gone leaves FETCH_HEAD
\* empty, ...
Fetch(j) ==
  /\ At(j, "fetching")
  /\ disk' = [disk EXCEPT ![j].fetched = CommitOf(upstream, job[j].ref)]
  /\ Go(j, "checking out")
  /\ UNCHANGED spoilt
  /\ KeepsUpstream

\* ... checkout_fetch_head: the tree, and HEAD detached at its commit ...
CheckOut(j) ==
  /\ At(j, "checking out")
  /\ disk[j].fetched # NoCommit
  /\ disk' = [disk EXCEPT ![j].tree = disk[j].fetched, ![j].head = disk[j].fetched]
  /\ Go(j, "reading")
  /\ UNCHANGED spoilt
  /\ KeepsUpstream

\* current_head_commit.
CurrentHead(j) == disk[j].head

\* ... and checkout_head_commit, which build_prepared_checkout reports.
ReadHead(j) ==
  /\ At(j, "reading")
  /\ job' = [job EXCEPT ![j].answer.ref = job[j].ref, ![j].answer.sha = CurrentHead(j),
                        ![j].step = "done"]
  /\ UNCHANGED <<disk, spoilt>>
  /\ KeepsUpstream

(***************************************************************************)
(* Failing                                                                 *)
(***************************************************************************)

\* Mutant: an error is returned at once.
FailAtOnce(j) ==
  /\ job[j].step \in {"resolving", "listing", "initialising", "fetching", "checking out", "reading"}
  /\ Go(j, "failed")
  /\ UNCHANGED <<disk, spoilt>>
  /\ KeepsUpstream

\* Any of these may fail, having done a part of it.
JobFails(j) ==
  /\ job[j].step \in {"resolving", "listing", "initialising", "fetching", "checking out", "reading"}
  /\ disk' = [disk EXCEPT ![j].there = @ \/ At(j, "initialising"),
                          ![j].tree = IF At(j, "checking out") THEN disk[j].fetched ELSE @]
  /\ Go(j, "failing")
  /\ UNCHANGED spoilt
  /\ KeepsUpstream

\* prepare_checkout_sync: of a checkout that failed nothing is kept, if it can
\* be removed. A list has made nothing.
CleanUp(j) ==
  /\ At(j, "failing")
  /\ \/ disk' = [disk EXCEPT ![j] = [NoDisk EXCEPT !.probe = disk[j].probe]] /\ UNCHANGED spoilt
     \/ disk[j].there /\ spoilt' = spoilt \cup {j} /\ UNCHANGED disk
  /\ Go(j, "failed")
  /\ KeepsUpstream

(***************************************************************************)
(* Specification                                                           *)
(***************************************************************************)

\* A workspace names a server, a URL that is refused, or the repository the
\* backend runs in; every branch is there at first.
CheckoutInit ==
  /\ workspace \in [url : {"https", "other", "none"}, default : {NoRef} \cup Branches]
  /\ upstream \in [head : {[b \in Branches |-> b]}, default : Branches, loose : {NoCommit}]
  /\ changes = 0
  /\ job \in [Jobs -> {NewJob("prepare", o) : o \in {NoRef, Invalid} \cup Branches}
                      \cup {NewJob("list", NoRef)}]
  /\ disk = [j \in Jobs |-> NoDisk]
  /\ seen = [j \in Jobs |-> {}]
  /\ spoilt = {}

JobStep(j) ==
  \/ BeginJob(j) \/ ClearPath(j) \/ ClearPathFails(j)
  \/ TakeAskedRef(j) \/ RefuseUrl(j) \/ ReadSymbolicRef(j) \/ ListLocal(j)
  \/ MakeProbe(j) \/ OpenProbe(j) \/ Connect(j) \/ ConnectFails(j) \/ RemoveProbe(j)
  \/ Initialise(j) \/ Fetch(j) \/ CheckOut(j) \/ ReadHead(j)
  \/ JobFails(j) \/ CleanUp(j)

CheckoutNext ==
  \/ \E j \in Jobs : JobStep(j)
  \/ \E b \in Branches : Push(b) \/ DeleteBranch(b) \/ SwitchHead(b)
  \/ DetachHead

CheckoutSpec == CheckoutInit /\ [][CheckoutNext]_checkoutVars

(***************************************************************************)
(* Properties                                                              *)
(***************************************************************************)

\* A checkout that is reported is of the ref that was asked for, or else of
\* one HEAD was at while it was under way; its tree is the commit that is
\* reported, and the ref was at that commit at some moment meanwhile.
CheckoutIsGenuine(j) ==
  LET answer == job[j].answer
  IN  /\ answer.sha # NoCommit
      /\ disk[j].tree = answer.sha
      /\ \E u \in seen[j] : CommitOf(u, answer.ref) = answer.sha
      /\ IF AskedRef(j) # NoRef
         THEN answer.ref = AskedRef(j)
         ELSE \E u \in seen[j] : SymbolicRef(u) = answer.ref

\* A list has each branch that was there at some moment while it was made,
\* once, and the branch HEAD was at comes first.
ListIsGenuine(j) ==
  LET answer == job[j].answer.branches
  IN  \E u, v \in seen[j] :
        /\ ToSet(answer) = Existing(u)
        /\ Len(answer) = Cardinality(Existing(u))
        /\ SymbolicRef(v) \in Existing(u) => answer[1] = SymbolicRef(v)

\* What the manager reports was so, though the upstream changes between its
\* steps (fetch_workspace_checkout, list_remote_workspace_branches).
ReportsAreGenuine ==
  \A j \in Jobs :
     At(j, "done") => IF job[j].op = "prepare" THEN CheckoutIsGenuine(j) ELSE ListIsGenuine(j)

\* Once a task is over there is a checkout if and only if it reports one, and
\* no probe repository, whichever step failed (prepare_checkout_sync,
\* with_probe_repository) - but for directories that could not be removed, and
\* a probe in which no repository could be made.
OnlyCheckoutsRemain ==
  \A j \in Jobs \ spoilt :
     job[j].step \in {"done", "failed"} =>
       /\ disk[j].there = (At(j, "done") /\ job[j].op = "prepare")
       /\ ~disk[j].probe
=============================================================================
