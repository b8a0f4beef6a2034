------------------------------ MODULE Sandbox ------------------------------
(***************************************************************************)
(* One Docker sandbox of one provider, from Create to the Destroy that     *)
(* releases it: the containers that run the commands, the apply-patch      *)
(* helper inside them, and the disposable worktree they share.             *)
(*                                                                         *)
(* provider.mu and sandbox.mu let one operation run at a time, so pc is    *)
(* the place of that operation.  The daemon and the containers run beside  *)
(* it.  Limits, labels, output and the wording of audit records are left   *)
(* out.  A container's immutable ID stands for the container behind its    *)
(* name; a file's text is the set of patches applied to it.                *)
(***************************************************************************)
EXTENDS Worktree

CONSTANTS
  ForeignNames,       \* container names taken by containers with other labels
  Patches,            \* patches the commands apply
  MaxCommands,        \* bound: Execute calls that draw a container name
  LostCreates,        \* what a create that failed at the client may have done
  ReinspectAttempts   \* containerReinspectAttempts (5 in the code)

(* A Destroy draws one more name only after a fault or a taken name.       *)
MaxName == MaxCommands + MaxFaults + Cardinality(ForeignNames) + 1

Names == 1..MaxName

ASSUME SandboxAssumption ==
  /\ IsFiniteSet(ForeignNames) /\ ForeignNames \subseteq Nat
  /\ MaxCommands \in Nat /\ ReinspectAttempts \in Nat \ {0}
  /\ LostCreates \subseteq {"absent", "inflight", "created"}

VARIABLES
  pc,          \* where the operation holding the mutex is
  file,        \* the file the patches apply to
  docker,      \* the daemon's containers by name
  command,     \* the patch a container applies, none for the cleanup helper
  base,        \* the text its helper has read, none before it reads
  owner,       \* provider.owners holds the token
  pending,     \* provider.pending holds the sandbox
  handle,      \* what Create returned to its caller
  sb,          \* the sandbox's flags
  counter,     \* provider.counter, the last name drawn
  containers,  \* sandbox.containers
  uncertain,   \* sandbox.uncertainContainers
  current,     \* the name the operation is working on
  todo,        \* names the current loop of Destroy has still to visit
  tries,       \* turns of the allocation or the re-inspection loop
  failed,      \* the operation has collected an error
  done         \* history: the patches audited as completed

daemon == <<docker, command, base, file>>
ownership == <<owner, pending, handle>>
tracking == <<containers, uncertain>>
loops == <<current, todo, tries, failed>>
vars == <<worktreeVars, pc, daemon, ownership, sb, counter, tracking, loops,
          done>>

(* A container that ran is over well ("ok") or not ("stopped").            *)
Existing == {"created", "running", "ok", "stopped"}

(* "inflight": the daemon has the request and has not carried it out.      *)
Ours == Existing \cup {"inflight"}

Flags == [provisioningFailed : BOOLEAN, destroying : BOOLEAN,
          destroyed : BOOLEAN, destroyAudited : BOOLEAN,
          gitPointerSanitized : BOOLEAN]

Places == {"new", "allocate", "prepare", "add", "materialize", "permit",
           "hide", "announce", "idle", "create", "reinspect", "start", "wait",
           "kill", "remove", "audit", "stop", "drop", "again",
           "restore", "gitremove", "gitlist", "removeall",
           "sanitize", "release"}

(* The shape of the state, whatever the bounds on faults and commands: the *)
(* places an operation can be at, what can be at a path or behind a name,  *)
(* and how a name is tracked (the flags and maps of DockerSandbox).        *)
TypeOK ==
  /\ pc \in Places
  /\ dirs \in [Paths -> {"absent", "foreign", "empty", "tree"}]
  /\ workspace \in Paths \cup {NoPath}
  /\ docker \in [Names -> Ours \cup {"absent", "foreign"}]
  /\ DOMAIN command = Names
  /\ sb \in Flags
  /\ counter \in Nat /\ current \in Nat
  /\ containers \in [Names -> {"untracked", "name", "id"}]

Init ==
  /\ WorktreeInit
  /\ pc = "new" /\ file = {}
  /\ docker = [n \in Names |-> IF n \in ForeignNames THEN "foreign" ELSE "absent"]
  /\ command = [n \in Names |-> {}] /\ base = [n \in Names |-> {}]
  /\ owner = FALSE /\ pending = FALSE /\ handle = "none"
  /\ sb = [provisioningFailed |-> TRUE, destroying |-> FALSE,
           destroyed |-> FALSE, destroyAudited |-> FALSE,
           gitPointerSanitized |-> FALSE]
  /\ counter = 0
  /\ containers = [n \in Names |-> "untracked"] /\ uncertain = {}
  /\ current = 0 /\ todo = {} /\ tries = 0 /\ failed = FALSE
  /\ done = {}

Tracked == {n \in Names : containers[n] # "untracked"}

Resolve(n) ==
  /\ containers' = [containers EXCEPT ![n] = "id"]
  /\ uncertain' = uncertain \ {n}

Untrack(n) ==
  /\ containers' = [containers EXCEPT ![n] = "untracked"]
  /\ uncertain' = uncertain \ {n}

-----------------------------------------------------------------------------
Goto(place) == pc' = place /\ UNCHANGED loops

(* An operation returns and gives up the mutex; its locals are gone.       *)
Return ==
  /\ pc' = "idle"
  /\ current' = 0 /\ todo' = {} /\ tries' = 0 /\ failed' = FALSE

(* Destroy starts: one-way, then over every container tracked.             *)
EnterDestroy ==
  /\ sb' = [sb EXCEPT !.destroying = TRUE]
  /\ pc' = "stop" /\ todo' = Tracked /\ failed' = FALSE
  /\ UNCHANGED <<current, tries>>

(* Destroy returns.  failProvisioning passes the sandbox on to Create's    *)
(* caller only when its Destroy reported an error.                         *)
ReturnDestroy(err) ==
  /\ Return
  /\ handle' = IF handle = "none" /\ err THEN "pending" ELSE handle

-----------------------------------------------------------------------------
(* Create fails before it owns anything: configuration, image, randomness. *)
RejectCreate ==
  /\ pc = "new"
  /\ Return
  /\ UNCHANGED <<worktreeVars, daemon, ownership, sb, counter, tracking, done>>

BeginCreate ==
  /\ pc = "new"
  /\ Goto("allocate") /\ owner' = TRUE
  /\ UNCHANGED <<worktreeVars, daemon, pending, handle, sb, counter, tracking,
                 done>>

AllocatePendingWorktree(p) ==
  /\ pc = "allocate" /\ tries < MaxAttempts
  /\ \/ Allocated(p) /\ Goto("prepare")
     \/ /\ Occupied(p) /\ tries' = tries + 1
        /\ UNCHANGED <<pc, current, todo, failed>>
  /\ UNCHANGED <<daemon, ownership, sb, counter, tracking, done>>

(* A Create without a worktree forgets the token and returns no handle.    *)
FailAllocation ==
  /\ pc = "allocate"
  /\ Attempt(tries < MaxAttempts)
  /\ Return /\ owner' = FALSE
  /\ UNCHANGED <<daemon, pending, handle, sb, counter, tracking, done>>

(* worktrees.Create after the allocation; failedCreate removes what there  *)
(* is.  A complete worktree is wrapped in a pending sandbox.               *)
PrepareWorktree ==
  /\ pc = "prepare"
  /\ \/ Prepare(FALSE) /\ Goto("add")
     \/ Prepare(TRUE) /\ Goto("gitremove")
  /\ UNCHANGED <<daemon, ownership, sb, counter, tracking, done>>

AddWorktree ==
  /\ pc = "add"
  /\ \/ Add(FALSE) /\ Goto("materialize")
     \/ Add(TRUE) /\ Goto("gitremove")
  /\ UNCHANGED <<daemon, ownership, sb, counter, tracking, done>>

(* Fault: Create returns the error of materializeGitTree at once.          *)
MaterializeGitTree_NoRollback ==
  /\ pc = "materialize"
  /\ \/ Attempt(FALSE) /\ Goto("permit") /\ pending' = TRUE /\ UNCHANGED owner
     \/ Attempt(TRUE) /\ Return /\ owner' = FALSE /\ UNCHANGED pending
  /\ UNCHANGED <<daemon, handle, sb, counter, tracking, done>>

MaterializeGitTree ==
  /\ pc = "materialize"
  /\ \/ Attempt(FALSE) /\ Goto("permit") /\ pending' = TRUE
     \/ Attempt(TRUE) /\ Goto("gitremove") /\ UNCHANGED pending
  /\ UNCHANGED <<daemon, owner, handle, sb, counter, tracking, done>>

(* The rest of Create; failProvisioning is a Destroy before it returns.    *)
PrepareWorkspacePermissions ==
  /\ pc = "permit"
  /\ \/ Attempt(FALSE) /\ Goto("hide") /\ UNCHANGED sb
     \/ Attempt(TRUE) /\ EnterDestroy
  /\ UNCHANGED <<daemon, ownership, counter, tracking, done>>

(* Fault: Create goes on with a pointer it could not hide.                 *)
HideGitPointer_IgnoresError ==
  /\ pc = "hide"
  /\ \E err \in BOOLEAN : Hide(err)
  /\ Goto("announce")
  /\ sb' = [sb EXCEPT !.gitPointerSanitized = TRUE]
  /\ UNCHANGED <<daemon, ownership, counter, tracking, done>>

HideGitPointer ==
  /\ pc = "hide"
  /\ \/ /\ Hide(FALSE) /\ Goto("announce")
        /\ sb' = [sb EXCEPT !.gitPointerSanitized = TRUE]
     \/ Hide(TRUE) /\ EnterDestroy
  /\ UNCHANGED <<daemon, ownership, counter, tracking, done>>

(* The sandbox_created record; only after it may commands run.             *)
RecordCreate ==
  /\ pc = "announce"
  /\ \/ /\ Attempt(FALSE) /\ Return
        /\ sb' = [sb EXCEPT !.provisioningFailed = FALSE]
        /\ handle' = "sandbox"
     \/ Attempt(TRUE) /\ EnterDestroy /\ UNCHANGED handle
  /\ UNCHANGED <<daemon, owner, pending, counter, tracking, done>>

-----------------------------------------------------------------------------
(* nextContainerName, and the name tracked before Docker sees it.          *)
Draw(patch) ==
  LET n == counter + 1 IN
    /\ counter' = n /\ current' = n
    /\ containers' = [containers EXCEPT ![n] = "name"]
    /\ command' = [command EXCEPT ![n] = patch]
    /\ pc' = "create" /\ tries' = 0 /\ failed' = FALSE
    /\ UNCHANGED <<uncertain, todo>>

(* Execute.  A call that is refused (the sandbox is not ready, the command *)
(* or its environment is not allowed, the context is over) changes nothing.*)
Execute(p) ==
  /\ pc = "idle" /\ handle # "none" /\ counter < MaxCommands
  /\ ~sb.destroyed /\ ~sb.destroying /\ ~sb.provisioningFailed
  /\ Draw({p})
  /\ UNCHANGED <<worktreeVars, docker, base, file, ownership, sb, done>>

(* The daemon refuses a bind mount whose source is missing.                *)
Mountable == dirs[workspace] = "tree" /\ pointer # "none"

(* createContainer: the container with its ID, a refusal, or an error that *)
(* does not tell what the daemon did or will do.                           *)
CreateContainer ==
  /\ pc = "create"
  /\ \/ /\ NoFault /\ docker[current] = "absent" /\ Mountable
        /\ docker' = [docker EXCEPT ![current] = "created"]
        /\ Resolve(current) /\ Goto("start")
     \/ /\ NoFault /\ (docker[current] = "foreign" \/ ~Mountable)
        /\ uncertain' = uncertain \cup {current} /\ Goto("reinspect")
        /\ UNCHANGED <<docker, containers>>
     \/ /\ Fault /\ docker[current] = "absent" /\ Mountable
        /\ \E lost \in LostCreates :
              docker' = [docker EXCEPT ![current] = lost]
        /\ uncertain' = uncertain \cup {current} /\ Goto("reinspect")
        /\ UNCHANGED containers
  /\ UNCHANGED <<disk, claims, workspace, command, base, file, ownership, sb,
                 counter, done>>

(* Execute returns an error, or cleanupWorkspace makes Destroy return one. *)
Fail ==
  IF sb.destroying THEN ReturnDestroy(TRUE) ELSE Return /\ UNCHANGED handle

(* cleanupFailedCreate: the name is looked up a few times; what appears is *)
(* removed, and what does not stays tracked by its name.                   *)
Reinspect ==
  /\ pc = "reinspect"
  /\ \/ Attempt(TRUE) /\ Fail /\ UNCHANGED tracking
     \/ /\ Attempt(FALSE) /\ docker[current] = "foreign"
        /\ Untrack(current) /\ Fail
     \/ /\ Attempt(FALSE) /\ docker[current] \in Existing
        /\ Resolve(current)
        /\ pc' = "remove" /\ failed' = TRUE
        /\ UNCHANGED <<handle, current, todo, tries>>
     \/ /\ Attempt(FALSE) /\ docker[current] \in {"absent", "inflight"}
        /\ IF tries + 1 < ReinspectAttempts
             THEN tries' = tries + 1
                  /\ UNCHANGED <<pc, handle, current, todo, failed>>
             ELSE Fail
        /\ UNCHANGED tracking
  /\ UNCHANGED <<daemon, owner, pending, sb, counter, done>>

(* startOwnedContainer, up to the container running.                       *)
Start ==
  /\ pc = "start"
  /\ \/ /\ Attempt(FALSE) /\ Goto("wait")
        /\ docker' = [docker EXCEPT ![current] = "running"]
     \/ /\ Attempt(TRUE)
        /\ docker' \in {docker, [docker EXCEPT ![current] = "running"]}
        /\ pc' = "remove" /\ failed' = TRUE
        /\ UNCHANGED <<current, todo, tries>>
  /\ UNCHANGED <<command, base, file, ownership, sb, counter, tracking, done>>

(* The attached client returns with the container, or loses it; the        *)
(* cleanup helper's own deadline counts as losing it.                      *)
Finish ==
  /\ pc = "wait"
  /\ \/ /\ Attempt(FALSE) /\ docker[current] \in {"ok", "stopped"}
        /\ failed' = (docker[current] = "stopped")
     \/ Attempt(TRUE) /\ failed' = TRUE
  /\ pc' = "remove"
  /\ UNCHANGED <<daemon, ownership, sb, counter, tracking, current, todo,
                 tries, done>>

(* The command's deadline or its caller's cancellation, even when the      *)
(* container is already over.                                              *)
Interrupt ==
  /\ pc \in {"start", "wait"} /\ ~sb.destroying
  /\ pc' = "kill" /\ failed' = TRUE
  /\ UNCHANGED <<worktreeVars, daemon, ownership, sb, counter, tracking,
                 current, todo, tries, done>>

(* killTrackedContainer: only a container known by its ID is killed.       *)
KillContainer(n, err) ==
  LET killed == [docker EXCEPT ![n] = IF @ = "running" THEN "stopped" ELSE @] IN
    /\ \/ /\ Attempt(FALSE) /\ err = FALSE
          /\ docker' = IF containers[n] = "id" THEN killed ELSE docker
       \/ /\ Attempt(TRUE) /\ err = TRUE /\ containers[n] = "id"
          /\ docker' \in {docker, killed}
    /\ UNCHANGED <<command, base, file>>

(* Fault: a name that is not found is taken to have no container.          *)
RemoveTracked_TrustsAbsence(n, err) ==
  LET gone == [docker EXCEPT ![n] = "absent"] IN
    /\ \/ /\ Attempt(FALSE) /\ err = "none"
          /\ containers[n] = "id" \/ docker[n] \in Existing
          /\ docker' = gone /\ Untrack(n)
       \/ /\ Attempt(FALSE) /\ err = "none"
          /\ containers[n] = "name" /\ docker[n] \in {"absent", "inflight"}
          /\ Untrack(n) /\ UNCHANGED docker
    /\ UNCHANGED <<command, base, file>>

(* removeTrackedContainer.  A name is first resolved to the ID behind it;  *)
(* absence settles nothing about a create whose outcome is unknown, and a  *)
(* container with other labels is never ours.  A failed rm may have worked.*)
RemoveTracked(n, err) ==
  LET gone == [docker EXCEPT ![n] = "absent"] IN
    /\ \/ /\ Attempt(FALSE) /\ err = "none"
          /\ containers[n] = "id" \/ docker[n] \in Existing
          /\ docker' = gone /\ Untrack(n)
       \/ /\ Attempt(FALSE)
          /\ containers[n] = "name" /\ docker[n] \in {"absent", "inflight"}
          /\ IF n \in uncertain
               THEN err = "unknown" /\ UNCHANGED tracking
               ELSE err = "none" /\ Untrack(n)
          /\ UNCHANGED docker
       \/ /\ Attempt(FALSE) /\ err = "error"
          /\ containers[n] = "name" /\ docker[n] = "foreign"
          /\ Untrack(n) /\ UNCHANGED docker
       \/ /\ Attempt(TRUE) /\ err = "error"
          /\ UNCHANGED <<docker, tracking>>
       \/ /\ Attempt(TRUE) /\ err = "error" /\ docker[n] \in Existing
          /\ docker' \in {docker, gone} /\ Resolve(n)
    /\ UNCHANGED <<command, base, file>>

Errors == {"none", "unknown", "error"}

(* An interrupted command is killed, then removed like any other.          *)
Kill ==
  /\ pc = "kill"
  /\ \E err \in BOOLEAN : KillContainer(current, err)
  /\ Goto("remove")
  /\ UNCHANGED <<ownership, sb, counter, tracking, done>>

(* Fault: the error of the removal is dropped.                             *)
Remove_IgnoresError ==
  /\ pc = "remove"
  /\ \E err \in Errors :
       /\ RemoveTracked(current, err)
       /\ IF failed THEN Fail
          ELSE Goto(IF sb.destroying THEN "restore" ELSE "audit") /\ UNCHANGED handle
  /\ UNCHANGED <<owner, pending, sb, counter, done>>

(* A command whose container is gone may be completed; a cleanup helper    *)
(* whose container is gone lets Destroy go on.                             *)
Remove ==
  /\ pc = "remove"
  /\ \E err \in Errors :
       /\ RemoveTracked(current, err)
       /\ IF failed \/ err # "none" THEN Fail
          ELSE Goto(IF sb.destroying THEN "restore" ELSE "audit") /\ UNCHANGED handle
  /\ UNCHANGED <<owner, pending, sb, counter, done>>

(* The truncation and execution_completed records.                         *)
RecordCompleted ==
  /\ pc = "audit"
  /\ \/ Attempt(FALSE) /\ done' = done \cup command[current]
     \/ Attempt(TRUE) /\ UNCHANGED done
  /\ Return
  /\ UNCHANGED <<daemon, ownership, sb, counter, tracking>>

-----------------------------------------------------------------------------
(* Beside the operation: a create the daemon had accepted takes effect.    *)
Surface(n) ==
  /\ docker[n] = "inflight"
  /\ docker' = [docker EXCEPT ![n] = "created"]
  /\ UNCHANGED <<worktreeVars, pc, command, base, file, ownership, sb, counter,
                 tracking, loops, done>>

(* Fault: the helper patches the committed text, not the workspace's.      *)
HelperReads_Committed(n) ==
  /\ docker[n] = "running" /\ command[n] # {} /\ base[n] = {}
  /\ base' = [base EXCEPT ![n] = {{}}]
  /\ UNCHANGED <<worktreeVars, pc, docker, command, file, ownership, sb,
                 counter, tracking, loops, done>>

(* apply-patch reads its target and refuses a text it was applied to.      *)
HelperReads(n) ==
  /\ docker[n] = "running" /\ command[n] # {} /\ base[n] = {}
  /\ IF command[n] \subseteq file
       THEN docker' = [docker EXCEPT ![n] = "stopped"] /\ UNCHANGED base
       ELSE base' = [base EXCEPT ![n] = {file}] /\ UNCHANGED docker
  /\ UNCHANGED <<worktreeVars, pc, command, file, ownership, sb, counter,
                 tracking, loops, done>>

(* It writes and syncs a temporary copy and renames it over the target.    *)
HelperPublishes(n) ==
  /\ docker[n] = "running" /\ base[n] # {}
  /\ file' = (UNION base[n]) \cup command[n]
  /\ docker' = [docker EXCEPT ![n] = "ok"]
  /\ UNCHANGED <<worktreeVars, pc, command, base, ownership, sb, counter,
                 tracking, loops, done>>

(* A command's helper may fail at any point before that.                   *)
HelperFails(n) ==
  /\ docker[n] = "running" /\ command[n] # {}
  /\ docker' = [docker EXCEPT ![n] = "stopped"]
  /\ UNCHANGED <<worktreeVars, pc, command, base, file, ownership, sb, counter,
                 tracking, loops, done>>

(* The cleanup helper makes the workspace removable.                       *)
HelperCleans(n) ==
  /\ docker[n] = "running" /\ command[n] = {}
  /\ \/ Attempt(FALSE) /\ docker' = [docker EXCEPT ![n] = "ok"]
     \/ Attempt(TRUE) /\ docker' = [docker EXCEPT ![n] = "stopped"]
  /\ UNCHANGED <<pc, command, base, file, ownership, sb, counter, tracking,
                 loops, done>>

-----------------------------------------------------------------------------
(* Destroy by the handle's holder, or by the provider's Cleanup.           *)
Destroy ==
  /\ pc = "idle" /\ pending /\ ~sb.destroyed
  /\ EnterDestroy
  /\ UNCHANGED <<worktreeVars, daemon, ownership, counter, tracking, done>>

(* recordDestroy and forgetProviderOwnership.                              *)
RecordDestroy(err) ==
  /\ Attempt(err)
  /\ IF err THEN UNCHANGED <<sb, owner, pending>>
     ELSE /\ sb' = [sb EXCEPT !.destroyAudited = TRUE]
          /\ owner' = FALSE /\ pending' = FALSE

(* Fault: a destroyed sandbox has nothing left to do.                      *)
DestroyAgain_Nothing ==
  /\ pc = "idle" /\ pending /\ sb.destroyed
  /\ UNCHANGED vars

(* A Destroy of what is already gone only retries the record.              *)
DestroyAgain ==
  /\ pc = "idle" /\ pending /\ sb.destroyed
  /\ \E err \in BOOLEAN : RecordDestroy(err)
  /\ UNCHANGED <<pc, daemon, handle, counter, tracking, loops, done>>

(* The first loop: kill, then remove; an unknown outcome waits.            *)
StopContainer(n) ==
  /\ pc = "stop" /\ n \in todo
  /\ \E err \in BOOLEAN :
       KillContainer(n, err) /\ failed' = (failed \/ err)
  /\ pc' = "drop" /\ current' = n /\ todo' = todo \ {n} /\ UNCHANGED tries
  /\ UNCHANGED <<ownership, sb, counter, tracking, done>>

DropContainer ==
  /\ pc = "drop"
  /\ \E err \in Errors :
       RemoveTracked(current, err) /\ failed' = (failed \/ err = "error")
  /\ pc' = "stop" /\ UNCHANGED <<current, todo, tries>>
  /\ UNCHANGED <<ownership, sb, counter, done>>

(* The containers that bear the owner token.                               *)
Found == {n \in Names : docker[n] \in Existing}

(* removeProviderOwnedContainers: whatever bears the owner token, found by *)
(* a scan.  Of the containers in kept the removal failed, and those in     *)
(* late are gone all the same.                                             *)
ScanOwned ==
  /\ pc = "stop" /\ todo = {}
  /\ \/ /\ Attempt(TRUE) /\ failed' = TRUE
        /\ UNCHANGED <<docker, tracking>>
     \/ \E kept \in SUBSET Found : \E late \in SUBSET kept :
          /\ faults + Cardinality(kept) <= MaxFaults
          /\ faults' = faults + Cardinality(kept)
          /\ failed' = (failed \/ kept # {})
          /\ docker' = [n \in Names |-> IF n \in (Found \ kept) \cup late
                                         THEN "absent" ELSE docker[n]]
          /\ containers' = [n \in Names |-> IF n \in Found \ kept
                                             THEN "untracked" ELSE containers[n]]
          /\ uncertain' = uncertain \ (Found \ kept)
          /\ UNCHANGED <<disk, claims, workspace>>
  /\ pc' = "again"
  /\ todo' = {n \in Names : containers'[n] # "untracked"}
  /\ UNCHANGED <<command, base, file, ownership, sb, counter, current, tries,
                 done>>

(* The second loop: now an unknown outcome is an error.                    *)
DropAgain(n) ==
  /\ pc = "again" /\ n \in todo
  /\ \E err \in Errors :
       RemoveTracked(n, err) /\ failed' = (failed \/ err # "none")
  /\ todo' = todo \ {n} /\ UNCHANGED <<pc, current, tries>>
  /\ UNCHANGED <<ownership, sb, counter, done>>

(* Fault: unresolved names do not keep Destroy from going on.              *)
Converge_SkipsUnresolved ==
  /\ pc = "again" /\ todo = {}
  /\ Goto("restore")
  /\ UNCHANGED <<worktreeVars, daemon, ownership, sb, counter, tracking, done>>

(* The container set has converged or Destroy returns; then the cleanup    *)
(* helper, unless no command ever ran.                                     *)
Converge ==
  /\ pc = "again" /\ todo = {}
  /\ \/ /\ failed \/ Tracked # {}
        /\ ReturnDestroy(TRUE)
        /\ UNCHANGED <<command, counter, tracking>>
     \/ /\ ~failed /\ Tracked = {} /\ ~sb.provisioningFailed
        /\ Draw({}) /\ UNCHANGED handle
     \/ /\ ~failed /\ Tracked = {} /\ sb.provisioningFailed
        /\ Goto("restore") /\ UNCHANGED <<handle, command, counter, tracking>>
  /\ UNCHANGED <<worktreeVars, docker, base, file, owner, pending, sb, done>>

RestoreGitPointer ==
  /\ pc = "restore"
  /\ IF sb.gitPointerSanitized
       THEN \E err \in BOOLEAN : Restore(err) /\ failed' = err
       ELSE UNCHANGED <<worktreeVars, failed>>
  /\ pc' = "gitremove" /\ UNCHANGED <<current, todo, tries>>
  /\ UNCHANGED <<daemon, ownership, sb, counter, tracking, done>>

(* worktree.Destroy, for the sandbox or for failedCreate.                  *)
RemoveWorktree ==
  /\ pc = "gitremove"
  /\ GitRemove /\ Goto("gitlist")
  /\ UNCHANGED <<daemon, ownership, sb, counter, tracking, done>>

(* Fault: Create reports the error without the sandbox it could not undo.  *)
RemovalFailed_NoHandle ==
  IF ~pending
    THEN Return /\ pending' = TRUE /\ UNCHANGED handle
    ELSE /\ IF sb.gitPointerSanitized THEN Goto("sanitize") /\ UNCHANGED handle
            ELSE ReturnDestroy(TRUE)
         /\ UNCHANGED pending

(* A failed removal: Create wraps the worktree it could not roll back, and *)
(* Destroy hides the pointer again.                                        *)
RemovalFailed ==
  IF ~pending
    THEN Return /\ pending' = TRUE /\ handle' = "pending"
    ELSE /\ IF sb.gitPointerSanitized THEN Goto("sanitize") /\ UNCHANGED handle
            ELSE ReturnDestroy(TRUE)
         /\ UNCHANGED pending

ListWorktrees ==
  /\ pc = "gitlist"
  /\ \/ Listed(FALSE) /\ Goto("removeall") /\ UNCHANGED <<pending, handle>>
     \/ Listed(TRUE) /\ RemovalFailed
  /\ UNCHANGED <<daemon, owner, sb, counter, tracking, done>>

RemoveWorkspace ==
  /\ pc = "removeall"
  /\ \/ /\ RemoveAll(FALSE)
        /\ IF pending
             THEN /\ sb' = [sb EXCEPT !.destroyed = TRUE]
                  /\ Goto("release") /\ UNCHANGED owner
             ELSE Return /\ owner' = FALSE /\ UNCHANGED sb
        /\ UNCHANGED <<pending, handle>>
     \/ RemoveAll(TRUE) /\ RemovalFailed /\ UNCHANGED <<sb, owner>>
  /\ UNCHANGED <<daemon, counter, tracking, done>>

SanitizeAgain ==
  /\ pc = "sanitize"
  /\ \E err \in BOOLEAN : Hide(err)
  /\ ReturnDestroy(TRUE)
  /\ UNCHANGED <<daemon, owner, pending, sb, counter, tracking, done>>

ReleaseSandbox ==
  /\ pc = "release"
  /\ \E err \in BOOLEAN : RecordDestroy(err) /\ ReturnDestroy(failed \/ err)
  /\ UNCHANGED <<daemon, counter, tracking, done>>

-----------------------------------------------------------------------------
(* The steps of the operation that holds the mutex.                        *)
Step ==
  \/ RejectCreate \/ BeginCreate \/ FailAllocation
  \/ \E p \in Paths : AllocatePendingWorktree(p)
  \/ PrepareWorktree \/ AddWorktree \/ MaterializeGitTree
  \/ PrepareWorkspacePermissions \/ HideGitPointer \/ RecordCreate
  \/ CreateContainer \/ Reinspect \/ Start \/ Finish \/ Interrupt
  \/ Kill \/ Remove \/ RecordCompleted
  \/ \E n \in Names : StopContainer(n) \/ DropAgain(n)
  \/ DropContainer \/ ScanOwned \/ Converge
  \/ RestoreGitPointer \/ RemoveWorktree \/ ListWorktrees \/ RemoveWorkspace
  \/ SanitizeAgain \/ ReleaseSandbox

Helper(n) ==
  \/ HelperReads(n) \/ HelperPublishes(n) \/ HelperFails(n) \/ HelperCleans(n)

Next ==
  \/ Step \/ Destroy \/ DestroyAgain
  \/ \E p \in Patches : Execute(p)
  \/ \E n \in Names : Surface(n) \/ Helper(n)

Spec == Init /\ [][Next]_vars

(* An operation runs to its return (every external call in it has its own  *)
(* deadline), a caller or Cleanup retries a Destroy that failed, the       *)
(* daemon carries out what it accepted and the cleanup helper ends.        *)
FairSpec ==
  /\ Spec
  /\ WF_vars(Step) /\ WF_vars(Destroy \/ DestroyAgain)
  /\ \A n \in Names : WF_vars(Surface(n)) /\ WF_vars(HelperCleans(n))

-----------------------------------------------------------------------------
(* A container of this sandbox, existing or still to appear, is tracked    *)
(* under its name, and while any name is tracked the provider keeps the    *)
(* owner token and the sandbox for Cleanup: no create whose outcome is     *)
(* unknown is forgotten because it was not found (removeTrackedContainer). *)
OwnedIsTracked ==
  /\ \A n \in Names : docker[n] \in Ours => n \in Tracked
  /\ Tracked # {} => owner /\ pending /\ ~sb.destroyed

(* The worktree stays beneath every container that exists or may appear:   *)
(* Destroy reaches worktree.Destroy only once the container set converged. *)
WorktreeOutlivesContainers ==
  (\E n \in Names : docker[n] \in Ours) =>
    /\ dirs[workspace] = "tree" /\ registered /\ workspace \in claims

(* When no operation runs and the provider holds no sandbox, whether       *)
(* Destroy released it or Create returned an error without a handle, there *)
(* is no container, directory, Git registration, claim or token left.      *)
NothingLeftBehind ==
  pc = "idle" /\ ~pending =>
    DiskClean /\ ~owner /\ \A n \in Names : docker[n] \notin Ours

(* Whatever is left after a failed Create or Destroy can be cleaned up: a  *)
(* caller holds the sandbox, the provider has it for Cleanup, and its      *)
(* worktree is still claimed unless it is gone.                            *)
LeftoverHasOwner ==
  pc = "idle" /\ pending =>
    /\ owner /\ handle # "none"
    /\ sb.destroyed \/ workspace \in claims

(* No command's container runs while the workspace's .git is the real      *)
(* pointer or a half-written one: Destroy is one-way, and it restores the  *)
(* pointer for Git only after the last container is gone (Execute's first  *)
(* check and the order of Destroy).                                        *)
CommandsSeeHiddenPointer ==
  \A n \in Names :
    docker[n] = "running" /\ command[n] # {} => pointer = "hidden"

(* A patch in the file is undone only while the container of an earlier    *)
(* command, which could not be removed, is still tracked: Execute starts   *)
(* the next command although that container may still run, and the two     *)
(* helpers then publish texts that do not have each other's patch.         *)
PatchesStay ==
  [][ \/ file \subseteq file'
      \/ Tracked \ {current} # {} \/ sb.destroying ]_vars

(* A command is audited as completed only once its container is confirmed  *)
(* gone and its patch is in the file, unless such an earlier container is  *)
(* still tracked.                                                          *)
CompletedIsFinal ==
  [][ done' # done =>
        /\ docker[current] \notin Ours /\ current \notin Tracked
        /\ command[current] \subseteq file \/ Tracked # {} ]_vars

(* Nothing that was there before is removed: neither a container with      *)
(* other labels behind one of our names, nor a directory at a candidate    *)
(* path.                                                                   *)
ForeignUntouched ==
  /\ \A n \in Names : n \in ForeignNames <=> docker[n] = "foreign"
  /\ \A p \in Paths : p \in ForeignPaths <=> dirs[p] = "foreign"

(* A create that never took effect although its outcome counts as unknown. *)
NeverSeen == \E n \in uncertain : docker[n] = "absent"

(* Git refuses to remove a listed worktree without its own .git pointer,   *)
(* and the sandbox has no pointer to restore or no file to restore it to.  *)
Unremovable ==
  /\ registered /\ dirs[workspace] = "tree"
  /\ pointer = "none" \/ (pointer # "real" /\ ~sb.gitPointerSanitized)

Released == pc = "idle" /\ ~pending

(* Once calls stop failing, retrying Destroy releases everything, except   *)
(* when a create is waited for that never took effect or the worktree has  *)
(* lost its .git pointer.                                                  *)
DestroyConverges == <>[](Released \/ NeverSeen \/ Unremovable)

(* Destroy is retryable (docs/threat-model.md:134): a Destroy that could   *)
(* not remove the worktree is followed by one that releases the sandbox.   *)
FailedRemovalIsRetryable == pc = "sanitize" ~> Released
=============================================================================
