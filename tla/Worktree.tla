------------------------------ MODULE Worktree ------------------------------
(***************************************************************************)
(* The disposable Git worktree of one sandbox: the path it is allocated,   *)
(* Git's registration of it, and the .git pointer file the sandbox hides   *)
(* from its commands.  Sandbox composes these steps into Create and        *)
(* Destroy.                                                                *)
(*                                                                         *)
(* Each operator is one external call with err saying whether it reports   *)
(* an error.  A call fails because it must (a missing file, a refusal) or  *)
(* by a fault: a timeout, an I/O error or a killed Git, which leaves the   *)
(* call undone, half done or done.  Faults are bounded by MaxFaults.       *)
(***************************************************************************)
EXTENDS Integers, FiniteSets

CONSTANTS
  Paths,         \* candidate workspaces under the configured root
  NoPath,        \* no workspace allocated yet
  ForeignPaths,  \* candidates that exist and are not ours
  MaxAttempts,   \* candidates drawn before giving up (8 in the code)
  MaxFaults      \* bound: external calls that fail by a fault

ASSUME WorktreeAssumption ==
  /\ NoPath \notin Paths /\ ForeignPaths \subseteq Paths
  /\ MaxAttempts \in Nat \ {0} /\ MaxFaults \in Nat

VARIABLES
  faults,      \* faults so far
  dirs,        \* what is at each candidate path
  registered,  \* Git lists the workspace as a worktree
  pointer,     \* the workspace's .git file
  claims,      \* GitWorktreeProvider.pending
  workspace    \* the allocated path

disk == <<dirs, registered, pointer>>
worktreeVars == <<faults, disk, claims, workspace>>

WorktreeInit ==
  /\ faults = 0
  /\ dirs = [p \in Paths |-> IF p \in ForeignPaths THEN "foreign" ELSE "absent"]
  /\ registered = FALSE /\ pointer = "none"
  /\ claims = {} /\ workspace = NoPath

Fault == faults < MaxFaults /\ faults' = faults + 1

NoFault == UNCHANGED faults

(* The disk after a step: what is at the workspace, Git's list, the file.  *)
Disk(dir, listed, git) ==
  /\ dirs' = [dirs EXCEPT ![workspace] = dir]
  /\ registered' = listed
  /\ pointer' = git

-----------------------------------------------------------------------------
(* Fault: MkdirAll in the place of Mkdir takes over what is there.         *)
Allocated_Adopts(p) ==
  /\ dirs' = [dirs EXCEPT ![p] = "empty"]
  /\ claims' = claims \cup {p} /\ workspace' = p
  /\ UNCHANGED <<faults, registered, pointer>>

(* allocatePendingWorktree, one candidate: the path is claimed before      *)
(* Mkdir, and the claim dropped when Mkdir finds something there.          *)
Allocated(p) ==
  /\ dirs[p] = "absent"
  /\ dirs' = [dirs EXCEPT ![p] = "empty"]
  /\ claims' = claims \cup {p} /\ workspace' = p
  /\ UNCHANGED <<faults, registered, pointer>>

Occupied(p) ==
  /\ dirs[p] # "absent"
  /\ UNCHANGED worktreeVars

(* Validation and Remove of the empty directory, then rev-parse.           *)
Prepare(err) ==
  /\ \/ err = FALSE /\ NoFault /\ Disk("absent", FALSE, "none")
     \/ err = TRUE /\ Fault /\ \E dir \in {"empty", "absent"} :
                                 Disk(dir, FALSE, "none")
  /\ UNCHANGED <<claims, workspace>>

(* git worktree add --no-checkout: a failed one may have registered the    *)
(* worktree.                                                               *)
Add(err) ==
  /\ \/ err = FALSE /\ NoFault /\ Disk("tree", TRUE, "real")
     \/ err = TRUE /\ Fault /\ UNCHANGED disk
     \/ err = TRUE /\ Fault /\ Disk("tree", TRUE, "real")
  /\ UNCHANGED <<claims, workspace>>

(* A call that changes nothing the model keeps: materializeGitTree, the    *)
(* walk of prepareWorkspacePermissions, an audit record.                   *)
Attempt(err) ==
  /\ IF err THEN Fault ELSE NoFault
  /\ UNCHANGED <<disk, claims, workspace>>

-----------------------------------------------------------------------------
(* hideWorktreeGitPointer needs the file.  A failed write may truncate it; *)
(* a failure after the write puts the former text back, or fails to.       *)
Hide(err) ==
  /\ \/ err = FALSE /\ NoFault /\ pointer # "none" /\ pointer' = "hidden"
     \/ err = TRUE /\ NoFault /\ pointer = "none" /\ UNCHANGED pointer
     \/ err = TRUE /\ Fault /\ pointer # "none"
                   /\ pointer' \in {pointer, "hidden", "broken"}
  /\ UNCHANGED <<dirs, registered, claims, workspace>>

(* restoreWorktreeGitPointer.                                              *)
Restore(err) ==
  /\ \/ err = FALSE /\ NoFault /\ pointer # "none" /\ pointer' = "real"
     \/ err = TRUE /\ NoFault /\ pointer = "none" /\ UNCHANGED pointer
     \/ err = TRUE /\ Fault /\ pointer # "none" /\ pointer' \in {pointer, "broken"}
  /\ UNCHANGED <<dirs, registered, claims, workspace>>

(* Git removes a listed worktree that is gone, or whose .git points back.  *)
GitAccepts == registered /\ (dirs[workspace] = "absent" \/ pointer = "real")

(* git worktree remove --force.  Git deletes the files, then the listing,  *)
(* and may be stopped between any two.  Its own error is not the step's:   *)
(* cleanupKnownWorktreeContext goes on to ask what is listed.              *)
GitRemove ==
  /\ \/ NoFault /\ GitAccepts /\ Disk("absent", FALSE, "none")
     \/ NoFault /\ ~GitAccepts /\ UNCHANGED disk
     \/ Fault /\ UNCHANGED disk
     \/ Fault /\ GitAccepts /\ Disk(dirs[workspace], TRUE, "none")
     \/ Fault /\ GitAccepts /\ Disk("absent", TRUE, "none")
  /\ UNCHANGED <<claims, workspace>>

(* worktreeRegistered: the removal is over unless the worktree is listed.  *)
Listed(err) ==
  /\ \/ err = registered /\ NoFault
     \/ err = TRUE /\ Fault
  /\ UNCHANGED <<disk, claims, workspace>>

(* RemoveAll; when it succeeds worktree.Destroy drops the claim.           *)
RemoveAll(err) ==
  /\ \/ err = FALSE /\ NoFault /\ Disk("absent", registered, "none")
                    /\ claims' = claims \ {workspace}
     \/ err = TRUE /\ Fault /\ dirs[workspace] # "absent"
                   /\ \E git \in {pointer, "none"} :
                        Disk(dirs[workspace], registered, git)
                   /\ UNCHANGED claims
  /\ UNCHANGED workspace

-----------------------------------------------------------------------------
(* Nothing of ours is left on the disk.                                    *)
DiskClean ==
  /\ claims = {} /\ ~registered
  /\ \A p \in Paths : dirs[p] \in {"absent", "foreign"}
=============================================================================
