---------------------------- MODULE SandboxProofs ----------------------------
(***************************************************************************)
(* Proofs of Sandbox's safety invariants and action properties, for any    *)
(* number of candidate paths, commands, faults and foreign containers.     *)
(*                                                                         *)
(* No invariant of Sandbox is inductive as it stands: that nothing is left *)
(* behind when the provider holds nothing depends on where the operation   *)
(* is, on what the handle says, and on which names it still tracks. IInv   *)
(* adds those facts in six parts. TypeOK is the state's shape. Phase       *)
(* ties the operation's place to the provider's hold and the handle's      *)
(* flags. Tracking ties the tracked names to the daemon's containers.      *)
(* OnDisk ties claims, directories and Git's list. Beneath and Hidden say  *)
(* what a container finds under it. Each part is preserved by every step,  *)
(* given itself and the parts before it.                                   *)
(*                                                                         *)
(* The two action properties are about what the commands do to the file.   *)
(* They need Patching, a further invariant that relates the text a helper  *)
(* has read to the file while no earlier command's container is tracked.   *)
(***************************************************************************)
EXTENDS Sandbox, FiniteSetTheorems, TLAPS

(* Where an operation may be: building the worktree, in Create before the  *)
(* sandbox is announced, running a container, in Destroy, removing a       *)
(* worktree.                                                               *)
Building == {"allocate", "prepare", "add", "materialize"}
Creating == {"new", "permit", "hide", "announce"} \cup Building
Running == {"create", "reinspect", "start", "wait", "kill", "remove"}
Destroying == {"stop", "drop", "again", "restore", "sanitize", "release"}
Removing == {"gitremove", "gitlist", "removeall"}

(* What the provider holds and the handle says, by the operation's place.  *)
Phase ==
  /\ pending => owner
  /\ pc \in {"new", "idle"} /\ ~pending => ~owner
  /\ pc = "new" \/ pc \in Building => ~pending
  /\ pc \in Building \cup Removing => owner
  /\ pc \in {"permit", "hide", "announce", "audit"} \cup Running \cup Destroying
       => pending
  /\ sb.destroyed => pc \in {"idle", "release"}
  /\ pc \in Creating => sb.provisioningFailed /\ ~sb.destroying
  /\ ~sb.provisioningFailed /\ ~sb.destroyed => pending
  /\ pc \in Destroying => sb.destroying
  /\ pc \in Removing /\ pending => sb.destroying
  /\ pc = "release" => sb.destroyed
  /\ pc = "audit" => ~sb.destroying
  /\ pc \in {"audit"} \cup Running /\ ~sb.destroying =>
       ~sb.provisioningFailed /\ handle # "none"
  /\ pc = "idle" /\ pending => handle # "none"

(* A container that is ours is tracked; a name is foreign only from        *)
(* before.                                                                 *)
Paired(n) ==
  /\ docker[n] \in Ours => containers[n] # "untracked"
  /\ docker[n] = "inflight" => n \in uncertain
  /\ containers[n] = "id" => docker[n] # "foreign"
  /\ (docker[n] = "foreign") <=> (n \in ForeignNames)

(* When a name may be tracked, and the one the operation is busy with.     *)
Visited(n) ==
  /\ containers[n] # "untracked" => n <= counter /\ pending /\ ~sb.destroyed
  /\ n = current /\ pc = "create" => containers[n] = "name"
  /\ n = current /\ pc \in {"start", "wait", "kill", "remove"} =>
       containers[n] = "id"
  /\ pc \in Creating \cup Removing \cup {"restore", "sanitize", "release"} =>
       containers[n] = "untracked"
  /\ n # current /\ pc \in Running /\ sb.destroying =>
       containers[n] = "untracked"

Tracking == \A n \in Names : Paired(n) /\ Visited(n)

(* At most one path is claimed; every directory and Git entry is claimed.  *)
OnDisk ==
  /\ claims \subseteq {workspace} /\ claims \subseteq Paths \ ForeignPaths
  /\ \A p \in Paths : dirs[p] \in {"empty", "tree"} => p \in claims
  /\ \A p \in Paths : dirs[p] = "tree" => registered
  /\ \A p \in Paths : (dirs[p] = "foreign") <=> (p \in ForeignPaths)
  /\ registered => claims # {}
  /\ pc \in {"new", "allocate"} => claims = {}
  /\ pc \in (Building \ {"allocate"}) \cup Removing => workspace \in claims
  /\ pending /\ ~sb.destroyed => workspace \in claims
  /\ sb.destroyed => claims = {}
  /\ pc = "idle" /\ ~pending => claims = {}
  /\ pc = "removeall" => ~registered

(* The container about to start is there, and so is what it mounts.        *)
Beneath ==
  /\ pc = "start" /\ current \in Names => docker[current] \in Ours
  /\ WorktreeOutlivesContainers

(* The pointer is hidden whenever the sandbox may run a command.           *)
Hidden ==
  /\ pc = "announce" => pointer = "hidden"
  /\ ~sb.provisioningFailed /\ ~sb.destroying => pointer = "hidden"
  /\ pc \in Running /\ sb.destroying /\ current \in Names => command[current] = {}
  /\ CommandsSeeHiddenPointer

IInv == TypeOK /\ Phase /\ Tracking /\ OnDisk /\ Beneath /\ Hidden

-----------------------------------------------------------------------------
(* The provider starts with nothing held, tracked or claimed.              *)
LEMMA Initially == Init => IInv
  BY WorktreeAssumption, SandboxAssumption DEF Init, WorktreeInit, IInv, TypeOK, Phase,
     Tracking, Paired, Visited, OnDisk, Beneath, Hidden,
     WorktreeOutlivesContainers, CommandsSeeHiddenPointer, Building, Creating,
     Running, Destroying, Removing, Places, Flags, Existing, Ours

(* Every step of Create, Execute, Destroy and the daemon keeps the shape.  *)
LEMMA TypesStep ==
  ASSUME TypeOK, [Next]_vars
  PROVE  TypeOK'
  <1>. USE DEF TypeOK, Places, Flags, Existing, Ours, worktreeVars, disk,
     daemon, ownership, tracking, loops
  <1>1. CASE RejectCreate  BY <1>1 DEF RejectCreate, Return
  <1>2. CASE BeginCreate  BY <1>2 DEF BeginCreate, Goto
  <1>3. CASE FailAllocation
    BY <1>3 DEF FailAllocation, Attempt, Return, Fault, NoFault
  <1>4. ASSUME NEW p \in Paths, AllocatePendingWorktree(p) PROVE TypeOK'
    BY <1>4 DEF AllocatePendingWorktree, Allocated, Goto, Occupied
  <1>5. CASE PrepareWorktree
    BY <1>5 DEF PrepareWorktree, Prepare, Goto, NoFault, Disk, Fault
  <1>6. CASE AddWorktree
    BY <1>6 DEF AddWorktree, Add, Goto, NoFault, Disk, Fault
  <1>7. CASE MaterializeGitTree
    BY <1>7 DEF MaterializeGitTree, Attempt, Goto, Fault, NoFault
  <1>8. CASE PrepareWorkspacePermissions
    BY <1>8, Zenon DEF PrepareWorkspacePermissions, Attempt, Goto, EnterDestroy,
       Fault, NoFault, Tracked
  <1>9. CASE HideGitPointer
    BY <1>9, Zenon DEF HideGitPointer, Hide, Goto, EnterDestroy, NoFault, Fault,
       Tracked
  <1>10. CASE RecordCreate
    <2>1. sb' \in Flags
      BY <1>10, Zenon DEF RecordCreate, EnterDestroy
    <2>2. pc' \in Places /\ (current' = 0 \/ current' = current)
      BY <1>10, Zenon DEF RecordCreate, EnterDestroy, Return
    <2>. QED
      BY <1>10, <2>1, <2>2 DEF RecordCreate, Attempt, EnterDestroy
  <1>11. CASE CreateContainer
    BY <1>11, SandboxAssumption DEF CreateContainer, NoFault, Mountable,
       Resolve, Goto, Fault
  <1>12. CASE Reinspect
    BY <1>12 DEF Reinspect, Attempt, Fail, Untrack, Resolve, Fault, NoFault,
       ReturnDestroy, Return
  <1>13. CASE Start  BY <1>13 DEF Start, Attempt, Goto, Fault, NoFault
  <1>14. CASE Finish  BY <1>14 DEF Finish, Attempt, Fault, NoFault
  <1>15. CASE Interrupt  BY <1>15 DEF Interrupt
  <1>16. CASE Kill
    BY <1>16 DEF Kill, KillContainer, Goto, Attempt, Fault, NoFault
  <1>17. CASE Remove
    BY <1>17 DEF Remove, RemoveTracked, Fail, Goto, Attempt, Untrack, Resolve,
       ReturnDestroy, Return, Fault, NoFault
  <1>18. CASE RecordCompleted
    BY <1>18 DEF RecordCompleted, Attempt, Return, Fault, NoFault
  <1>19. ASSUME NEW n \in Names, StopContainer(n) PROVE TypeOK'
    BY <1>19 DEF StopContainer, KillContainer, Attempt, Fault, NoFault, Names
  <1>20. ASSUME NEW n \in Names, DropAgain(n) PROVE TypeOK'
    BY <1>20 DEF DropAgain, RemoveTracked, Attempt, Untrack, Resolve, Fault,
       NoFault
  <1>21. CASE DropContainer
    BY <1>21 DEF DropContainer, RemoveTracked, Attempt, Untrack, Resolve,
       Fault, NoFault
  <1>22. CASE ScanOwned  BY <1>22 DEF ScanOwned, Attempt, Fault, NoFault
  <1>23. CASE Converge
    BY <1>23 DEF Converge, Tracked, ReturnDestroy, Draw, Goto, Return
  <1>24. CASE RestoreGitPointer
    BY <1>24 DEF RestoreGitPointer, Restore, NoFault, Fault
  <1>25. CASE RemoveWorktree
    BY <1>25 DEF RemoveWorktree, GitRemove, Goto, NoFault, GitAccepts, Disk,
       Fault
  <1>26. CASE ListWorktrees
    BY <1>26 DEF ListWorktrees, Listed, Goto, RemovalFailed, NoFault, Fault,
       Return, ReturnDestroy
  <1>27. CASE RemoveWorkspace
    <2>1. sb' \in Flags
      BY <1>27, Zenon DEF RemoveWorkspace
    <2>2. pc' \in Places /\ (current' = 0 \/ current' = current)
      BY <1>27, Zenon DEF RemoveWorkspace, RemovalFailed, ReturnDestroy, Return, Goto
    <2>3. dirs' \in [Paths -> {"absent", "foreign", "empty", "tree"}]
      BY <1>27 DEF RemoveWorkspace, RemoveAll, Disk
    <2>. QED
      BY <1>27, <2>1, <2>2, <2>3 DEF RemoveWorkspace, RemoveAll
  <1>28. CASE SanitizeAgain
    BY <1>28 DEF SanitizeAgain, Hide, ReturnDestroy, NoFault, Fault, Return
  <1>29. CASE ReleaseSandbox
    <2>1. sb' \in Flags
      BY <1>29, Zenon DEF ReleaseSandbox, RecordDestroy
    <2>. QED
      BY <1>29, <2>1 DEF ReleaseSandbox, RecordDestroy, ReturnDestroy, Return,
         Attempt
  <1>30. CASE Destroy  BY <1>30, Zenon DEF Destroy, EnterDestroy, Tracked
  <1>31. CASE DestroyAgain
    BY <1>31, ZenonT(60) DEF DestroyAgain, RecordDestroy, Attempt, Fault, NoFault
  <1>32. ASSUME NEW p \in Patches, Execute(p) PROVE TypeOK'
    <2>1. counter' \in Nat /\ current' \in Nat
      BY <1>32 DEF Execute, Draw
    <2>2. containers' \in [Names -> {"untracked", "name", "id"}]
      BY <1>32, Zenon DEF Execute, Draw
    <2>. QED
      BY <1>32, <2>1, <2>2 DEF Execute, Draw
  <1>33. ASSUME NEW n \in Names, Surface(n) PROVE TypeOK'  BY <1>33 DEF Surface
  <1>34. ASSUME NEW n \in Names, HelperReads(n) PROVE TypeOK'
    BY <1>34 DEF HelperReads
  <1>35. ASSUME NEW n \in Names, HelperPublishes(n) PROVE TypeOK'
    BY <1>35 DEF HelperPublishes
  <1>36. ASSUME NEW n \in Names, HelperFails(n) PROVE TypeOK'
    BY <1>36 DEF HelperFails
  <1>37. ASSUME NEW n \in Names, HelperCleans(n) PROVE TypeOK'
    BY <1>37 DEF HelperCleans, Attempt, Fault, NoFault
  <1>38. CASE UNCHANGED vars  BY <1>38 DEF vars
  <1>. QED
    BY Zenon, <1>1, <1>2, <1>3, <1>4, <1>5, <1>6, <1>7, <1>8, <1>9, <1>10, <1>11,
       <1>12, <1>13, <1>14, <1>15, <1>16, <1>17, <1>18, <1>19, <1>20, <1>21,
       <1>22, <1>23, <1>24, <1>25, <1>26, <1>27, <1>28, <1>29, <1>30, <1>31,
       <1>32, <1>33, <1>34, <1>35, <1>36, <1>37, <1>38 DEF Next, Step, Helper

(* Every step moves the place, the hold and the flags together.            *)
LEMMA PhaseStep ==
  ASSUME TypeOK, Phase, [Next]_vars
  PROVE  Phase'
  <1>. USE DEF TypeOK, Phase, Flags, Building, Creating, Running, Destroying,
     Removing, worktreeVars, disk, daemon, ownership, tracking, loops
  <1>1. CASE RejectCreate  BY <1>1 DEF RejectCreate, Return
  <1>2. CASE BeginCreate  BY <1>2 DEF BeginCreate, Goto
  <1>3. CASE FailAllocation  BY <1>3 DEF FailAllocation, Return
  <1>4. ASSUME NEW p \in Paths, AllocatePendingWorktree(p) PROVE Phase'
    BY <1>4 DEF AllocatePendingWorktree, Goto
  <1>5. CASE PrepareWorktree  BY <1>5, Zenon DEF PrepareWorktree, Goto
  <1>6. CASE AddWorktree  BY <1>6, Zenon DEF AddWorktree, Goto
  <1>7. CASE MaterializeGitTree
    <2>1. /\ pc = "materialize" /\ UNCHANGED <<owner, handle, sb>>
          /\ \/ pc' = "permit" /\ pending' = TRUE
             \/ pc' = "gitremove" /\ pending' = pending
      BY <1>7, Zenon DEF MaterializeGitTree, Goto
    <2>. QED  BY <2>1
  <1>8. CASE PrepareWorkspacePermissions
    BY <1>8, Zenon DEF PrepareWorkspacePermissions, Goto, EnterDestroy
  <1>9. CASE HideGitPointer  BY <1>9, ZenonT(60) DEF HideGitPointer, Goto, EnterDestroy
  <1>10. CASE RecordCreate  BY <1>10, Zenon DEF RecordCreate, Return, EnterDestroy
  <1>11. CASE CreateContainer  BY <1>11 DEF CreateContainer, Goto
  <1>12. CASE Reinspect  BY <1>12, Zenon DEF Reinspect, Fail, ReturnDestroy, Return
  <1>13. CASE Start  BY <1>13, Zenon DEF Start, Goto
  <1>14. CASE Finish  BY <1>14 DEF Finish
  <1>15. CASE Interrupt  BY <1>15 DEF Interrupt
  <1>16. CASE Kill  BY <1>16 DEF Kill, Goto
  <1>17. CASE Remove  BY <1>17 DEF Remove, Fail, Goto, ReturnDestroy, Return
  <1>18. CASE RecordCompleted  BY <1>18 DEF RecordCompleted, Return
  <1>19. ASSUME NEW n \in Names, StopContainer(n) PROVE Phase'
    BY <1>19 DEF StopContainer
  <1>20. ASSUME NEW n \in Names, DropAgain(n) PROVE Phase'
    BY <1>20 DEF DropAgain
  <1>21. CASE DropContainer  BY <1>21 DEF DropContainer
  <1>22. CASE ScanOwned  BY <1>22 DEF ScanOwned
  <1>23. CASE Converge
    BY <1>23 DEF Converge, ReturnDestroy, Draw, Goto, Return
  <1>24. CASE RestoreGitPointer  BY <1>24 DEF RestoreGitPointer
  <1>25. CASE RemoveWorktree  BY <1>25 DEF RemoveWorktree, Goto
  <1>26. CASE ListWorktrees
    <2>1. /\ pc = "gitlist" /\ UNCHANGED <<owner, sb>>
          /\ \/ pc' = "removeall" /\ UNCHANGED <<pending, handle>>
             \/ RemovalFailed
      BY <1>26, Zenon DEF ListWorktrees, Goto
    <2>. QED
      BY <2>1 DEF RemovalFailed, Return, ReturnDestroy, Goto
  <1>27. CASE RemoveWorkspace
    <2>1. pc = "removeall"
      BY <1>27 DEF RemoveWorkspace
    <2>2. CASE /\ pending /\ sb' = [sb EXCEPT !.destroyed = TRUE]
               /\ pc' = "release" /\ UNCHANGED <<owner, pending, handle>>
      BY <2>1, <2>2
    <2>3. CASE /\ ~pending /\ pc' = "idle" /\ owner' = FALSE
               /\ UNCHANGED <<sb, pending, handle>>
      BY <2>1, <2>3
    <2>4. CASE RemovalFailed /\ UNCHANGED <<sb, owner>>
      BY <2>1, <2>4 DEF RemovalFailed, Return, ReturnDestroy, Goto
    <2>. QED
      BY <1>27, <2>2, <2>3, <2>4, Zenon DEF RemoveWorkspace, Goto, Return
  <1>28. CASE SanitizeAgain  BY <1>28 DEF SanitizeAgain, ReturnDestroy, Return
  <1>29. CASE ReleaseSandbox
    BY <1>29, ZenonT(60) DEF ReleaseSandbox, RecordDestroy, ReturnDestroy, Return
  <1>30. CASE Destroy  BY <1>30 DEF Destroy, EnterDestroy
  <1>31. CASE DestroyAgain  BY <1>31, Zenon DEF DestroyAgain, RecordDestroy
  <1>32. ASSUME NEW p \in Patches, Execute(p) PROVE Phase'
    BY <1>32 DEF Execute, Draw
  <1>33. ASSUME NEW n \in Names, Surface(n) PROVE Phase'  BY <1>33 DEF Surface
  <1>34. ASSUME NEW n \in Names, HelperReads(n) PROVE Phase'
    BY <1>34 DEF HelperReads
  <1>35. ASSUME NEW n \in Names, HelperPublishes(n) PROVE Phase'
    BY <1>35 DEF HelperPublishes
  <1>36. ASSUME NEW n \in Names, HelperFails(n) PROVE Phase'
    BY <1>36 DEF HelperFails
  <1>37. ASSUME NEW n \in Names, HelperCleans(n) PROVE Phase'
    BY <1>37 DEF HelperCleans
  <1>38. CASE UNCHANGED vars  BY <1>38 DEF vars
  <1>. QED
    BY Zenon, <1>1, <1>2, <1>3, <1>4, <1>5, <1>6, <1>7, <1>8, <1>9, <1>10, <1>11,
       <1>12, <1>13, <1>14, <1>15, <1>16, <1>17, <1>18, <1>19, <1>20, <1>21,
       <1>22, <1>23, <1>24, <1>25, <1>26, <1>27, <1>28, <1>29, <1>30, <1>31,
       <1>32, <1>33, <1>34, <1>35, <1>36, <1>37, <1>38 DEF Next, Step, Helper

(* No step forgets a container that exists or may still appear.            *)
LEMMA PairedStep ==
  ASSUME TypeOK, Tracking, NEW m \in Names, [Next]_vars
  PROVE  Paired(m)'
  <1>. USE DEF TypeOK, Tracking, Paired, Visited, Existing, Ours, worktreeVars,
     disk, daemon, ownership, tracking, loops
  <1>1. CASE RejectCreate  BY <1>1 DEF RejectCreate
  <1>2. CASE BeginCreate  BY <1>2 DEF BeginCreate
  <1>3. CASE FailAllocation  BY <1>3 DEF FailAllocation
  <1>4. ASSUME NEW p \in Paths, AllocatePendingWorktree(p) PROVE Paired(m)'
    BY <1>4 DEF AllocatePendingWorktree
  <1>5. CASE PrepareWorktree  BY <1>5 DEF PrepareWorktree
  <1>6. CASE AddWorktree  BY <1>6 DEF AddWorktree
  <1>7. CASE MaterializeGitTree  BY <1>7 DEF MaterializeGitTree
  <1>8. CASE PrepareWorkspacePermissions
    BY <1>8 DEF PrepareWorkspacePermissions
  <1>9. CASE HideGitPointer  BY <1>9 DEF HideGitPointer
  <1>10. CASE RecordCreate  BY <1>10 DEF RecordCreate
  <1>11. CASE CreateContainer
    BY <1>11, SandboxAssumption DEF CreateContainer, Resolve
  <1>12. CASE Reinspect  BY <1>12, Zenon DEF Reinspect, Untrack, Resolve
  <1>13. CASE Start  BY <1>13, Zenon DEF Start
  <1>14. CASE Finish  BY <1>14 DEF Finish
  <1>15. CASE Interrupt  BY <1>15 DEF Interrupt
  <1>16. CASE Kill  BY <1>16, ZenonT(60) DEF Kill, KillContainer
  <1>17. CASE Remove  BY <1>17, ZenonT(60) DEF Remove, RemoveTracked, Untrack, Resolve
  <1>18. CASE RecordCompleted  BY <1>18 DEF RecordCompleted
  <1>19. ASSUME NEW n \in Names, StopContainer(n) PROVE Paired(m)'
    BY <1>19, ZenonT(60) DEF StopContainer, KillContainer
  <1>20. ASSUME NEW n \in Names, DropAgain(n) PROVE Paired(m)'
    BY <1>20, Zenon DEF DropAgain, RemoveTracked, Untrack, Resolve
  <1>21. CASE DropContainer
    BY <1>21, ZenonT(60) DEF DropContainer, RemoveTracked, Untrack, Resolve
  <1>22. CASE ScanOwned
    <2>1. CASE UNCHANGED <<docker, tracking>>
      BY <2>1
    <2>2. ASSUME NEW kept \in SUBSET Found, NEW late \in SUBSET kept,
                 docker' = [n \in Names |-> IF n \in (Found \ kept) \cup late
                                              THEN "absent" ELSE docker[n]],
                 containers' = [n \in Names |-> IF n \in Found \ kept
                                  THEN "untracked" ELSE containers[n]],
                 uncertain' = uncertain \ (Found \ kept)
          PROVE  Paired(m)'
      BY <2>2 DEF Found
    <2>. QED
      BY <1>22, <2>1, <2>2, Zenon DEF ScanOwned
  <1>23. CASE Converge  BY <1>23, Zenon DEF Converge, Draw
  <1>24. CASE RestoreGitPointer  BY <1>24 DEF RestoreGitPointer
  <1>25. CASE RemoveWorktree  BY <1>25 DEF RemoveWorktree
  <1>26. CASE ListWorktrees  BY <1>26 DEF ListWorktrees
  <1>27. CASE RemoveWorkspace  BY <1>27 DEF RemoveWorkspace
  <1>28. CASE SanitizeAgain  BY <1>28 DEF SanitizeAgain
  <1>29. CASE ReleaseSandbox  BY <1>29 DEF ReleaseSandbox
  <1>30. CASE Destroy  BY <1>30 DEF Destroy
  <1>31. CASE DestroyAgain  BY <1>31 DEF DestroyAgain
  <1>32. ASSUME NEW p \in Patches, Execute(p) PROVE Paired(m)'
    BY <1>32 DEF Execute, Draw
  <1>33. ASSUME NEW n \in Names, Surface(n) PROVE Paired(m)'
    BY <1>33 DEF Surface
  <1>34. ASSUME NEW n \in Names, HelperReads(n) PROVE Paired(m)'
    BY <1>34 DEF HelperReads
  <1>35. ASSUME NEW n \in Names, HelperPublishes(n) PROVE Paired(m)'
    BY <1>35 DEF HelperPublishes
  <1>36. ASSUME NEW n \in Names, HelperFails(n) PROVE Paired(m)'
    BY <1>36 DEF HelperFails
  <1>37. ASSUME NEW n \in Names, HelperCleans(n) PROVE Paired(m)'
    BY <1>37, Zenon DEF HelperCleans
  <1>38. CASE UNCHANGED vars  BY <1>38 DEF vars
  <1>. QED
    BY Zenon, <1>1, <1>2, <1>3, <1>4, <1>5, <1>6, <1>7, <1>8, <1>9, <1>10, <1>11,
       <1>12, <1>13, <1>14, <1>15, <1>16, <1>17, <1>18, <1>19, <1>20, <1>21,
       <1>22, <1>23, <1>24, <1>25, <1>26, <1>27, <1>28, <1>29, <1>30, <1>31,
       <1>32, <1>33, <1>34, <1>35, <1>36, <1>37, <1>38 DEF Next, Step, Helper

(* A name is tracked before its create and forgotten only once resolved.   *)
LEMMA VisitedStep ==
  ASSUME TypeOK, Phase, Tracking, NEW m \in Names, [Next]_vars
  PROVE  Visited(m)'
  <1>. USE DEF TypeOK, Phase, Tracking, Visited, Flags, Building, Creating,
     Running, Destroying, Removing, worktreeVars, disk, daemon, ownership,
     tracking, loops
  <1>1. CASE RejectCreate  BY <1>1 DEF RejectCreate, Return
  <1>2. CASE BeginCreate  BY <1>2 DEF BeginCreate, Goto
  <1>3. CASE FailAllocation  BY <1>3 DEF FailAllocation, Return
  <1>4. ASSUME NEW p \in Paths, AllocatePendingWorktree(p) PROVE Visited(m)'
    BY <1>4 DEF AllocatePendingWorktree, Goto
  <1>5. CASE PrepareWorktree  BY <1>5, Zenon DEF PrepareWorktree, Goto
  <1>6. CASE AddWorktree  BY <1>6, Zenon DEF AddWorktree, Goto
  <1>7. CASE MaterializeGitTree  BY <1>7, Zenon DEF MaterializeGitTree, Goto
  <1>8. CASE PrepareWorkspacePermissions
    BY <1>8, Zenon DEF PrepareWorkspacePermissions, Goto, EnterDestroy, Tracked
  <1>9. CASE HideGitPointer
    BY <1>9, Zenon DEF HideGitPointer, Goto, EnterDestroy, Tracked
  <1>10. CASE RecordCreate
    BY <1>10, Zenon DEF RecordCreate, Return, EnterDestroy, Tracked
  <1>11. CASE CreateContainer
    BY <1>11 DEF CreateContainer, Mountable, Resolve, Goto
  <1>12. CASE Reinspect
    BY <1>12, ZenonT(60) DEF Reinspect, Fail, Untrack, Resolve, ReturnDestroy, Return,
       Paired, Existing, Ours
  <1>13. CASE Start  BY <1>13, Zenon DEF Start, Goto
  <1>14. CASE Finish  BY <1>14 DEF Finish
  <1>15. CASE Interrupt  BY <1>15 DEF Interrupt
  <1>16. CASE Kill  BY <1>16 DEF Kill, KillContainer, Goto
  <1>17. CASE Remove
    BY <1>17, Zenon DEF Remove, RemoveTracked, Fail, Goto, Untrack, Resolve,
       ReturnDestroy, Return
  <1>18. CASE RecordCompleted  BY <1>18 DEF RecordCompleted, Return
  <1>19. ASSUME NEW n \in Names, StopContainer(n) PROVE Visited(m)'
    BY <1>19 DEF StopContainer, KillContainer
  <1>20. ASSUME NEW n \in Names, DropAgain(n) PROVE Visited(m)'
    BY <1>20, Zenon DEF DropAgain, RemoveTracked, Untrack, Resolve, Paired, Existing,
       Ours
  <1>21. CASE DropContainer
    BY <1>21, Zenon DEF DropContainer, RemoveTracked, Untrack, Resolve, Paired,
       Existing, Ours
  <1>22. CASE ScanOwned  BY <1>22, ZenonT(60) DEF ScanOwned
  <1>23. CASE Converge
    <2>1. pc = "again" /\ UNCHANGED <<pending, sb>>
      BY <1>23 DEF Converge
    <2>2. CASE pc' = "idle" /\ UNCHANGED <<counter, containers>>
      BY <2>1, <2>2
    <2>3. CASE (\A n \in Names : containers[n] = "untracked") /\ Draw({})
      BY <2>1, <2>3 DEF Draw, Names
    <2>4. CASE /\ \A n \in Names : containers[n] = "untracked"
               /\ pc' = "restore" /\ UNCHANGED <<counter, containers>>
      BY <2>1, <2>4
    <2>. QED
      BY <1>23, <2>2, <2>3, <2>4, Zenon DEF Converge, ReturnDestroy, Return, Goto,
         Tracked
  <1>24. CASE RestoreGitPointer  BY <1>24 DEF RestoreGitPointer
  <1>25. CASE RemoveWorktree  BY <1>25 DEF RemoveWorktree, Goto
  <1>26. CASE ListWorktrees
    BY <1>26, Zenon DEF ListWorktrees, Goto, RemovalFailed, Return, ReturnDestroy
  <1>27. CASE RemoveWorkspace
    BY <1>27, Zenon DEF RemoveWorkspace, Goto, Return, RemovalFailed, ReturnDestroy
  <1>28. CASE SanitizeAgain  BY <1>28 DEF SanitizeAgain, ReturnDestroy, Return
  <1>29. CASE ReleaseSandbox
    BY <1>29 DEF ReleaseSandbox, RecordDestroy, ReturnDestroy, Return
  <1>30. CASE Destroy  BY <1>30 DEF Destroy, EnterDestroy, Tracked
  <1>31. CASE DestroyAgain  BY <1>31 DEF DestroyAgain, RecordDestroy
  <1>32. ASSUME NEW p \in Patches, Execute(p) PROVE Visited(m)'
    BY <1>32 DEF Execute, Draw, Names
  <1>33. ASSUME NEW n \in Names, Surface(n) PROVE Visited(m)'
    BY <1>33 DEF Surface
  <1>34. ASSUME NEW n \in Names, HelperReads(n) PROVE Visited(m)'
    BY <1>34 DEF HelperReads
  <1>35. ASSUME NEW n \in Names, HelperPublishes(n) PROVE Visited(m)'
    BY <1>35 DEF HelperPublishes
  <1>36. ASSUME NEW n \in Names, HelperFails(n) PROVE Visited(m)'
    BY <1>36 DEF HelperFails
  <1>37. ASSUME NEW n \in Names, HelperCleans(n) PROVE Visited(m)'
    BY <1>37, Zenon DEF HelperCleans
  <1>38. CASE UNCHANGED vars  BY <1>38 DEF vars
  <1>. QED
    BY Zenon, <1>1, <1>2, <1>3, <1>4, <1>5, <1>6, <1>7, <1>8, <1>9, <1>10, <1>11,
       <1>12, <1>13, <1>14, <1>15, <1>16, <1>17, <1>18, <1>19, <1>20, <1>21,
       <1>22, <1>23, <1>24, <1>25, <1>26, <1>27, <1>28, <1>29, <1>30, <1>31,
       <1>32, <1>33, <1>34, <1>35, <1>36, <1>37, <1>38 DEF Next, Step, Helper

(* removeTrackedContainer touches nothing but containers, and removes only. *)
LEMMA RemoveOnlyRemoves ==
  ASSUME TypeOK, NEW n, NEW err, RemoveTracked(n, err)
  PROVE  /\ UNCHANGED <<disk, claims, workspace, command>>
         /\ \A m \in Names : docker'[m] \in {docker[m], "absent"}
  <1>1. UNCHANGED <<disk, claims, workspace, command>>
    BY Zenon DEF RemoveTracked, Attempt
  <1>2. docker' \in {docker, [docker EXCEPT ![n] = "absent"]}
    BY Zenon DEF RemoveTracked
  <1>. QED
    BY <1>1, <1>2 DEF TypeOK

(* The scan of removeProviderOwnedContainers only removes.                 *)
LEMMA ScanOnlyRemoves ==
  ASSUME TypeOK, ScanOwned
  PROVE  \A m \in Names : docker'[m] \in {docker[m], "absent"}
  <1>1. CASE docker' = docker
    BY <1>1
  <1>2. ASSUME NEW gone \in SUBSET Names,
               docker' = [n \in Names |-> IF n \in gone THEN "absent"
                                                        ELSE docker[n]]
        PROVE  \A m \in Names : docker'[m] \in {docker[m], "absent"}
    BY <1>2
  <1>3. docker' = docker \/ \E gone \in SUBSET Names :
          docker' = [n \in Names |-> IF n \in gone THEN "absent" ELSE docker[n]]
    BY Zenon DEF ScanOwned, Found
  <1>. QED
    BY <1>1, <1>2, <1>3, Zenon

(* No step leaves a directory or a Git entry without its claim.            *)
LEMMA OnDiskStep ==
  ASSUME TypeOK, Phase, OnDisk, [Next]_vars
  PROVE  OnDisk'
  <1>. USE DEF worktreeVars, disk, daemon, ownership, tracking, loops
  <1>a. ASSUME pending, UNCHANGED <<dirs, registered, claims, workspace, pending>>,
               sb'.destroyed = sb.destroyed,
               pc' \notin Building \cup Removing \cup {"new"}
        PROVE  OnDisk'
    <2>1. /\ pc' \notin {"new", "allocate", "removeall"} /\ pending'
          /\ pc' \notin (Building \ {"allocate"}) \cup Removing
      BY <1>a DEF Building, Removing
    <2>2. pending /\ ~sb'.destroyed => workspace \in claims
      BY <1>a DEF OnDisk
    <2>. QED  BY <1>a, <2>1, <2>2 DEF OnDisk
  <1>b. UNCHANGED <<dirs, registered, claims, workspace, pending, pc, sb>>
          => OnDisk'
    BY DEF OnDisk
  <1>c. pc \in {"permit", "hide", "announce", "audit"} \cup Running
                 \cup Destroying => pending
    BY DEF Phase
  <1>1. CASE RejectCreate
    BY <1>1 DEF RejectCreate, Return, TypeOK, OnDisk, Phase, Building,
       Removing
  <1>2. CASE BeginCreate
    BY <1>2 DEF BeginCreate, Goto, TypeOK, OnDisk, Phase, Building, Removing
  <1>3. CASE FailAllocation
    BY <1>3 DEF FailAllocation, Attempt, Return, TypeOK, OnDisk, Phase,
       Building, Removing
  <1>4. ASSUME NEW p \in Paths, AllocatePendingWorktree(p) PROVE OnDisk'
    BY <1>4 DEF AllocatePendingWorktree, Allocated, Goto, Occupied, TypeOK,
       OnDisk, Phase, Building, Removing
  <1>5. CASE PrepareWorktree
    BY <1>5 DEF PrepareWorktree, Prepare, Goto, Disk, TypeOK, OnDisk, Phase,
       Building, Removing
  <1>6. CASE AddWorktree
    BY <1>6 DEF AddWorktree, Add, Goto, Disk, TypeOK, OnDisk, Phase,
       Building, Removing
  <1>7. CASE MaterializeGitTree
    <2>1. /\ pc = "materialize" /\ pc' \in {"permit", "gitremove"}
          /\ UNCHANGED <<dirs, registered, claims, workspace, sb>>
      BY <1>7 DEF MaterializeGitTree, Attempt, Goto
    <2>. QED  BY <2>1 DEF OnDisk, Building, Removing
  <1>8. CASE PrepareWorkspacePermissions
    <2>1. /\ pc = "permit" /\ pc' \in {"stop", "hide"} /\ UNCHANGED pending
          /\ UNCHANGED <<dirs, registered, claims, workspace>>
      BY <1>8 DEF PrepareWorkspacePermissions, Attempt, Goto, EnterDestroy
    <2>2. sb'.destroyed = sb.destroyed
      BY <1>8, Zenon DEF PrepareWorkspacePermissions, EnterDestroy, TypeOK, Flags
    <2>. QED  BY <1>a, <1>c, <2>1, <2>2 DEF Building, Removing
  <1>9. CASE HideGitPointer
    <2>1. /\ pc = "hide" /\ pc' \in {"stop", "announce"} /\ UNCHANGED pending
          /\ UNCHANGED <<dirs, registered, claims, workspace>>
      BY <1>9 DEF HideGitPointer, Hide, Goto, EnterDestroy
    <2>2. sb'.destroyed = sb.destroyed
      BY <1>9, Zenon DEF HideGitPointer, EnterDestroy, TypeOK, Flags
    <2>. QED  BY <1>a, <1>c, <2>1, <2>2 DEF Building, Removing
  <1>10. CASE RecordCreate
    <2>1. /\ pc = "announce" /\ pc' \in {"stop", "idle"} /\ UNCHANGED pending
          /\ UNCHANGED <<dirs, registered, claims, workspace>>
      BY <1>10 DEF RecordCreate, Attempt, Return, EnterDestroy
    <2>2. sb'.destroyed = sb.destroyed
      BY <1>10, Zenon DEF RecordCreate, EnterDestroy, TypeOK, Flags
    <2>. QED  BY <1>a, <1>c, <2>1, <2>2 DEF Building, Removing
  <1>11. CASE CreateContainer
    BY <1>11, <1>a, <1>c DEF Building, Removing, Running, Destroying, CreateContainer, Goto
  <1>12. CASE Reinspect
    BY <1>12, <1>a, <1>c DEF Building, Removing, Running, Destroying, Reinspect, Attempt, Fail, ReturnDestroy,
       Return
  <1>13. CASE Start
    BY <1>13, <1>a, <1>c DEF Building, Removing, Running, Destroying, Start, Attempt, Goto
  <1>14. CASE Finish
    BY <1>14, <1>a, <1>c DEF Building, Removing, Running, Destroying, Finish, Attempt
  <1>15. CASE Interrupt
    BY <1>15, <1>a, <1>c DEF Building, Removing, Running, Destroying, Interrupt
  <1>16. CASE Kill
    BY <1>16, <1>a, <1>c DEF Building, Removing, Running, Destroying, Kill, KillContainer, Goto, Attempt
  <1>17. CASE Remove
    <2>1. UNCHANGED <<dirs, registered, claims, workspace>>
      BY <1>17, RemoveOnlyRemoves DEF Remove
    <2>2. /\ pc \in {"remove", "drop", "again"} /\ UNCHANGED <<pending, sb>>
          /\ pc' \notin Building \cup Removing \cup {"new"}
      BY <1>17 DEF Remove, Fail, Goto, ReturnDestroy, Return, Building, Removing
    <2>. QED  BY <1>a, <1>c, <2>1, <2>2 DEF Running, Destroying
  <1>18. CASE RecordCompleted
    BY <1>18, <1>a, <1>c DEF Building, Removing, Running, Destroying, RecordCompleted, Attempt, Return
  <1>19. ASSUME NEW n \in Names, StopContainer(n) PROVE OnDisk'
    BY <1>19, <1>a, <1>c DEF Building, Removing, Running, Destroying, StopContainer, KillContainer, Attempt
  <1>20. ASSUME NEW n \in Names, DropAgain(n) PROVE OnDisk'
    <2>1. UNCHANGED <<dirs, registered, claims, workspace>>
      BY <1>20, RemoveOnlyRemoves DEF DropAgain
    <2>2. /\ pc \in {"remove", "drop", "again"} /\ UNCHANGED <<pending, sb>>
          /\ pc' \notin Building \cup Removing \cup {"new"}
      BY <1>20 DEF DropAgain, Building, Removing
    <2>. QED  BY <1>a, <1>c, <2>1, <2>2 DEF Running, Destroying
  <1>21. CASE DropContainer
    <2>1. UNCHANGED <<dirs, registered, claims, workspace>>
      BY <1>21, RemoveOnlyRemoves DEF DropContainer
    <2>2. /\ pc \in {"remove", "drop", "again"} /\ UNCHANGED <<pending, sb>>
          /\ pc' \notin Building \cup Removing \cup {"new"}
      BY <1>21 DEF DropContainer, Building, Removing
    <2>. QED  BY <1>a, <1>c, <2>1, <2>2 DEF Running, Destroying
  <1>22. CASE ScanOwned
    BY <1>22, <1>a, <1>c DEF Building, Removing, Running, Destroying, ScanOwned, Attempt
  <1>23. CASE Converge
    BY <1>23, <1>a, <1>c DEF Building, Removing, Running, Destroying, Converge, ReturnDestroy, Draw, Goto, Return
  <1>24. CASE RestoreGitPointer
    <2>1. /\ pc = "restore" /\ pc' = "gitremove" /\ UNCHANGED <<pending, sb>>
          /\ UNCHANGED <<dirs, registered, claims, workspace>>
      BY <1>24 DEF RestoreGitPointer, Restore
    <2>2. pending /\ ~sb.destroyed
      BY <1>c, <2>1 DEF Phase, Destroying
    <2>. QED  BY <2>1, <2>2 DEF OnDisk, Building, Removing
  <1>25. CASE RemoveWorktree
    <2>1. /\ pc = "gitremove" /\ pc' = "gitlist"
          /\ UNCHANGED <<claims, workspace, pending, sb>>
      BY <1>25 DEF RemoveWorktree, GitRemove, Goto
    <2>2. \/ UNCHANGED <<dirs, registered>>
          \/ dirs' = [dirs EXCEPT ![workspace] = "absent"] /\ registered
          \/ /\ dirs' = [dirs EXCEPT ![workspace] = dirs[workspace]]
             /\ registered /\ registered'
      BY <1>25, Zenon DEF RemoveWorktree, GitRemove, GitAccepts, Disk
    <2>3. claims = {workspace} /\ workspace \in Paths \ ForeignPaths
      BY <2>1 DEF OnDisk, Removing
    <2>4. /\ \A p \in Paths : dirs'[p] \in {dirs[p], "absent"}
          /\ \A p \in Paths \ {workspace} : dirs'[p] = dirs[p]
      BY <2>2, <2>3 DEF TypeOK
    <2>5. \A p \in Paths : dirs'[p] = "tree" => registered'
      BY <2>2, <2>3, <2>4 DEF OnDisk, TypeOK
    <2>. QED
      BY <2>1, <2>3, <2>4, <2>5 DEF OnDisk, Building, Removing
  <1>26. CASE ListWorktrees
    <2>1. pc = "gitlist" /\ UNCHANGED <<dirs, registered, claims, workspace, sb>>
      BY <1>26 DEF ListWorktrees, Listed
    <2>2. CASE pc' = "removeall" /\ pending' = pending /\ ~registered
      BY <2>1, <2>2 DEF OnDisk, Building, Removing
    <2>3. CASE pc' \in {"idle", "sanitize"} /\ pending'
      BY <2>1, <2>3 DEF OnDisk, Building, Removing
    <2>. QED
      BY <1>26, <2>2, <2>3 DEF ListWorktrees, Listed, Goto, RemovalFailed,
         Return, ReturnDestroy
  <1>27. CASE RemoveWorkspace
    <2>1. /\ pc = "removeall" /\ ~registered /\ ~sb.destroyed
          /\ claims = {workspace} /\ workspace \in Paths \ ForeignPaths
      BY <1>27 DEF RemoveWorkspace, OnDisk, Phase, Removing
    <2>2. CASE /\ RemoveAll(FALSE) /\ pending' = pending
               /\ IF pending
                    THEN sb' = [sb EXCEPT !.destroyed = TRUE] /\ pc' = "release"
                    ELSE pc' = "idle"
      <3>1. /\ dirs' = [dirs EXCEPT ![workspace] = "absent"]
            /\ claims' = {} /\ ~registered' /\ workspace' = workspace
        BY <2>1, <2>2 DEF RemoveAll, Disk
      <3>2. /\ pc' \in {"idle", "release"} /\ pending' = pending
            /\ pending => sb' = [sb EXCEPT !.destroyed = TRUE]
        BY <2>2, Zenon
      <3>3. pending => sb'.destroyed
        BY <3>2 DEF TypeOK, Flags
      <3>. QED
        BY <2>1, <3>1, <3>2, <3>3 DEF OnDisk, TypeOK, Building, Removing
    <2>3. CASE RemoveAll(TRUE) /\ RemovalFailed /\ UNCHANGED <<sb, owner>>
      <3>1. UNCHANGED <<dirs, registered, claims, workspace>>
        BY <2>1, <2>3 DEF RemoveAll, Disk, TypeOK
      <3>2. pc' \in {"idle", "sanitize"} /\ pending'
        BY <2>3 DEF RemovalFailed, ReturnDestroy, Return, Goto
      <3>. QED
        BY <2>1, <2>3, <3>1, <3>2 DEF OnDisk, Building, Removing
    <2>. QED
      BY <1>27, <2>2, <2>3, Zenon DEF RemoveWorkspace, Goto, Return
  <1>28. CASE SanitizeAgain
    BY <1>28, <1>a, <1>c DEF Building, Removing, Running, Destroying, SanitizeAgain, Hide, ReturnDestroy, Return
  <1>29. CASE ReleaseSandbox
    <2>1. /\ pc' = "idle" /\ sb.destroyed /\ claims = {}
          /\ UNCHANGED <<dirs, registered, claims, workspace>>
      BY <1>29 DEF ReleaseSandbox, RecordDestroy, Attempt, ReturnDestroy, Return, OnDisk, Phase
    <2>2. sb'.destroyed
      BY <1>29, <2>1, ZenonT(60) DEF ReleaseSandbox, RecordDestroy, TypeOK, Flags
    <2>. QED  BY <2>1, <2>2 DEF OnDisk, Building, Removing
  <1>30. CASE Destroy
    <2>1. sb'.destroyed = sb.destroyed
      BY <1>30 DEF Destroy, EnterDestroy, TypeOK, Flags
    <2>. QED  BY <1>30, <1>a, <2>1 DEF Destroy, EnterDestroy, Building, Removing
  <1>31. CASE DestroyAgain
    <2>1. /\ pc' = "idle" /\ sb.destroyed /\ claims = {}
          /\ UNCHANGED <<dirs, registered, claims, workspace>>
      BY <1>31 DEF DestroyAgain, RecordDestroy, Attempt, OnDisk, Phase
    <2>2. sb'.destroyed
      BY <1>31, <2>1, ZenonT(60) DEF DestroyAgain, RecordDestroy, TypeOK, Flags
    <2>. QED  BY <2>1, <2>2 DEF OnDisk, Building, Removing
  <1>32. ASSUME NEW p \in Patches, Execute(p) PROVE OnDisk'
    <2>1. pending
      BY <1>32 DEF Execute, Phase
    <2>. QED  BY <1>32, <1>a, <2>1 DEF Execute, Draw, Building, Removing
  <1>33. ASSUME NEW n \in Names, Surface(n) PROVE OnDisk'
    BY <1>33, <1>b DEF Surface
  <1>34. ASSUME NEW n \in Names, HelperReads(n) PROVE OnDisk'
    BY <1>34, <1>b DEF HelperReads
  <1>35. ASSUME NEW n \in Names, HelperPublishes(n) PROVE OnDisk'
    BY <1>35, <1>b DEF HelperPublishes
  <1>36. ASSUME NEW n \in Names, HelperFails(n) PROVE OnDisk'
    BY <1>36, <1>b DEF HelperFails
  <1>37. ASSUME NEW n \in Names, HelperCleans(n) PROVE OnDisk'
    BY <1>37, <1>b DEF HelperCleans, Attempt
  <1>38. CASE UNCHANGED vars
    BY <1>38, <1>b DEF vars
  <1>. QED
    BY <1>1, <1>2, <1>3, <1>4, <1>5, <1>6, <1>7, <1>8, <1>9, <1>10, <1>11,
       <1>12, <1>13, <1>14, <1>15, <1>16, <1>17, <1>18, <1>19, <1>20,
       <1>21, <1>22, <1>23, <1>24, <1>25, <1>26, <1>27, <1>28, <1>29,
       <1>30, <1>31, <1>32, <1>33, <1>34, <1>35, <1>36, <1>37, <1>38, Zenon
       DEF Next, Step, Helper

(* removeWorktree is reached only when no container is left.               *)
LEMMA BeneathStep ==
  ASSUME TypeOK, Phase, Tracking, OnDisk, Beneath, [Next]_vars
  PROVE  Beneath'
  <1>. DEFINE Shrinks == \A n \in Names : docker'[n] \in Ours => docker[n] \in Ours
  <1>. USE DEF worktreeVars, disk, daemon, ownership, tracking, loops
  <1>a. Shrinks /\ pc' # "start" /\ UNCHANGED <<dirs, registered, claims, workspace>>
          => Beneath'
    BY DEF Beneath, WorktreeOutlivesContainers
  <1>b. docker' = docker /\ pc' # "start" /\ pc \in Building \cup Removing
          => Beneath'
    BY DEF Beneath, WorktreeOutlivesContainers, Tracking, Paired, Visited,
       Creating
  <1>. HIDE DEF Shrinks
  <1>c. docker' = docker => Shrinks
    BY DEF Shrinks
  <1>d. (\A n \in Names : docker'[n] \in {docker[n], "absent"}) => Shrinks
    BY DEF Shrinks, Ours, Existing
  <1>e. ASSUME NEW n \in Names, docker[n] = "running",
               UNCHANGED <<pc, current, dirs, registered, claims, workspace>>,
               docker' \in {docker, [docker EXCEPT ![n] = "ok"],
                            [docker EXCEPT ![n] = "stopped"]}
        PROVE  Beneath'
    BY <1>e DEF Beneath, WorktreeOutlivesContainers, TypeOK, Ours, Existing
  <1>f. UNCHANGED <<pc, current, docker, dirs, registered, claims, workspace>>
          => Beneath'
    BY DEF Beneath, WorktreeOutlivesContainers
  <1>1. CASE RejectCreate
    BY <1>1, <1>a, <1>c DEF RejectCreate, Return
  <1>2. CASE BeginCreate
    BY <1>2, <1>a, <1>c DEF BeginCreate, Goto
  <1>3. CASE FailAllocation
    BY <1>3, <1>a, <1>c DEF FailAllocation, Attempt, Return
  <1>4. ASSUME NEW p \in Paths, AllocatePendingWorktree(p) PROVE Beneath'
    BY <1>4, <1>b DEF Building, Removing, AllocatePendingWorktree, Allocated, Goto, Occupied
  <1>5. CASE PrepareWorktree
    BY <1>5, <1>b DEF Building, Removing, PrepareWorktree, Prepare, Goto, Disk
  <1>6. CASE AddWorktree
    BY <1>6, <1>b DEF Building, Removing, AddWorktree, Add, Goto, Disk
  <1>7. CASE MaterializeGitTree
    BY <1>7, <1>a, <1>c DEF MaterializeGitTree, Attempt, Goto
  <1>8. CASE PrepareWorkspacePermissions
    BY <1>8, <1>a, <1>c DEF PrepareWorkspacePermissions, Attempt, Goto,
       EnterDestroy
  <1>9. CASE HideGitPointer
    BY <1>9, <1>a, <1>c DEF HideGitPointer, Hide, Goto, EnterDestroy
  <1>10. CASE RecordCreate
    BY <1>10, <1>a, <1>c DEF RecordCreate, Attempt, Return, EnterDestroy
  <1>11. CASE CreateContainer
    <2>1. /\ pc = "create" /\ UNCHANGED <<dirs, registered, claims, workspace>>
          /\ \/ docker' = docker /\ pc' # "start"
             \/ /\ Mountable /\ pc' \in {"start", "reinspect"}
                /\ current' = current
                /\ \E is \in {"created"} \cup LostCreates :
                     docker' = [docker EXCEPT ![current] = is]
      BY <1>11, Zenon DEF CreateContainer, Goto
    <2>2. CASE docker' = docker /\ pc' # "start"
      BY <1>a, <1>c, <2>1, <2>2
    <2>3. CASE Mountable
      <3>1. dirs[workspace] = "tree" /\ workspace \in claims /\ registered
        BY <2>1, <2>3 DEF Mountable, OnDisk, Phase, Running
      <3>2. pc' = "start" /\ current' \in Names => docker'[current'] \in Ours
        BY <1>11 DEF CreateContainer, Goto, TypeOK, Ours, Existing
      <3>. QED
        BY <2>1, <3>1, <3>2 DEF Beneath, WorktreeOutlivesContainers
    <2>. QED  BY <2>1, <2>2, <2>3
  <1>12. CASE Reinspect
    BY <1>12, <1>a, <1>c, Zenon DEF Reinspect, Attempt, Fail, ReturnDestroy,
       Return
  <1>13. CASE Start
    <2>1. /\ pc = "start" /\ pc' # "start"
          /\ UNCHANGED <<dirs, registered, claims, workspace>>
          /\ docker' \in {docker, [docker EXCEPT ![current] = "running"]}
      BY <1>13 DEF Start, Attempt, Goto
    <2>2. Shrinks
      BY <2>1 DEF Shrinks, Beneath, TypeOK
    <2>. QED  BY <1>a, <2>1, <2>2
  <1>14. CASE Finish
    BY <1>14, <1>a, <1>c DEF Finish, Attempt
  <1>15. CASE Interrupt
    BY <1>15, <1>a, <1>c DEF Interrupt
  <1>16. CASE Kill
    <2>1. /\ pc' # "start" /\ UNCHANGED <<dirs, registered, claims, workspace>>
          /\ \E m : docker' \in {docker, [docker EXCEPT ![m] =
                                   IF docker[m] = "running" THEN "stopped" ELSE docker[m]]}
      BY <1>16 DEF Kill, KillContainer, Attempt, Goto
    <2>2. Shrinks
      BY <2>1 DEF Shrinks, TypeOK, Ours, Existing
    <2>. QED  BY <1>a, <2>1, <2>2
  <1>17. CASE Remove
    <2>1. /\ UNCHANGED <<dirs, registered, claims, workspace>>
          /\ \A m \in Names : docker'[m] \in {docker[m], "absent"}
      BY <1>17, RemoveOnlyRemoves DEF Remove
    <2>2. pc' # "start"
      BY <1>17 DEF Remove, Fail, Goto, ReturnDestroy, Return
    <2>. QED  BY <1>a, <1>d, <2>1, <2>2
  <1>18. CASE RecordCompleted
    BY <1>18, <1>a, <1>c DEF RecordCompleted, Attempt, Return
  <1>19. ASSUME NEW n \in Names, StopContainer(n) PROVE Beneath'
    <2>1. /\ pc' # "start" /\ UNCHANGED <<dirs, registered, claims, workspace>>
          /\ \E m : docker' \in {docker, [docker EXCEPT ![m] =
                                   IF docker[m] = "running" THEN "stopped" ELSE docker[m]]}
      BY <1>19 DEF StopContainer, KillContainer, Attempt
    <2>2. Shrinks
      BY <2>1 DEF Shrinks, TypeOK, Ours, Existing
    <2>. QED  BY <1>a, <2>1, <2>2
  <1>20. ASSUME NEW n \in Names, DropAgain(n) PROVE Beneath'
    <2>1. /\ UNCHANGED <<dirs, registered, claims, workspace>>
          /\ \A m \in Names : docker'[m] \in {docker[m], "absent"}
      BY <1>20, RemoveOnlyRemoves DEF DropAgain
    <2>2. pc' # "start"
      BY <1>20 DEF DropAgain
    <2>. QED  BY <1>a, <1>d, <2>1, <2>2
  <1>21. CASE DropContainer
    <2>1. /\ UNCHANGED <<dirs, registered, claims, workspace>>
          /\ \A m \in Names : docker'[m] \in {docker[m], "absent"}
      BY <1>21, RemoveOnlyRemoves DEF DropContainer
    <2>2. pc' # "start"
      BY <1>21 DEF DropContainer
    <2>. QED  BY <1>a, <1>d, <2>1, <2>2
  <1>22. CASE ScanOwned
    <2>1. pc' # "start" /\ UNCHANGED <<dirs, registered, claims, workspace>>
      BY <1>22 DEF ScanOwned, Attempt
    <2>. QED  BY <1>22, <1>a, <1>d, <2>1, ScanOnlyRemoves
  <1>23. CASE Converge
    BY <1>23, <1>a, <1>c, Zenon DEF Converge, ReturnDestroy, Draw, Goto, Return
  <1>24. CASE RestoreGitPointer
    BY <1>24, <1>a, <1>c DEF RestoreGitPointer, Restore
  <1>25. CASE RemoveWorktree
    BY <1>25, <1>b DEF Building, Removing, RemoveWorktree, GitRemove, Goto, Disk
  <1>26. CASE ListWorktrees
    BY <1>26, <1>a, <1>c DEF ListWorktrees, Listed, Goto, RemovalFailed,
       Return, ReturnDestroy
  <1>27. CASE RemoveWorkspace
    BY <1>27, <1>b DEF Building, Removing, RemoveWorkspace, RemoveAll, Goto, Return,
       RemovalFailed, Disk, ReturnDestroy
  <1>28. CASE SanitizeAgain
    BY <1>28, <1>a, <1>c DEF SanitizeAgain, Hide, ReturnDestroy, Return
  <1>29. CASE ReleaseSandbox
    BY <1>29, <1>a, <1>c DEF ReleaseSandbox, RecordDestroy, Attempt,
       ReturnDestroy, Return
  <1>30. CASE Destroy
    BY <1>30, <1>a, <1>c DEF Destroy, EnterDestroy
  <1>31. CASE DestroyAgain
    BY <1>31, <1>a, <1>c DEF DestroyAgain, RecordDestroy, Attempt
  <1>32. ASSUME NEW p \in Patches, Execute(p) PROVE Beneath'
    BY <1>32, <1>a, <1>c DEF Execute, Draw
  <1>33. ASSUME NEW n \in Names, Surface(n) PROVE Beneath'
    <2>1. Shrinks
      BY <1>33 DEF Surface, Shrinks, TypeOK, Ours
    <2>2. pc' = "start" => docker' # docker
      BY <1>33 DEF Surface, TypeOK
    <2>. QED
      BY <1>33, <2>1 DEF Surface, Beneath, WorktreeOutlivesContainers, TypeOK, Ours, Existing
  <1>34. ASSUME NEW n \in Names, HelperReads(n) PROVE Beneath'
    <2>1. /\ docker[n] = "running"
          /\ UNCHANGED <<pc, current, dirs, registered, claims, workspace>>
          /\ docker' \in {docker, [docker EXCEPT ![n] = "ok"],
                          [docker EXCEPT ![n] = "stopped"]}
      BY <1>34 DEF HelperReads
    <2>. QED  BY <1>34, <1>e, <2>1
  <1>35. ASSUME NEW n \in Names, HelperPublishes(n) PROVE Beneath'
    <2>1. /\ docker[n] = "running"
          /\ UNCHANGED <<pc, current, dirs, registered, claims, workspace>>
          /\ docker' \in {docker, [docker EXCEPT ![n] = "ok"],
                          [docker EXCEPT ![n] = "stopped"]}
      BY <1>35 DEF HelperPublishes
    <2>. QED  BY <1>35, <1>e, <2>1
  <1>36. ASSUME NEW n \in Names, HelperFails(n) PROVE Beneath'
    <2>1. /\ docker[n] = "running"
          /\ UNCHANGED <<pc, current, dirs, registered, claims, workspace>>
          /\ docker' \in {docker, [docker EXCEPT ![n] = "ok"],
                          [docker EXCEPT ![n] = "stopped"]}
      BY <1>36 DEF HelperFails
    <2>. QED  BY <1>36, <1>e, <2>1
  <1>37. ASSUME NEW n \in Names, HelperCleans(n) PROVE Beneath'
    <2>1. /\ docker[n] = "running"
          /\ UNCHANGED <<pc, current, dirs, registered, claims, workspace>>
          /\ docker' \in {docker, [docker EXCEPT ![n] = "ok"],
                          [docker EXCEPT ![n] = "stopped"]}
      BY <1>37, Zenon DEF HelperCleans, Attempt
    <2>. QED  BY <1>37, <1>e, <2>1
  <1>38. CASE UNCHANGED vars
    BY <1>38, <1>f DEF vars
  <1>. QED
    BY <1>1, <1>2, <1>3, <1>4, <1>5, <1>6, <1>7, <1>8, <1>9, <1>10, <1>11,
       <1>12, <1>13, <1>14, <1>15, <1>16, <1>17, <1>18, <1>19, <1>20,
       <1>21, <1>22, <1>23, <1>24, <1>25, <1>26, <1>27, <1>28, <1>29,
       <1>30, <1>31, <1>32, <1>33, <1>34, <1>35, <1>36, <1>37, <1>38, Zenon
       DEF Next, Step, Helper

(* The pointer is restored only after the last container is gone.          *)
LEMMA HiddenStep ==
  ASSUME TypeOK, Phase, Tracking, Hidden, [Next]_vars
  PROVE  Hidden'
  <1>. DEFINE Calm == /\ UNCHANGED <<pointer, command>>
                      /\ \A n \in Names :
                           docker'[n] = "running" => docker[n] = "running"
              Idles == /\ pc' # "announce"
                       /\ pc' \in Running => /\ pc \in Running
                                             /\ UNCHANGED <<current, sb>>
              Ready == ~sb.provisioningFailed /\ ~sb.destroying
  <1>. USE DEF worktreeVars, disk, daemon, ownership, tracking, loops
  <1>a. Calm /\ Idles /\ (Ready' => Ready) => Hidden'
    BY Zenon DEF Hidden, CommandsSeeHiddenPointer
  <1>b. (\A n \in Names : docker[n] # "running") /\ docker' = docker
          /\ Idles /\ ~Ready' /\ pc' \notin Running => Hidden'
    BY Zenon DEF Hidden, CommandsSeeHiddenPointer
  <1>c. pc \in Creating \cup Removing \cup {"restore", "sanitize", "release"}
          => \A n \in Names : docker[n] # "running"
    BY DEF Tracking, Paired, Visited, Ours, Existing
  <1>d. pc \in Creating \cup Destroying => ~Ready
    BY DEF Phase
  <1>e. UNCHANGED <<pointer, command, docker>> => Calm
    OBVIOUS
  <1>f. UNCHANGED <<pointer, command>>
          /\ (\A n \in Names : docker'[n] \in {docker[n], "absent"}) => Calm
    OBVIOUS
  <1>g. UNCHANGED <<pc, current, sb, pointer, command>> /\ Calm => Hidden'
    BY DEF Hidden, CommandsSeeHiddenPointer
  <1>h. UNCHANGED sb => Ready' = Ready
    OBVIOUS
  <1>i. sb' = [sb EXCEPT !.destroying = TRUE] => ~Ready'
    BY DEF TypeOK, Flags
  <1>. HIDE DEF Calm, Ready
  <1>1. CASE RejectCreate
    BY <1>1, <1>a, <1>e, <1>h DEF Running, RejectCreate, Return
  <1>2. CASE BeginCreate
    BY <1>2, <1>a, <1>e, <1>h DEF Running, BeginCreate, Goto
  <1>3. CASE FailAllocation
    BY <1>3, <1>a, <1>e, <1>h DEF Running, FailAllocation, Attempt, Return
  <1>4. ASSUME NEW p \in Paths, AllocatePendingWorktree(p) PROVE Hidden'
    <2>1. pc' \in {"allocate", "prepare"} /\ UNCHANGED <<pointer, docker, command, sb>>
      BY <1>4 DEF AllocatePendingWorktree, Allocated, Occupied, Goto
    <2>. QED  BY <1>a, <1>e, <1>h, <2>1 DEF Running
  <1>5. CASE PrepareWorktree
    <2>1. pc = "prepare" /\ pc' \in {"add", "gitremove"} /\ UNCHANGED <<docker, sb>>
      BY <1>5, Zenon DEF PrepareWorktree, Goto
    <2>. QED  BY <1>b, <1>c, <1>d, <1>h, <2>1 DEF Running, Creating, Building,
                 Destroying
  <1>6. CASE AddWorktree
    <2>1. pc = "add" /\ pc' \in {"materialize", "gitremove"} /\ UNCHANGED <<docker, sb>>
      BY <1>6, Zenon DEF AddWorktree, Goto
    <2>. QED  BY <1>b, <1>c, <1>d, <1>h, <2>1 DEF Running, Creating, Building,
                 Destroying
  <1>7. CASE MaterializeGitTree
    BY <1>7, <1>a, <1>e, <1>h DEF Running, MaterializeGitTree, Attempt, Goto
  <1>8. CASE PrepareWorkspacePermissions
    <2>1. CASE Attempt(FALSE) /\ Goto("hide") /\ UNCHANGED sb
      BY <1>8, <1>a, <1>e, <1>h, <2>1 DEF PrepareWorkspacePermissions, Attempt,
         Goto, Running
    <2>2. CASE EnterDestroy
      BY <1>8, <1>b, <1>c, <1>i, <2>2 DEF PrepareWorkspacePermissions,
         EnterDestroy, Running, Creating
    <2>. QED  BY <1>8, <2>1, <2>2, Zenon DEF PrepareWorkspacePermissions
  <1>9. CASE HideGitPointer
    <2>1. CASE Hide(FALSE) /\ Goto("announce")
      BY <1>9, <1>c, <2>1 DEF HideGitPointer, Hide, Goto, Hidden, Running,
         CommandsSeeHiddenPointer, Creating
    <2>2. CASE EnterDestroy
      BY <1>9, <1>b, <1>c, <1>i, <2>2 DEF HideGitPointer, EnterDestroy,
         Running, Creating
    <2>. QED  BY <1>9, <2>1, <2>2, Zenon DEF HideGitPointer
  <1>10. CASE RecordCreate
    <2>1. CASE Attempt(FALSE) /\ Return
      BY <1>10, <1>c, <2>1 DEF RecordCreate, Attempt, Return, Hidden,
         CommandsSeeHiddenPointer, Running, Creating
    <2>2. CASE EnterDestroy
      BY <1>10, <1>b, <1>c, <1>i, <2>2 DEF RecordCreate, EnterDestroy, Running,
         Creating
    <2>. QED  BY <1>10, <2>1, <2>2, Zenon DEF RecordCreate
  <1>11. CASE CreateContainer
    <2>1. /\ pc = "create" /\ pc' \in {"start", "reinspect"}
          /\ UNCHANGED <<pointer, command, sb, current>>
      BY <1>11 DEF CreateContainer, Goto
    <2>2. Calm
      BY <1>11, SandboxAssumption DEF CreateContainer, Calm, TypeOK, Existing, Ours
    <2>. QED
      BY <1>a, <1>h, <2>1, <2>2 DEF Running
  <1>12. CASE Reinspect
    BY <1>12, <1>a, <1>e, <1>h, Zenon DEF Running, Reinspect, Attempt, Fail, ReturnDestroy,
       Return
  <1>13. CASE Start
    <2>1. /\ pc = "start" /\ pc' \in {"wait", "remove"}
          /\ UNCHANGED <<pointer, command, sb, current>>
          /\ docker' \in {docker, [docker EXCEPT ![current] = "running"]}
      BY <1>13 DEF Start, Attempt, Goto
    <2>2. current \in Names /\ command[current] # {} => pointer = "hidden"
      BY <2>1, Zenon DEF Hidden, Phase, Running
    <2>. QED
      BY <2>1, <2>2, Zenon DEF Hidden, CommandsSeeHiddenPointer, Running, TypeOK
  <1>14. CASE Finish
    BY <1>14, <1>a, <1>e, <1>h DEF Running, Finish, Attempt
  <1>15. CASE Interrupt
    BY <1>15, <1>a, <1>e, <1>h DEF Running, Interrupt
  <1>16. CASE Kill
    <2>1. /\ pc' = "remove" /\ UNCHANGED <<pointer, command, sb>>
          /\ \E m : docker' \in {docker, [docker EXCEPT ![m] =
                                   IF docker[m] = "running" THEN "stopped" ELSE docker[m]]}
      BY <1>16 DEF Kill, KillContainer, Attempt, Goto
    <2>2. Calm
      BY <2>1 DEF Calm, TypeOK
    <2>. QED
      BY <1>16, <1>a, <1>h, <2>1, <2>2 DEF Kill, Running, Goto
  <1>17. CASE Remove
    <2>1. /\ UNCHANGED <<pointer, command>>
          /\ \A m \in Names : docker'[m] \in {docker[m], "absent"}
      BY <1>17, RemoveOnlyRemoves DEF Remove
    <2>2. pc' \notin Running \cup {"announce"} /\ UNCHANGED sb
      BY <1>17 DEF Remove, Fail, Goto, ReturnDestroy, Return, Running
    <2>. QED  BY <1>a, <1>f, <1>h, <2>1, <2>2
  <1>18. CASE RecordCompleted
    BY <1>18, <1>a, <1>e, <1>h, Zenon DEF Running, RecordCompleted, Attempt, Return
  <1>19. ASSUME NEW n \in Names, StopContainer(n) PROVE Hidden'
    <2>1. /\ pc' = "drop" /\ UNCHANGED <<pointer, command, sb>>
          /\ \E m : docker' \in {docker, [docker EXCEPT ![m] =
                                   IF docker[m] = "running" THEN "stopped" ELSE docker[m]]}
      BY <1>19 DEF StopContainer, KillContainer, Attempt
    <2>2. Calm
      BY <2>1 DEF Calm, TypeOK
    <2>. QED
      BY <1>19, <1>a, <1>h, <2>1, <2>2 DEF StopContainer, Running
  <1>20. ASSUME NEW n \in Names, DropAgain(n) PROVE Hidden'
    <2>1. /\ UNCHANGED <<pointer, command>>
          /\ \A m \in Names : docker'[m] \in {docker[m], "absent"}
      BY <1>20, RemoveOnlyRemoves, Zenon DEF DropAgain
    <2>2. pc' \notin Running \cup {"announce"} /\ UNCHANGED sb
      BY <1>20 DEF DropAgain, Running
    <2>. QED  BY Zenon, <1>a, <1>f, <1>h, <2>1, <2>2
  <1>21. CASE DropContainer
    <2>1. /\ UNCHANGED <<pointer, command>>
          /\ \A m \in Names : docker'[m] \in {docker[m], "absent"}
      BY <1>21, RemoveOnlyRemoves, Zenon DEF DropContainer
    <2>2. pc' \notin Running \cup {"announce"} /\ UNCHANGED sb
      BY <1>21 DEF DropContainer, Running
    <2>. QED  BY <1>a, <1>f, <1>h, <2>1, <2>2
  <1>22. CASE ScanOwned
    <2>1. pc' = "again" /\ UNCHANGED <<pointer, command, sb>>
      BY <1>22 DEF ScanOwned, Attempt
    <2>. QED  BY <1>22, <1>a, <1>f, <1>h, <2>1, ScanOnlyRemoves DEF Running
  <1>23. CASE Converge
    <2>1. pc = "again" /\ UNCHANGED <<pointer, docker, sb>>
      BY <1>23 DEF Converge
    <2>2. CASE pc' # "create" /\ UNCHANGED command
      <3>1. pc' \in {"idle", "create", "restore"}
        BY <1>23, Zenon DEF Converge, ReturnDestroy, Return, Draw, Goto
      <3>. QED
        BY <1>a, <1>e, <1>h, <2>1, <2>2, <3>1 DEF Running
    <2>3. CASE Draw({}) /\ Tracked = {}
      <3>1. \A n \in Names : docker[n] # "running"
        BY <2>3 DEF Tracked, Tracking, Paired, Ours, Existing
      <3>2. pc' = "create" /\ ~Ready
        BY <1>d, <2>1, <2>3 DEF Draw, Destroying
      <3>3. current' \in Names => command'[current'] = {}
        BY <2>3 DEF Draw, TypeOK
      <3>. QED
        BY <2>1, <3>1, <3>2, <3>3 DEF Hidden, CommandsSeeHiddenPointer, Ready
    <2>. QED
      BY <1>23, <2>2, <2>3 DEF Converge, ReturnDestroy, Return, Goto
  <1>24. CASE RestoreGitPointer
    <2>1. pc = "restore" /\ pc' \in {"gitremove"} /\ UNCHANGED <<docker, sb>>
      BY <1>24 DEF RestoreGitPointer
    <2>. QED  BY <1>b, <1>c, <1>d, <1>h, <2>1 DEF Running, Creating, Building,
                 Destroying
  <1>25. CASE RemoveWorktree
    <2>1. pc = "gitremove" /\ pc' = "gitlist" /\ UNCHANGED <<docker, sb>>
      BY <1>25 DEF RemoveWorktree, Goto
    <2>2. ~Ready
      BY <2>1 DEF Ready, Phase, Removing
    <2>. QED  BY <1>b, <1>c, <1>h, <2>1, <2>2 DEF Running, Removing
  <1>26. CASE ListWorktrees
    BY <1>26, <1>a, <1>e, <1>h DEF Running, ListWorktrees, Listed, Goto,
       RemovalFailed, Return, ReturnDestroy
  <1>27. CASE RemoveWorkspace
    <2>1. /\ pc = "removeall" /\ pc' \in {"idle", "release", "sanitize"}
          /\ docker' = docker
          /\ sb' = sb \/ sb' = [sb EXCEPT !.destroyed = TRUE]
      BY <1>27, ZenonT(60) DEF RemoveWorkspace, RemovalFailed, ReturnDestroy,
         Return, Goto
    <2>2. ~Ready'
      BY <2>1 DEF Ready, Phase, TypeOK, Flags, Removing
    <2>. QED
      BY <1>b, <1>c, <2>1, <2>2 DEF Running, Removing
  <1>28. CASE SanitizeAgain
    <2>1. pc = "sanitize" /\ pc' \in {"idle"} /\ UNCHANGED <<docker, sb>>
      BY <1>28 DEF SanitizeAgain, ReturnDestroy, Return
    <2>. QED  BY <1>b, <1>c, <1>d, <1>h, <2>1 DEF Running, Creating, Building,
                 Destroying
  <1>29. CASE ReleaseSandbox
    <2>1. pc' = "idle" /\ UNCHANGED <<pointer, docker, command>>
      BY <1>29 DEF ReleaseSandbox, RecordDestroy, Attempt, ReturnDestroy, Return
    <2>2. sb' = sb \/ sb' = [sb EXCEPT !.destroyAudited = TRUE]
      BY <1>29, Zenon DEF ReleaseSandbox, RecordDestroy
    <2>3. Ready' = Ready
      BY <2>2 DEF Ready, TypeOK, Flags
    <2>. QED  BY <1>a, <1>e, <2>1, <2>3 DEF Running
  <1>30. CASE Destroy
    <2>1. ~Ready' /\ pc' = "stop" /\ UNCHANGED <<pointer, command, docker>>
      BY <1>30, <1>i DEF Destroy, EnterDestroy
    <2>. QED  BY <1>a, <1>e, <2>1 DEF Running
  <1>31. CASE DestroyAgain
    <2>1. pc' = "idle" /\ UNCHANGED <<pointer, docker, command>>
      BY <1>31 DEF DestroyAgain, RecordDestroy, Attempt
    <2>2. sb' = sb \/ sb' = [sb EXCEPT !.destroyAudited = TRUE]
      BY <1>31, Zenon DEF DestroyAgain, RecordDestroy
    <2>3. Ready' = Ready
      BY <2>2 DEF Ready, TypeOK, Flags
    <2>. QED  BY <1>a, <1>e, <2>1, <2>3 DEF Running
  <1>32. ASSUME NEW p \in Patches, Execute(p) PROVE Hidden'
    <2>1. Ready /\ sb' = sb /\ pointer = "hidden"
      BY <1>32, Zenon DEF Execute, Hidden, Ready
    <2>. QED
      BY <1>32, <2>1, Zenon DEF Execute, Draw, Hidden, CommandsSeeHiddenPointer, Ready
  <1>33. ASSUME NEW n \in Names, Surface(n) PROVE Hidden'
    <2>1. UNCHANGED <<pc, current, sb, pointer, command>>
      BY <1>33 DEF Surface
    <2>2. Calm
      BY <1>33 DEF Surface, Calm, TypeOK
    <2>. QED  BY <1>g, <2>1, <2>2
  <1>34. ASSUME NEW n \in Names, HelperReads(n) PROVE Hidden'
    <2>1. /\ UNCHANGED <<pc, current, sb, pointer, command>>
          /\ docker' \in {docker, [docker EXCEPT ![n] = "ok"],
                          [docker EXCEPT ![n] = "stopped"]}
      BY <1>34, Zenon DEF HelperReads
    <2>2. Calm
      BY <2>1 DEF Calm, TypeOK
    <2>. QED  BY <1>g, <2>1, <2>2
  <1>35. ASSUME NEW n \in Names, HelperPublishes(n) PROVE Hidden'
    <2>1. /\ UNCHANGED <<pc, current, sb, pointer, command>>
          /\ docker' \in {docker, [docker EXCEPT ![n] = "ok"],
                          [docker EXCEPT ![n] = "stopped"]}
      BY <1>35, Zenon DEF HelperPublishes
    <2>2. Calm
      BY <2>1 DEF Calm, TypeOK
    <2>. QED  BY <1>g, <2>1, <2>2
  <1>36. ASSUME NEW n \in Names, HelperFails(n) PROVE Hidden'
    <2>1. /\ UNCHANGED <<pc, current, sb, pointer, command>>
          /\ docker' \in {docker, [docker EXCEPT ![n] = "ok"],
                          [docker EXCEPT ![n] = "stopped"]}
      BY <1>36, Zenon DEF HelperFails
    <2>2. Calm
      BY <2>1 DEF Calm, TypeOK
    <2>. QED  BY <1>g, <2>1, <2>2
  <1>37. ASSUME NEW n \in Names, HelperCleans(n) PROVE Hidden'
    <2>1. /\ UNCHANGED <<pc, current, sb, pointer, command>>
          /\ docker' \in {docker, [docker EXCEPT ![n] = "ok"],
                          [docker EXCEPT ![n] = "stopped"]}
      BY <1>37, Zenon DEF HelperCleans, Attempt
    <2>2. Calm
      BY <2>1 DEF Calm, TypeOK
    <2>. QED  BY <1>g, <2>1, <2>2
  <1>38. CASE UNCHANGED vars
    BY <1>38, <1>e, <1>g DEF vars
  <1>. QED
    BY <1>1, <1>2, <1>3, <1>4, <1>5, <1>6, <1>7, <1>8, <1>9, <1>10, <1>11,
       <1>12, <1>13, <1>14, <1>15, <1>16, <1>17, <1>18, <1>19, <1>20,
       <1>21, <1>22, <1>23, <1>24, <1>25, <1>26, <1>27, <1>28, <1>29,
       <1>30, <1>31, <1>32, <1>33, <1>34, <1>35, <1>36, <1>37, <1>38, Zenon
       DEF Next, Step, Helper

(* IInv is preserved by every step, part by part.                          *)
LEMMA Inductive == IInv /\ [Next]_vars => IInv'
  <1>. SUFFICES ASSUME IInv, [Next]_vars PROVE IInv'
    OBVIOUS
  <1>1. TypeOK' /\ Phase'
    BY TypesStep, PhaseStep DEF IInv
  <1>2. \A m \in Names : Paired(m)'
    BY PairedStep DEF IInv
  <1>3. \A m \in Names : Visited(m)'
    BY VisitedStep DEF IInv
  <1>4. Tracking'
    BY <1>2, <1>3 DEF Tracking, Names, MaxName
  <1>5. OnDisk' /\ Beneath' /\ Hidden'
    BY OnDiskStep, BeneathStep, HiddenStep DEF IInv
  <1>. QED
    BY <1>1, <1>4, <1>5 DEF IInv

(* IInv holds in every reachable state.                                    *)
LEMMA Invariance == Spec => []IInv
  BY Initially, Inductive, PTL DEF Spec

(* The state keeps its shape through every call that fails.                *)
THEOREM SandboxTypes == Spec => []TypeOK
  <1>1. IInv => TypeOK
    BY Zenon DEF IInv
  <1>. QED
    BY <1>1, Invariance, PTL

(* A container that exists or may still appear is tracked and its sandbox  *)
(* owned, whatever fails: removeTrackedContainer never takes absence for   *)
(* the end of a create whose outcome is unknown.                           *)
THEOREM ContainersTracked == Spec => []OwnedIsTracked
  <1>1. IInv => OwnedIsTracked
    BY Zenon DEF IInv, TypeOK, Phase, Tracking, Paired, Visited, OwnedIsTracked, Tracked
  <1>. QED
    BY <1>1, Invariance, PTL

(* Destroy never pulls the worktree from beneath a container.              *)
THEOREM WorktreeStays == Spec => []WorktreeOutlivesContainers
  <1>1. IInv => WorktreeOutlivesContainers
    BY DEF IInv, Beneath
  <1>. QED
    BY <1>1, Invariance, PTL

(* When the provider holds nothing, nothing is left: every early return of *)
(* Create and Destroy either undoes what it did or keeps an owner for it.  *)
THEOREM NothingLeft == Spec => []NothingLeftBehind
  <1>1. IInv => NothingLeftBehind
    BY Zenon DEF IInv, TypeOK, Phase, Tracking, Paired, Visited, OnDisk,
       NothingLeftBehind, DiskClean, Ours, Existing
  <1>. QED
    BY <1>1, Invariance, PTL

(* Whatever a failed Create or Destroy leaves has a holder that can retry. *)
THEOREM LeftoverOwned == Spec => []LeftoverHasOwner
  <1>1. IInv => LeftoverHasOwner
    BY DEF IInv, Phase, OnDisk, LeftoverHasOwner
  <1>. QED
    BY <1>1, Invariance, PTL

(* A command's container never runs beside the real .git pointer.          *)
THEOREM PointerHidden == Spec => []CommandsSeeHiddenPointer
  <1>1. IInv => CommandsSeeHiddenPointer
    BY Zenon DEF IInv, Hidden
  <1>. QED
    BY <1>1, Invariance, PTL

(* Containers and directories that were there before are left alone.       *)
THEOREM ForeignStays == Spec => []ForeignUntouched
  <1>1. IInv => ForeignUntouched
    BY Zenon DEF IInv, Tracking, Paired, OnDisk, ForeignUntouched
  <1>. QED
    BY <1>1, Invariance, PTL

-----------------------------------------------------------------------------
(* No other container than the one the operation works on is tracked.      *)
Alone == Tracked \subseteq {current}

(* What a command has read and written. A name not drawn yet has read      *)
(* nothing. Until Destroy starts, the command's container begins without a *)
(* text; while it is alone, the text it has read is still the file's; once *)
(* it is over well its patch is in the file, and so it is when the command *)
(* is about to be audited.                                                 *)
Patching ==
  /\ DOMAIN base = Names
  /\ \A n \in Names : n > counter => base[n] = {}
  /\ ~sb.destroying =>
       /\ pc \in Running \cup {"audit"} => current \in Names
       /\ pc = "create" => docker[current] \notin Ours
       /\ pc = "start" => docker[current] = "created"
       /\ pc \in {"create", "start"} => base[current] = {}
       /\ pc = "kill" => failed
       /\ pc = "remove" /\ ~failed => docker[current] = "ok"
       /\ pc = "audit" =>
            /\ docker[current] \notin Ours /\ current \notin Tracked
            /\ command[current] \subseteq file \/ Tracked # {}
       /\ Alone /\ current \in Names =>
            /\ docker[current] = "running" =>
                 \A text \in base[current] : file \subseteq text
            /\ docker[current] = "ok" => command[current] \subseteq file

(* Nothing is read or written before the first command.                    *)
LEMMA PatchingInit == Init => Patching
  BY DEF Init, Patching, Running

(* A step of the operation, outside its containers, disturbs no command.   *)
LEMMA PatchingKept ==
  ASSUME Patching, UNCHANGED <<daemon, counter, containers>>,
         sb'.destroying = sb.destroying \/ sb'.destroying,
         pc' \notin Running \cup {"audit"}, current' \in {0, current}
  PROVE  Patching'
  <1>. USE DEF daemon
  <1>1. DOMAIN base' = Names /\ \A n \in Names : n > counter' => base'[n] = {}
    BY DEF Patching
  <1>2. pc' \notin {"create", "start", "kill", "remove", "audit"}
    BY DEF Running
  <1>3. 0 \notin Names
    BY DEF Names
  <1>4. ASSUME ~sb.destroying, Alone', current' \in Names
        PROVE  /\ docker'[current'] = "running" =>
                    \A text \in base'[current'] : file' \subseteq text
               /\ docker'[current'] = "ok" => command'[current'] \subseteq file'
    <2>1. current' = current
      BY <1>3, <1>4
    <2>2. Alone
      BY <1>4, <2>1 DEF Alone, Tracked
    <2>. QED
      BY <1>4, <2>1, <2>2 DEF Patching
  <1>. QED
    BY <1>1, <1>2, <1>4, Zenon DEF Patching

(* Once Destroy has started only the reads of the fresh names matter.      *)
LEMMA PatchingOver ==
  ASSUME TypeOK, Patching, sb.destroying, UNCHANGED <<sb, base>>,
         counter' \in {counter, counter + 1}
  PROVE  Patching'
  <1>1. DOMAIN base' = Names /\ sb'.destroying
    BY DEF Patching
  <1>2. \A n \in Names : n > counter' => n > counter
    <2>1. counter \in Nat
      BY DEF TypeOK
    <2>. QED
      BY <2>1 DEF Names
  <1>3. \A n \in Names : n > counter' => base'[n] = {}
    BY <1>2 DEF Patching
  <1>. QED
    BY <1>1, <1>3, Zenon DEF Patching

(* A container of ours is tracked under a name already drawn.              *)
LEMMA OursTracked ==
  ASSUME IInv, NEW n \in Names, docker[n] \in Ours
  PROVE  n \in Tracked /\ n <= counter
  BY DEF IInv, Tracking, Paired, Visited, Tracked

(* Beside the operation, a container changes its state and not the file.   *)
LEMMA PatchingBeside ==
  ASSUME IInv, Patching, NEW n \in Names, NEW is \in {"created", "stopped", "ok"},
         docker[n] \in {"running", "inflight"},
         docker' = [docker EXCEPT ![n] = is],
         is = "ok" => command[n] \subseteq file,
         UNCHANGED <<pc, sb, counter, containers, current, failed, command, base, file>>
  PROVE  Patching'
  <1>1. DOMAIN docker = Names
    BY DEF IInv, TypeOK
  <1>2. Tracked' = Tracked /\ (Alone' <=> Alone)
    BY DEF Tracked, Alone
  <1>3. ASSUME ~sb.destroying, current \in Names, Alone
        PROVE  /\ docker'[current] = "running" =>
                    \A text \in base[current] : file \subseteq text
               /\ docker'[current] = "ok" => command[current] \subseteq file
    BY <1>1, <1>3 DEF Patching
  <1>4. ASSUME ~sb.destroying, current \in Names
        PROVE  /\ pc = "create" => docker'[current] \notin Ours
               /\ pc = "start" => docker'[current] = "created"
               /\ pc = "remove" /\ ~failed => docker'[current] = "ok"
               /\ pc = "audit" => docker'[current] \notin Ours
    BY <1>1, <1>4 DEF Patching, Ours, Existing
  <1>. QED
    BY <1>2, <1>3, <1>4 DEF Patching, Running

(* The helper reads the file of this moment.                               *)
LEMMA PatchingRead ==
  ASSUME IInv, Patching, NEW n \in Names, docker[n] = "running",
         base' = [base EXCEPT ![n] = {file}],
         UNCHANGED <<pc, sb, counter, containers, current, failed, command, docker, file>>
  PROVE  Patching'
  <1>1. n <= counter
    BY OursTracked DEF Ours, Existing
  <1>2. Tracked' = Tracked /\ (Alone' <=> Alone)
    BY DEF Tracked, Alone
  <1>3. DOMAIN base = Names /\ counter \in Nat
    BY DEF Patching, IInv, TypeOK
  <1>4. \A m \in Names : m > counter => base'[m] = {}
    BY <1>1, <1>3 DEF Patching, Names
  <1>5. ASSUME ~sb.destroying, current \in Names
        PROVE  pc \in {"create", "start"} => base'[current] = {}
    BY <1>3, <1>5 DEF Patching, Ours, Existing
  <1>6. ASSUME ~sb.destroying, current \in Names, Alone
        PROVE  docker[current] = "running" =>
                 \A text \in base'[current] : file \subseteq text
    BY <1>3, <1>6 DEF Patching
  <1>. QED
    BY <1>2, <1>3, <1>4, <1>5, <1>6 DEF Patching, Running

(* The helper publishes the text it read, with its patch.                  *)
LEMMA PatchingPublished ==
  ASSUME IInv, Patching, NEW n \in Names, HelperPublishes(n)
  PROVE  Patching'
  <1>1. n \in Tracked
    BY OursTracked DEF HelperPublishes, Ours, Existing
  <1>2. /\ docker[n] = "running" /\ docker' = [docker EXCEPT ![n] = "ok"]
        /\ UNCHANGED <<pc, sb, counter, containers, current, failed, command, base>>
        /\ command[n] \subseteq file'
    BY DEF HelperPublishes, tracking, loops
  <1>3. Tracked' = Tracked /\ (Alone' <=> Alone)
    BY <1>2 DEF Tracked, Alone
  <1>4. DOMAIN docker = Names
    BY DEF IInv, TypeOK
  <1>5. ASSUME ~sb.destroying, current \in Names, Alone
        PROVE  docker'[current] = "ok" /\ command[current] \subseteq file'
    BY <1>1, <1>2, <1>4, <1>5 DEF Alone
  <1>6. ASSUME ~sb.destroying, current \in Names
        PROVE  /\ pc = "create" => docker'[current] \notin Ours
               /\ pc = "start" => docker'[current] = "created"
               /\ pc = "remove" /\ ~failed => docker'[current] = "ok"
               /\ pc = "audit" => docker'[current] \notin Ours
    BY <1>2, <1>4, <1>6 DEF Patching, Ours, Existing
  <1>. QED
    BY <1>1, <1>2, <1>3, <1>5, <1>6 DEF Patching, Running


(* An operation that returns has no container of its own any more.         *)
LEMMA PatchingReturned ==
  ASSUME Patching, UNCHANGED <<base, counter>>, pc' = "idle", current' = 0
  PROVE  Patching'
  BY DEF Patching, Running, Names

(* Execute draws a name whose container has not run yet.                   *)
LEMMA PatchingDrawn ==
  ASSUME IInv, Patching, NEW p \in Patches, Execute(p)
  PROVE  Patching'
  <1>1. Cardinality(ForeignNames) \in Nat
    BY SandboxAssumption, FS_CardinalityType
  <1>2. current' \in Names /\ current' > counter /\ counter' = counter + 1 /\ counter \in Nat
    BY <1>1, SandboxAssumption, WorktreeAssumption
       DEF Execute, Draw, Names, MaxName, IInv, TypeOK
  <1>3. docker[current'] \notin Ours
    <2>1. ~(current' <= counter)
      BY <1>2 DEF Names, MaxName
    <2>. QED
      BY <1>2, <2>1, OursTracked
  <1>4. base[current'] = {}
    BY <1>2 DEF Patching
  <1>5. \A n \in Names : n > counter' => base[n] = {}
    BY <1>2 DEF Patching, Names
  <1>6. pc' = "create" /\ UNCHANGED <<docker, base>>
    BY DEF Execute, Draw
  <1>. QED
    BY <1>2, <1>3, <1>4, <1>5, <1>6 DEF Patching, Ours, Existing

(* The container of a command that has not started has read nothing.       *)
LEMMA PatchingCreated ==
  ASSUME IInv, Patching, ~sb.destroying, CreateContainer
  PROVE  Patching'
  <1>1. /\ pc = "create" /\ current \in Names /\ DOMAIN docker = Names
        /\ docker[current] \in {"absent", "foreign"} /\ base[current] = {}
    BY DEF CreateContainer, Patching, Running, IInv, TypeOK
  <1>2. /\ UNCHANGED <<base, counter, current, sb, failed>>
        /\ pc' \in {"start", "reinspect"}
    BY DEF CreateContainer, Goto, loops
  <1>3. pc' = "start" => docker' = [docker EXCEPT ![current] = "created"]
    BY DEF CreateContainer, Goto
  <1>4. \/ docker' = docker
        \/ \E is \in {"created", "absent", "inflight"} : docker' = [docker EXCEPT ![current] = is]
    BY SandboxAssumption DEF CreateContainer
  <1>5. docker'[current] \notin {"running", "ok"}
    BY <1>1, <1>4
  <1>6. pc' = "start" => docker'[current] = "created"
    BY <1>1, <1>3
  <1>. QED
    BY <1>1, <1>2, <1>5, <1>6 DEF Patching

(* What a re-inspection finds has never run.                               *)
LEMMA PatchingReinspected ==
  ASSUME IInv, Patching, ~sb.destroying, Reinspect
  PROVE  Patching'
  <1>1. pc = "reinspect" /\ UNCHANGED <<daemon, sb, counter>> /\ current \in Names
    BY DEF Reinspect, Patching, Running
  <1>2. CASE Fail
    BY <1>1, <1>2, PatchingReturned DEF Fail, Return, daemon
  <1>3. CASE /\ docker[current] \in Existing /\ Resolve(current)
             /\ pc' = "remove" /\ failed' = TRUE /\ current' = current
    <2>1. containers[current] # "untracked"
      BY <1>1, <1>3, OursTracked DEF Ours, Tracked
    <2>2. Alone' => Alone
      BY <1>3, <2>1 DEF Alone, Tracked, Resolve, IInv, TypeOK
    <2>. QED
      BY <1>1, <1>3, <2>2 DEF Patching, daemon, Running
  <1>4. CASE UNCHANGED <<pc, current, failed, tracking>>
    BY <1>1, <1>4 DEF Patching, Alone, Tracked, daemon, tracking
  <1>. QED
    BY <1>2, <1>3, <1>4, Zenon DEF Reinspect

(* A container starts with nothing read.                                   *)
LEMMA PatchingStarted ==
  ASSUME IInv, Patching, ~sb.destroying, Start
  PROVE  Patching'
  <1>1. /\ pc = "start" /\ current \in Names /\ DOMAIN docker = Names
        /\ docker[current] = "created" /\ base[current] = {}
    BY DEF Start, Patching, Running, IInv, TypeOK
  <1>2. /\ UNCHANGED <<base, counter, current, sb>>
        /\ pc' = "wait" \/ (pc' = "remove" /\ failed')
        /\ docker' \in {docker, [docker EXCEPT ![current] = "running"]}
    BY DEF Start, Goto, loops
  <1>3. docker'[current] \in {"created", "running"}
    BY <1>1, <1>2
  <1>. QED
    BY <1>1, <1>2, <1>3 DEF Patching

(* A command that ends well has published its patch.                       *)
LEMMA PatchingEnded ==
  ASSUME IInv, Patching, ~sb.destroying, Finish \/ Interrupt \/ Kill
  PROVE  Patching'
  <1>1. pc \in Running /\ current \in Names /\ DOMAIN docker = Names
    BY DEF Finish, Interrupt, Kill, Patching, Running, IInv, TypeOK
  <1>2. UNCHANGED <<base, command, file, counter, containers, current, sb>>
    BY DEF Finish, Interrupt, Kill, KillContainer, Goto, loops, daemon, tracking
  <1>3. Alone' => Alone
    BY <1>2 DEF Alone, Tracked
  <1>4. docker'[current] \in {docker[current], "stopped"}
    BY <1>1 DEF Finish, Interrupt, Kill, KillContainer, daemon
  <1>5. \/ pc' = "kill" /\ failed'
        \/ pc' = "remove" /\ (failed' \/ docker'[current] = "ok")
    BY <1>1 DEF Finish, Interrupt, Kill, Goto, loops, daemon, Patching
  <1>. QED
    BY <1>1, <1>2, <1>3, <1>4, <1>5 DEF Patching

(* A command reaches its record once its container is removed.             *)
LEMMA PatchingRemoved ==
  ASSUME IInv, Patching, ~sb.destroying, Remove
  PROVE  Patching'
  <1>1. /\ pc = "remove" /\ current \in Names /\ UNCHANGED <<base, counter, sb>>
        /\ docker \in [Names -> Ours \cup {"absent", "foreign"}]
        /\ containers \in [Names -> {"untracked", "name", "id"}]
    BY DEF Remove, RemoveTracked, Patching, Running, IInv, TypeOK
  <1>2. CASE Fail
    BY <1>1, <1>2, PatchingReturned DEF Fail, Return
  <1>3. CASE RemoveTracked(current, "none") /\ ~failed /\ pc' = "audit" /\ UNCHANGED loops
    <2>1. containers[current] = "id" /\ docker[current] = "ok"
      BY <1>1, <1>3 DEF IInv, Tracking, Visited, Patching
    <2>2. /\ docker' = [docker EXCEPT ![current] = "absent"]
          /\ containers' = [containers EXCEPT ![current] = "untracked"]
          /\ UNCHANGED <<command, file>> /\ current' = current
      BY <1>3, <2>1 DEF RemoveTracked, Untrack, loops
    <2>3. docker'[current] = "absent" /\ Tracked' = Tracked \ {current}
      BY <1>1, <2>2 DEF Tracked
    <2>4. command[current] \subseteq file \/ Tracked' # {}
      BY <1>1, <2>1, <2>3 DEF Patching, Alone
    <2>. QED
      BY <1>1, <1>3, <2>2, <2>3, <2>4 DEF Patching, Ours, Existing
  <1>. QED
    BY <1>2, <1>3, Zenon DEF Remove, Goto


(* Every step keeps what the commands have read and written.               *)
LEMMA PatchingStep ==
  ASSUME IInv, Patching, [Next]_vars
  PROVE  Patching'
  <1>. USE DEF worktreeVars, disk, daemon, ownership, tracking, loops
  <1>t. TypeOK /\ Phase /\ sb \in Flags
    BY DEF IInv, TypeOK
  <1>a. ASSUME UNCHANGED <<daemon, counter, containers>>, current' \in {0, current},
               sb' = sb, pc' \notin Running \cup {"audit"}
        PROVE  Patching'
    BY <1>a, PatchingKept
  <1>b. sb.destroying /\ UNCHANGED <<sb, base>> /\ counter' \in {counter, counter + 1}
          => Patching'
    BY <1>t, PatchingOver
  <1>c. pc \in Destroying => sb.destroying
    BY <1>t DEF Phase
  <1>d. ASSUME UNCHANGED <<daemon, counter, containers>>, EnterDestroy
        PROVE  Patching'
    <2>1. sb'.destroying /\ pc' = "stop" /\ current' = current
      BY <1>d, <1>t DEF EnterDestroy, Flags
    <2>. QED
      BY <1>d, <2>1, PatchingKept DEF Running
  <1>1. CASE RejectCreate  BY <1>1, PatchingReturned DEF RejectCreate, Return
  <1>2. CASE BeginCreate  BY <1>2, <1>a DEF BeginCreate, Goto, Running
  <1>3. CASE FailAllocation  BY <1>3, PatchingReturned DEF FailAllocation, Return
  <1>4. ASSUME NEW p \in Paths, AllocatePendingWorktree(p) PROVE Patching'
    BY <1>4, <1>a DEF AllocatePendingWorktree, Goto, Running
  <1>5. CASE PrepareWorktree  BY <1>5, <1>a DEF PrepareWorktree, Goto, Running
  <1>6. CASE AddWorktree  BY <1>6, <1>a DEF AddWorktree, Goto, Running
  <1>7. CASE MaterializeGitTree  BY <1>7, <1>a DEF MaterializeGitTree, Goto, Running
  <1>8. CASE PrepareWorkspacePermissions
    <2>1. UNCHANGED <<daemon, counter, containers>> /\ (EnterDestroy \/ (Goto("hide") /\ sb' = sb))
      BY <1>8, Zenon DEF PrepareWorkspacePermissions
    <2>. QED
      BY <1>a, <1>d, <2>1 DEF Goto, Running
  <1>9. CASE HideGitPointer
    <2>1. /\ UNCHANGED <<daemon, counter, containers>>
          /\ \/ EnterDestroy
             \/ Goto("announce") /\ sb' = [sb EXCEPT !.gitPointerSanitized = TRUE]
      BY <1>9, Zenon DEF HideGitPointer
    <2>2. CASE EnterDestroy  BY <1>d, <2>1, <2>2
    <2>3. CASE Goto("announce") /\ sb' = [sb EXCEPT !.gitPointerSanitized = TRUE]
      <3>1. sb'.destroying = sb.destroying
        BY <1>t, <2>3 DEF Flags
      <3>. QED
        BY <2>1, <2>3, <3>1, PatchingKept DEF Goto, Running
    <2>. QED  BY <2>1, <2>2, <2>3
  <1>10. CASE RecordCreate
    <2>1. UNCHANGED <<daemon, counter, containers>> /\ (EnterDestroy \/ Return)
      BY <1>10, Zenon DEF RecordCreate
    <2>. QED
      BY <1>d, <2>1, PatchingReturned DEF Return
  <1>11. CASE CreateContainer
    BY <1>11, <1>b, PatchingCreated DEF CreateContainer
  <1>12. CASE Reinspect  BY <1>12, <1>b, PatchingReinspected DEF Reinspect
  <1>13. CASE Start  BY <1>13, <1>b, PatchingStarted DEF Start
  <1>14. CASE Finish  BY <1>14, <1>b, PatchingEnded DEF Finish
  <1>15. CASE Interrupt  BY <1>15, <1>b, PatchingEnded DEF Interrupt
  <1>16. CASE Kill  BY <1>16, <1>b, PatchingEnded DEF Kill, KillContainer
  <1>17. CASE Remove  BY <1>17, <1>b, PatchingRemoved DEF Remove, RemoveTracked
  <1>18. CASE RecordCompleted
    BY <1>18, PatchingReturned DEF RecordCompleted, Return
  <1>19. ASSUME NEW n \in Names, StopContainer(n) PROVE Patching'
    BY <1>19, <1>b, <1>c DEF StopContainer, KillContainer, Destroying
  <1>20. ASSUME NEW n \in Names, DropAgain(n) PROVE Patching'
    BY <1>20, <1>b, <1>c DEF DropAgain, RemoveTracked, Destroying
  <1>21. CASE DropContainer
    BY <1>21, <1>b, <1>c DEF DropContainer, RemoveTracked, Destroying
  <1>22. CASE ScanOwned  BY <1>22, <1>b, <1>c DEF ScanOwned, Destroying
  <1>23. CASE Converge  BY <1>23, <1>b, <1>c DEF Converge, Draw, Goto, Destroying
  <1>24. CASE RestoreGitPointer
    BY <1>24, <1>b, <1>c DEF RestoreGitPointer, Destroying
  <1>25. CASE RemoveWorktree  BY <1>25, <1>a DEF RemoveWorktree, Goto, Running
  <1>26. CASE ListWorktrees
    BY <1>26, <1>a DEF ListWorktrees, Goto, RemovalFailed, Return, ReturnDestroy, Running
  <1>27. CASE RemoveWorkspace
    <2>1. /\ pc' \in {"idle", "release", "sanitize"} /\ current' \in {0, current}
          /\ UNCHANGED <<daemon, counter, containers>>
          /\ sb' = sb \/ sb' = [sb EXCEPT !.destroyed = TRUE]
      BY <1>27, ZenonT(60) DEF RemoveWorkspace, RemovalFailed, ReturnDestroy,
         Return, Goto
    <2>2. sb'.destroying = sb.destroying
      BY <1>t, <2>1 DEF Flags
    <2>. QED
      BY <2>1, <2>2, PatchingKept DEF Running
  <1>28. CASE SanitizeAgain
    BY <1>28, PatchingReturned DEF SanitizeAgain, ReturnDestroy, Return
  <1>29. CASE ReleaseSandbox
    BY <1>29, PatchingReturned DEF ReleaseSandbox, ReturnDestroy, Return
  <1>30. CASE Destroy  BY <1>30, <1>d DEF Destroy
  <1>31. CASE DestroyAgain
    <2>1. /\ pc' = "idle" /\ UNCHANGED <<daemon, counter, containers, current>>
          /\ sb' = sb \/ sb' = [sb EXCEPT !.destroyAudited = TRUE]
      BY <1>31, Zenon DEF DestroyAgain, RecordDestroy
    <2>2. sb'.destroying = sb.destroying
      BY <1>t, <2>1 DEF Flags
    <2>. QED
      BY <2>1, <2>2, PatchingKept DEF Running
  <1>32. ASSUME NEW p \in Patches, Execute(p) PROVE Patching'
    BY <1>32, PatchingDrawn
  <1>33. ASSUME NEW n \in Names, Surface(n) PROVE Patching'
    BY <1>33, PatchingBeside DEF Surface
  <1>34. ASSUME NEW n \in Names, HelperReads(n) PROVE Patching'
    BY <1>34, PatchingBeside, PatchingRead DEF HelperReads
  <1>35. ASSUME NEW n \in Names, HelperPublishes(n) PROVE Patching'
    BY <1>35, PatchingPublished
  <1>36. ASSUME NEW n \in Names, HelperFails(n) PROVE Patching'
    BY <1>36, PatchingBeside DEF HelperFails
  <1>37. ASSUME NEW n \in Names, HelperCleans(n) PROVE Patching'
    BY <1>37, PatchingBeside DEF HelperCleans
  <1>38. CASE UNCHANGED vars
    BY <1>38, Zenon DEF vars, Patching, Alone, Tracked
  <1>. QED
    BY Zenon, <1>1, <1>2, <1>3, <1>4, <1>5, <1>6, <1>7, <1>8, <1>9, <1>10, <1>11,
       <1>12, <1>13, <1>14, <1>15, <1>16, <1>17, <1>18, <1>19, <1>20, <1>21,
       <1>22, <1>23, <1>24, <1>25, <1>26, <1>27, <1>28, <1>29, <1>30, <1>31,
       <1>32, <1>33, <1>34, <1>35, <1>36, <1>37, <1>38 DEF Next, Step, Helper

(* Both invariants hold in every reachable state.                          *)
LEMMA PatchingInvariance == Spec => [](IInv /\ Patching)
  <1>1. IInv /\ Patching /\ [Next]_vars => Patching'
    BY PatchingStep
  <1>. QED
    BY <1>1, Invariance, PatchingInit, PTL DEF Spec

(* Only a helper that publishes changes the file.                          *)
LEMMA OnlyHelpersPublish ==
  ASSUME [Next]_vars, file' # file
  PROVE  \E n \in Names : HelperPublishes(n)
  <1>. USE DEF worktreeVars, disk, daemon, ownership, tracking, loops
  <1>1. ~Step
    BY DEF Step, RejectCreate, BeginCreate, FailAllocation,
       AllocatePendingWorktree, PrepareWorktree, AddWorktree, MaterializeGitTree,
       PrepareWorkspacePermissions, HideGitPointer, RecordCreate, CreateContainer,
       Reinspect, Start, Finish, Interrupt, Kill, KillContainer, Remove,
       RemoveTracked, RecordCompleted, StopContainer, DropAgain, DropContainer,
       ScanOwned, Converge, RestoreGitPointer, RemoveWorktree, ListWorktrees,
       RemoveWorkspace, SanitizeAgain, ReleaseSandbox
  <1>2. ~Destroy /\ ~DestroyAgain /\ ~(\E p \in Patches : Execute(p)) /\ ~UNCHANGED vars
    BY DEF Destroy, DestroyAgain, Execute, vars
  <1>3. \A n \in Names : ~Surface(n) /\ ~HelperReads(n) /\ ~HelperFails(n) /\ ~HelperCleans(n)
    BY DEF Surface, HelperReads, HelperFails, HelperCleans
  <1>. QED
    BY <1>1, <1>2, <1>3, Zenon DEF Next, Helper

(* A published patch is undone only while the container of an earlier      *)
(* command is still tracked or a Destroy has started: the helper of the    *)
(* only container patches the text the file has when it publishes.         *)
THEOREM PublishedPatchesStay == Spec => PatchesStay
  <1>1. IInv /\ Patching /\ [Next]_vars =>
          [\/ file \subseteq file' \/ Tracked \ {current} # {} \/ sb.destroying]_vars
    <2>. SUFFICES ASSUME IInv, Patching, [Next]_vars, file' # file,
                         Tracked \ {current} = {}, ~sb.destroying
                  PROVE  file \subseteq file'
      OBVIOUS
    <2>1. PICK n \in Names : HelperPublishes(n)
      BY OnlyHelpersPublish
    <2>2. /\ docker[n] = "running" /\ base[n] # {}
          /\ file' = (UNION base[n]) \cup command[n]
      BY <2>1 DEF HelperPublishes
    <2>3. n = current /\ Alone
      BY <2>2, OursTracked DEF Ours, Existing, Alone
    <2>4. \A text \in base[n] : file \subseteq text
      BY <2>2, <2>3 DEF Patching
    <2>. QED
      BY <2>2, <2>4
  <1>. QED
    BY <1>1, PatchingInvariance, PTL DEF Spec, PatchesStay

(* execution_completed is recorded only for a container confirmed gone,    *)
(* and only with its patch in the file unless an earlier command's         *)
(* container is still tracked.                                             *)
THEOREM CompletedCommandsAreFinal == Spec => CompletedIsFinal
  <1>1. IInv /\ Patching /\ [Next]_vars =>
          [done' # done =>
             /\ docker[current] \notin Ours /\ current \notin Tracked
             /\ command[current] \subseteq file \/ Tracked # {}]_vars
    <2>. SUFFICES ASSUME IInv, Patching, [Next]_vars, done' # done
                  PROVE  /\ docker[current] \notin Ours /\ current \notin Tracked
                         /\ command[current] \subseteq file \/ Tracked # {}
      OBVIOUS
    <2>1. pc = "audit"
      BY Zenon DEF Next, Step, Helper, RejectCreate, BeginCreate, FailAllocation,
         AllocatePendingWorktree, PrepareWorktree, AddWorktree, MaterializeGitTree,
         PrepareWorkspacePermissions, HideGitPointer, RecordCreate, CreateContainer,
         Reinspect, Start, Finish, Interrupt, Kill, Remove, RecordCompleted,
         StopContainer, DropAgain, DropContainer, ScanOwned, Converge,
         RestoreGitPointer, RemoveWorktree, ListWorktrees, RemoveWorkspace,
         SanitizeAgain, ReleaseSandbox, Destroy, DestroyAgain, Execute, Surface,
         HelperReads, HelperPublishes, HelperFails, HelperCleans, vars
    <2>2. ~sb.destroying
      BY <2>1 DEF IInv, Phase
    <2>. QED
      BY <2>1, <2>2 DEF Patching
  <1>. QED
    BY <1>1, PatchingInvariance, PTL DEF Spec, CompletedIsFinal
=============================================================================
