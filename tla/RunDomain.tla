------------------------------ MODULE RunDomain ------------------------------
(***************************************************************************)
(* The pure core of a Run: package internal/domain.  A Run is an event     *)
(* log; Reduce projects it to a state and Decide picks the next command    *)
(* from that state.  Nothing here has a clock, a process or a database.    *)
(*                                                                         *)
(* Data kept: every field that a guard of the reducer or of a caller       *)
(* reads.  Strings are tags, "" is Go's zero string.  An attempt id        *)
(* "<run>:attempt:<n>" is the number n, 0 for none.  An action id is the   *)
(* SHA-256 of (type, attempt number, attempt id); it is modelled by that   *)
(* tuple, so distinct material never collides and an id fixes its type.    *)
(* The version of a Run is the length of its log.                          *)
(*                                                                         *)
(* A definition whose comment starts with "Fault:" is a wrong variant of   *)
(* the definition that follows it; no specification uses it.               *)
(***************************************************************************)
EXTENDS Naturals, Sequences

DesiredStates == {"Running", "Paused", "Cancelled"}

Statuses ==
  {"Queued", "Provisioning", "Reasoning", "Acting", "Verifying", "Repairing",
   "WaitingApproval", "Paused", "Succeeded", "Failed", "Cancelled"}

Terminal(status) == status \in {"Succeeded", "Failed", "Cancelled"}

CommandTypes ==
  {"StartAttempt", "ProvisionWorkspace", "RunReasoner", "ApplyPatch",
   "Verify", "SucceedRun", "FailRun", "CancelRun"}

IdempotencyScopes == {"scoped-idempotent", "unsafe"}

ActionOutcomes == {"failed", "ambiguous"}

NoAction == <<"", 0, 0>>

ActionType(act) == act[1]

(* State{}: what the reducer starts from, and what it returns on an error. *)
InitialState ==
  [exists |-> FALSE, desired |-> "", observed |-> "", resume |-> "",
   attempt |-> 0, aid |-> 0,
   pend |-> NoAction, pendType |-> "", pendAid |-> 0, pendScope |-> "",
   done |-> NoAction, tool |-> "", patch |-> FALSE, verified |-> FALSE,
   failure |-> ""]

Rejected == InitialState

(* An event with no payload.  Worker and token are the fencing authority;  *)
(* seq and created_at are not compared by anything and are left out.       *)
Event(type, key, worker, token) ==
  [type |-> type, key |-> key, act |-> NoAction, aid |-> 0, scope |-> "",
   outcome |-> "", desired |-> "", tool |-> "", reason |-> "",
   worker |-> worker, token |-> token]

-----------------------------------------------------------------------------
(* The transition table.                                                   *)

Detours == {"Paused", "WaitingApproval", "Failed", "Cancelled"}

Successors(from) ==
  CASE from = ""                -> {"Queued"}
    [] from = "Queued"          -> {"Provisioning"} \cup Detours
    [] from = "Provisioning"    -> {"Reasoning"} \cup Detours
    [] from = "Reasoning"       -> {"Acting"} \cup Detours
    [] from = "Acting"          -> {"Verifying"} \cup Detours
    [] from = "Verifying"       -> {"Succeeded", "Repairing"} \cup Detours
    [] from = "Repairing"       -> {"Reasoning"} \cup Detours
    [] from = "WaitingApproval" -> {"Reasoning", "Paused", "Failed", "Cancelled"}
    [] from = "Paused"          -> Statuses \ {"Paused"}
    [] OTHER                    -> {}

ValidateTransition(from, to) == ~Terminal(from) /\ to \in Successors(from)

Transition(s, next) ==
  IF ValidateTransition(s.observed, next)
  THEN [s EXCEPT !.observed = next] ELSE Rejected

(* Fault: a result that arrives while the Run is Paused is dropped.        *)
AdvanceManagedState_DropsWhilePaused(s, next) ==
  IF s.observed = "Paused" THEN s ELSE Transition(s, next)

(* While the Run is Paused a managed result advances only the state it     *)
(* will resume in.                                                         *)
AdvanceManagedState(s, next) ==
  IF s.observed # "Paused" THEN Transition(s, next)
  ELSE IF ValidateTransition(s.resume, next)
       THEN [s EXCEPT !.resume = next] ELSE Rejected

LogicalState(s) == IF s.observed = "Paused" THEN s.resume ELSE s.observed

-----------------------------------------------------------------------------
(* Decide: the single next command.                                        *)

Noop == [type |-> "Noop", act |-> NoAction, aid |-> 0]

CommandFor(s, type) ==
  [type |-> type, act |-> <<type, s.attempt, s.aid>>, aid |-> s.aid]

(* Reasoning and Verifying keep the identity of an action already pending. *)
SameIfPending(s, command) ==
  IF s.pend # NoAction THEN [command EXCEPT !.act = s.pend] ELSE command

DecideByStatus(s) ==
  CASE s.observed = "Queued"       -> [CommandFor(s, "StartAttempt")
                                         EXCEPT !.aid = s.attempt + 1]
    [] s.observed = "Provisioning" -> CommandFor(s, "ProvisionWorkspace")
    [] s.observed = "Reasoning"    -> SameIfPending(s, CommandFor(s, "RunReasoner"))
    [] s.observed = "Acting"       -> CommandFor(s, "ApplyPatch")
    [] s.observed = "Verifying"    -> IF s.verified
                                      THEN CommandFor(s, "SucceedRun")
                                      ELSE SameIfPending(s, CommandFor(s, "Verify"))
    [] OTHER                       -> Noop

Decide(s) ==
  IF ~s.exists \/ Terminal(s.observed) THEN Noop
  ELSE IF s.desired = "Cancelled" THEN CommandFor(s, "CancelRun")
  ELSE IF s.desired = "Paused" \/ s.observed \in {"Paused", "WaitingApproval"} THEN Noop
  ELSE IF s.failure # "" THEN CommandFor(s, "FailRun")
  ELSE DecideByStatus(s)

-----------------------------------------------------------------------------
(* The reducer, operator events.                                           *)

ApplyRunCreated(s) ==
  IF s.exists THEN Rejected
  ELSE [InitialState EXCEPT !.exists = TRUE, !.desired = "Running",
                            !.observed = "Queued"]

PauseIntent(s) ==
  IF s.desired = "Running" /\ ValidateTransition(s.observed, "Paused")
  THEN [s EXCEPT !.resume = s.observed, !.observed = "Paused", !.desired = "Paused"]
  ELSE Rejected

(* Fault: resume restarts reasoning wherever the Run was paused.           *)
ResumeIntent_Elsewhere(s) ==
  IF s.desired = "Paused" /\ s.observed = "Paused"
  THEN [s EXCEPT !.observed = "Reasoning", !.resume = "", !.desired = "Running"]
  ELSE Rejected

ResumeIntent(s) ==
  IF /\ s.desired = "Paused" /\ s.observed = "Paused"
     /\ ValidateTransition("Paused", s.resume)
  THEN [s EXCEPT !.observed = s.resume, !.resume = "", !.desired = "Running"]
  ELSE Rejected

(* Fault: cancel forgets the pending action.                               *)
CancelIntent_ForgetsPending(s) ==
  [s EXCEPT !.desired = "Cancelled", !.pend = NoAction, !.pendType = ""]

CancelIntent(s) ==
  IF s.desired # "Cancelled" THEN [s EXCEPT !.desired = "Cancelled"] ELSE Rejected

ApplyDesiredState(s, desired) ==
  IF ~s.exists \/ Terminal(s.observed) THEN Rejected
  ELSE CASE desired = "Paused"    -> PauseIntent(s)
         [] desired = "Running"   -> ResumeIntent(s)
         [] desired = "Cancelled" -> CancelIntent(s)
         [] OTHER                 -> Rejected

-----------------------------------------------------------------------------
(* The reducer, managed action events.                                     *)

ClearPending(s) ==
  [s EXCEPT !.pend = NoAction, !.pendType = "", !.pendAid = 0, !.pendScope = ""]

(* Planning is accepted only for the very command Decide would choose now. *)
ApplyActionPlanned(s, e) ==
  LET command == Decide(s)
  IN  IF /\ s.exists
         /\ e.act # NoAction /\ e.scope \in IdempotencyScopes
         /\ s.pend = NoAction
         /\ command.type # "Noop" /\ command.act = e.act
         /\ command.type = "StartAttempt" => e.aid = command.aid
      THEN [s EXCEPT !.pend = e.act, !.pendType = ActionType(e.act),
                     !.pendAid = e.aid, !.pendScope = e.scope]
      ELSE Rejected

RequireManagedPendingAction(s, act) ==
  /\ act # NoAction
  /\ act = s.pend
  /\ ActionType(act) = s.pendType

(* The logical state a completed action must find.                         *)
CompletesFrom(type) ==
  CASE type = "StartAttempt"       -> {"Queued"}
    [] type = "ProvisionWorkspace" -> {"Provisioning"}
    [] type = "RunReasoner"        -> {"Reasoning"}
    [] type = "ApplyPatch"         -> {"Acting"}
    [] type \in {"Verify", "SucceedRun"} -> {"Verifying"}
    [] OTHER                       -> Statuses

(* Fault: a produced patch already counts as verified.                     *)
PatchApplied_AsVerified(s) ==
  [AdvanceManagedState(s, "Verifying") EXCEPT !.patch = TRUE, !.verified = TRUE]

PatchApplied(s) ==
  LET advanced == AdvanceManagedState(s, "Verifying")
  IN  IF advanced.exists THEN [advanced EXCEPT !.patch = TRUE] ELSE Rejected

ApplyCompletedActionResult(s, e) ==
  LET type == ActionType(e.act)
      Advanced(next) == AdvanceManagedState(s, next)
  IN  IF LogicalState(s) \notin CompletesFrom(type) THEN Rejected
      ELSE CASE type = "StartAttempt" ->
                  IF e.aid # 0 /\ Advanced("Provisioning").exists
                  THEN [Advanced("Provisioning") EXCEPT !.attempt = s.attempt + 1,
                                                        !.aid = e.aid]
                  ELSE Rejected
             [] type = "ProvisionWorkspace" -> Advanced("Reasoning")
             [] type = "RunReasoner" ->
                  IF e.tool # "" /\ Advanced("Acting").exists
                  THEN [Advanced("Acting") EXCEPT !.tool = e.tool] ELSE Rejected
             [] type = "ApplyPatch" -> PatchApplied(s)
             [] type = "Verify" -> [s EXCEPT !.verified = TRUE]
             [] type = "SucceedRun" ->
                  IF s.verified THEN Advanced("Succeeded") ELSE Rejected
             [] type = "FailRun" ->
                  LET reason == IF e.reason # "" THEN e.reason ELSE s.failure
                  IN  IF reason # "" /\ Advanced("Failed").exists
                      THEN [Advanced("Failed") EXCEPT !.failure = reason]
                      ELSE Rejected
             [] type = "CancelRun" ->
                  IF s.desired = "Cancelled" THEN Advanced("Cancelled") ELSE Rejected
             [] OTHER -> Rejected

(* Fault: a result in flight is applied although the Run was cancelled.    *)
CancelWins_Never(s, e) == FALSE

(* Under cancel intent the result of any other action is recorded as done  *)
(* and changes nothing else.                                               *)
CancelWins(s, e) == s.desired = "Cancelled" /\ ActionType(e.act) # "CancelRun"

ApplyActionCompleted(s, e) ==
  LET result == IF CancelWins(s, e) THEN s ELSE ApplyCompletedActionResult(s, e)
  IN  IF RequireManagedPendingAction(s, e.act) /\ result.exists
      THEN [ClearPending(result) EXCEPT !.done = e.act]
      ELSE Rejected

(* Fault: a failed action stays pending.                                   *)
ApplyActionFailed_KeepsPending(s, e) ==
  IF RequireManagedPendingAction(s, e.act)
  THEN [s EXCEPT !.failure = e.reason] ELSE Rejected

ApplyActionFailed(s, e) ==
  LET cleared == [ClearPending(s) EXCEPT !.failure = e.reason]
  IN  IF ~( /\ RequireManagedPendingAction(s, e.act)
            /\ e.reason # ""
            /\ e.outcome \in ActionOutcomes )
      THEN Rejected
      ELSE IF e.outcome = "ambiguous" /\ s.desired # "Cancelled"
           THEN AdvanceManagedState(cleared, "WaitingApproval")
           ELSE cleared

-----------------------------------------------------------------------------
(* The reducer, events of the unleased compatibility path: the ones that   *)
(* some code appends (the others are rejected as unsupported).             *)

LegacyLifecycleResultEvents ==
  {"AttemptStarted", "WorkspaceProvisioned", "ReasoningPlanned",
   "ReasoningCompleted", "ToolCallFailed", "PatchProduced",
   "VerificationPlanned", "VerificationPassed", "RunSucceeded", "RunFailed",
   "RunCancelled"}

(* Fault: the operator's intent is not looked at.                          *)
RequireActiveState_IgnoresIntent(s, expected) == s.exists /\ s.observed = expected

RequireActiveState(s, expected) ==
  s.exists /\ s.desired = "Running" /\ s.observed = expected

(* A planned result is accepted in its state, or while Paused out of it.   *)
RequirePlannedResultState(s, expected) ==
  \/ RequireActiveState(s, expected)
  \/ /\ s.exists
     /\ s.desired = "Paused" /\ s.observed = "Paused" /\ s.resume = expected

RequirePendingAction(s, act) == act # NoAction /\ act = s.pend

ApplyAttemptStarted(s, e) ==
  IF RequireActiveState(s, "Queued") /\ e.aid # 0
  THEN [s EXCEPT !.observed = "Provisioning", !.attempt = s.attempt + 1,
                 !.aid = e.aid]
  ELSE Rejected

ApplyWorkspaceProvisioned(s) ==
  IF RequireActiveState(s, "Provisioning")
  THEN [s EXCEPT !.observed = "Reasoning"] ELSE Rejected

ApplyReasoningPlanned(s, e) ==
  IF /\ RequireActiveState(s, "Reasoning")
     /\ e.act # NoAction /\ s.pend = NoAction
  THEN [s EXCEPT !.pend = e.act] ELSE Rejected

(* Fault: the action need not be pending any more.                         *)
ApplyReasoningCompleted_Unplanned(s, e) ==
  IF RequirePlannedResultState(s, "Reasoning") /\ e.tool # ""
  THEN [AdvanceManagedState(s, "Acting") EXCEPT !.pend = NoAction, !.tool = e.tool]
  ELSE Rejected

ApplyReasoningCompleted(s, e) ==
  IF /\ RequirePlannedResultState(s, "Reasoning")
     /\ RequirePendingAction(s, e.act)
     /\ e.tool # ""
  THEN [AdvanceManagedState(s, "Acting") EXCEPT !.pend = NoAction, !.tool = e.tool]
  ELSE Rejected

ApplyToolCallFailed(s, e) ==
  IF /\ RequirePlannedResultState(s, "Reasoning")
     /\ RequirePendingAction(s, e.act)
     /\ e.reason # ""
  THEN [s EXCEPT !.pend = NoAction, !.failure = e.reason] ELSE Rejected

ApplyPatchProduced(s, e) ==
  IF RequireActiveState(s, "Acting") /\ e.act # NoAction
  THEN [s EXCEPT !.observed = "Verifying", !.patch = TRUE] ELSE Rejected

ApplyVerificationPlanned(s, e) ==
  IF /\ RequireActiveState(s, "Verifying") /\ ~s.verified
     /\ e.act # NoAction /\ s.pend = NoAction
  THEN [s EXCEPT !.pend = e.act] ELSE Rejected

ApplyVerificationPassed(s, e) ==
  IF RequirePlannedResultState(s, "Verifying") /\ RequirePendingAction(s, e.act)
  THEN [s EXCEPT !.pend = NoAction, !.verified = TRUE] ELSE Rejected

ApplyRunSucceeded(s) ==
  IF RequireActiveState(s, "Verifying") /\ s.verified /\ s.pend = NoAction
  THEN [s EXCEPT !.observed = "Succeeded"] ELSE Rejected

ApplyRunFailed(s, e) ==
  LET reason == IF e.reason # "" THEN e.reason ELSE s.failure
  IN  IF /\ s.exists /\ s.desired = "Running" /\ reason # ""
         /\ ValidateTransition(s.observed, "Failed")
      THEN [s EXCEPT !.observed = "Failed", !.failure = reason, !.pend = NoAction]
      ELSE Rejected

(* Fault: a paused Run must be resumed before it can be cancelled.         *)
ApplyRunCancelled_NotPaused(s) ==
  IF s.exists /\ s.desired = "Cancelled" /\ s.observed # "Paused"
  THEN [s EXCEPT !.observed = "Cancelled", !.pend = NoAction] ELSE Rejected

ApplyRunCancelled(s) ==
  IF s.exists /\ s.desired = "Cancelled" /\ ValidateTransition(s.observed, "Cancelled")
  THEN [s EXCEPT !.observed = "Cancelled", !.pend = NoAction] ELSE Rejected

ApplyLegacyEvent(s, e) ==
  CASE e.type = "AttemptStarted"       -> ApplyAttemptStarted(s, e)
    [] e.type = "WorkspaceProvisioned" -> ApplyWorkspaceProvisioned(s)
    [] e.type = "ReasoningPlanned"     -> ApplyReasoningPlanned(s, e)
    [] e.type = "ReasoningCompleted"   -> ApplyReasoningCompleted(s, e)
    [] e.type = "ToolCallFailed"       -> ApplyToolCallFailed(s, e)
    [] e.type = "PatchProduced"        -> ApplyPatchProduced(s, e)
    [] e.type = "VerificationPlanned"  -> ApplyVerificationPlanned(s, e)
    [] e.type = "VerificationPassed"   -> ApplyVerificationPassed(s, e)
    [] e.type = "RunSucceeded"         -> ApplyRunSucceeded(s)
    [] e.type = "RunFailed"            -> ApplyRunFailed(s, e)
    [] e.type = "RunCancelled"         -> ApplyRunCancelled(s)
    [] OTHER                           -> Rejected

-----------------------------------------------------------------------------
LeaseEvents == {"LeaseAcquired", "LeaseRenewed", "LeaseExpired"}

(* One step of Reduce.  A terminal Run takes no further event.  A result   *)
(* of the compatibility path cannot resolve a managed action.              *)

ApplyEvent(s, e) ==
  IF s.exists /\ Terminal(s.observed) THEN Rejected
  ELSE CASE e.type = "RunCreated"          -> ApplyRunCreated(s)
         [] e.type = "DesiredStateChanged" -> ApplyDesiredState(s, e.desired)
         [] e.type = "ActionPlanned"       -> ApplyActionPlanned(s, e)
         [] e.type = "ActionCompleted"     -> ApplyActionCompleted(s, e)
         [] e.type = "ActionFailed"        -> ApplyActionFailed(s, e)
         [] e.type \in LegacyLifecycleResultEvents ->
              IF s.pendType # "" THEN Rejected ELSE ApplyLegacyEvent(s, e)
         [] e.type \in LeaseEvents         ->
              IF s.exists /\ e.token # 0 THEN s ELSE Rejected
         [] OTHER                          -> Rejected

(* Reduce: the whole log, or Rejected when some event of it is illegal or  *)
(* repeats an idempotency key.                                             *)
Reduce(log) ==
  LET prefix[n \in 0 .. Len(log)] ==
        IF n = 0 THEN InitialState
        ELSE LET before == prefix[n - 1]
             IN  IF \/ n > 1 /\ ~before.exists
                    \/ \E i \in 1 .. n - 1 : log[i].key = log[n].key
                 THEN Rejected ELSE ApplyEvent(before, log[n])
  IN  prefix[Len(log)]
=============================================================================
