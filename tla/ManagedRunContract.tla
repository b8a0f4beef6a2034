------------------------- MODULE ManagedRunContract -------------------------
(***************************************************************************)
(* Proof that ManagedRun implements the abstract RunLifecycle, and of the  *)
(* properties about operator intent and earned success.  The reducer's     *)
(* effect on a Run is stated first, for one state and one event; the step  *)
(* lemmas of ManagedRunProofs then lift it to the whole system.            *)
(***************************************************************************)
EXTENDS ManagedRunProofs

-----------------------------------------------------------------------------
(* The reducer, seen through the lifecycle.                                *)

(* Everything but the position of the Run.                                 *)
SameRest(s, r) ==
  /\ r.exists = s.exists /\ r.desired = s.desired /\ r.failure = s.failure
  /\ r.verified = s.verified /\ r.pend = s.pend /\ r.pendType = s.pendType
  /\ r.attempt = s.attempt /\ r.aid = s.aid

LEMMA AdvanceEffect ==
  ASSUME NEW s \in RunStates, NEW next \in Statuses \ {"Paused"},
         AdvanceManagedState(s, next).exists
  PROVE  LET r == AdvanceManagedState(s, next)
         IN  /\ r \in RunStates /\ SameRest(s, r)
             /\ LogicalState(r) = next
             /\ r.observed = "Paused" <=> s.observed = "Paused"
             /\ r.observed # "Paused" => r.observed = next
             /\ ~Terminal(LogicalState(s)) /\ next \in Successors(LogicalState(s))
  <1>1. ~Rejected.exists
    BY DEF Rejected, InitialState
  <1>2. CASE s.observed # "Paused"
    <2>1. /\ ValidateTransition(s.observed, next)
          /\ AdvanceManagedState(s, next) = [s EXCEPT !.observed = next]
      BY <1>1, <1>2 DEF AdvanceManagedState, Transition
    <2>2. LogicalState(s) = s.observed
      BY <1>2 DEF LogicalState
    <2>3. [s EXCEPT !.observed = next].observed = next /\ next # "Paused"
      BY DEF RunStates
    <2>4. LogicalState([s EXCEPT !.observed = next]) = next
      BY <2>3 DEF LogicalState
    <2>5. SameRest(s, [s EXCEPT !.observed = next])
      BY DEF SameRest, RunStates
    <2>6. ~Terminal(s.observed) /\ next \in Successors(s.observed)
      BY <2>1 DEF ValidateTransition
    <2>. QED
      BY <1>2, <2>1, <2>2, <2>3, <2>4, <2>5, <2>6, AdvanceType
  <1>3. CASE s.observed = "Paused"
    <2>1. /\ ValidateTransition(s.resume, next)
          /\ AdvanceManagedState(s, next) = [s EXCEPT !.resume = next]
      BY <1>1, <1>3 DEF AdvanceManagedState
    <2>. QED
      BY <1>3, <2>1, AdvanceType, ZenonT(60) DEF SameRest, LogicalState, ValidateTransition, RunStates
  <1>. QED
    BY <1>2, <1>3

(* Fields the lifecycle does not see.                                      *)
Looks(s, r) ==
  /\ r.observed = s.observed /\ r.resume = s.resume
  /\ r.exists = s.exists /\ r.desired = s.desired
  /\ r.failure = s.failure /\ r.verified = s.verified
  /\ r.attempt = s.attempt /\ r.aid = s.aid

LEMMA LooksStage ==
  ASSUME NEW s, NEW r, Looks(s, r)
  PROVE  LogicalState(r) = LogicalState(s)
  BY DEF Looks, LogicalState

(* The stage a completed action leads to.                                  *)
Target(type) ==
  CASE type = "StartAttempt"             -> "Provisioning"
    [] type = "ProvisionWorkspace"       -> "Reasoning"
    [] type = "RunReasoner"              -> "Acting"
    [] type \in {"ApplyPatch", "Verify"} -> "Verifying"
    [] type = "SucceedRun"               -> "Succeeded"
    [] type = "FailRun"                  -> "Failed"
    [] OTHER                             -> "Cancelled"

(* A completed action, before its pending record is cleared: what may      *)
(* have become of s in r.                                                  *)
CompletedShape(s, type, r) ==
  LET at == LogicalState(s)
  IN  /\ r.exists /\ r.desired = s.desired
      /\ r.observed = "Paused" <=> s.observed = "Paused"
      /\ r.observed # "Paused" => r.observed = LogicalState(r)
      /\ type \in CommandTypes /\ at \in CompletesFrom(type)
      /\ LogicalState(r) = Target(type)
      /\ type # "StartAttempt" => r.attempt = s.attempt /\ r.aid = s.aid
      /\ \/ /\ at \in {"Queued", "Provisioning", "Reasoning", "Acting", "Verifying"}
            /\ LogicalState(r) = Lifecycle!PipelineNext(at)
            /\ LogicalState(r) = "Succeeded" => s.verified
            /\ r.verified = s.verified /\ r.failure = s.failure
            /\ type \notin {"Verify", "CancelRun"}
         \/ /\ type = "Verify" /\ at = "Verifying"
            /\ r.verified /\ LogicalState(r) = at /\ r.failure = s.failure
         \/ /\ type = "FailRun" /\ ~Terminal(at) /\ LogicalState(r) = "Failed"
            /\ r.verified = s.verified /\ r.failure # ""
         \/ /\ type = "CancelRun" /\ s.desired = "Cancelled" /\ ~Terminal(at)
            /\ LogicalState(r) = "Cancelled"
            /\ r.verified = s.verified /\ r.failure = s.failure

LEMMA CompletedResultEffect ==
  ASSUME NEW s \in RunStates, NEW e \in Events, s.exists,
         ApplyCompletedActionResult(s, e).exists
  PROVE  CompletedShape(s, ActionType(e.act), ApplyCompletedActionResult(s, e))
  <1>. USE DEF CompletedShape
  <1>. DEFINE type == ActionType(e.act)
              at == LogicalState(s)
              r == ApplyCompletedActionResult(s, e)
              Advanced(next) == AdvanceManagedState(s, next)
  <1>1. ~Rejected.exists
    BY DEF Rejected, InitialState
  <1>2. at \in CompletesFrom(type)
    BY <1>1 DEF ApplyCompletedActionResult
  <1>. DEFINE Targets == {"Provisioning", "Reasoning", "Acting", "Verifying", "Succeeded",
                          "Failed", "Cancelled"}
              Moved(a, next) == /\ a \in RunStates /\ SameRest(s, a)
                                /\ LogicalState(a) = next /\ ~Terminal(at)
                                /\ a.observed = "Paused" <=> s.observed = "Paused"
                                /\ a.observed # "Paused" => a.observed = next
  <1>3. \A next \in Targets : Advanced(next).exists => Moved(Advanced(next), next)
    <2>1. Targets \subseteq Statuses \ {"Paused"}
      BY DEF Statuses
    <2>. QED
      BY <2>1, AdvanceEffect
  <1>. HIDE DEF Advanced
  <1>4. type \in CommandTypes
    BY <1>1 DEF ApplyCompletedActionResult, CommandTypes
  <1>5. CASE type = "StartAttempt"
    <2>1. /\ Advanced("Provisioning").exists /\ at = "Queued"
          /\ r = [Advanced("Provisioning") EXCEPT !.attempt = s.attempt + 1, !.aid = e.aid]
      BY <1>1, <1>2, <1>5 DEF ApplyCompletedActionResult, CompletesFrom, Advanced
    <2>2. Moved(Advanced("Provisioning"), "Provisioning")
      BY <1>3, <2>1
    <2>. DEFINE a == Advanced("Provisioning")
    <2>3. /\ r.observed = a.observed /\ r.resume = a.resume /\ r.exists = a.exists
          /\ r.desired = a.desired /\ r.failure = a.failure /\ r.verified = a.verified
      BY <2>1, <2>2 DEF RunStates
    <2>4. LogicalState(r) = "Provisioning"
      BY <2>2, <2>3 DEF LogicalState
    <2>5. Lifecycle!PipelineNext(at) = "Provisioning"
      BY <2>1 DEF Lifecycle!PipelineNext
    <2>. QED
      BY <1>5, <1>2, <1>4, <2>1, <2>2, <2>3, <2>4, <2>5 DEF Target, SameRest, Looks
  <1>6. CASE type = "ProvisionWorkspace"
    <2>1. Advanced("Reasoning").exists /\ at = "Provisioning" /\ r = Advanced("Reasoning")
      BY <1>1, <1>2, <1>6 DEF ApplyCompletedActionResult, CompletesFrom, Advanced
    <2>2. Lifecycle!PipelineNext(at) = "Reasoning"
      BY <2>1 DEF Lifecycle!PipelineNext
    <2>3. Moved(r, "Reasoning")
      BY <1>3, <2>1
    <2>. QED
      BY <1>6, <1>2, <1>4, <2>1, <2>2, <2>3 DEF Target, SameRest
  <1>7. CASE type = "RunReasoner"
    <2>1. /\ Advanced("Acting").exists /\ at = "Reasoning"
          /\ r = [Advanced("Acting") EXCEPT !.tool = e.tool]
      BY <1>1, <1>2, <1>7 DEF ApplyCompletedActionResult, CompletesFrom, Advanced
    <2>2. Moved(Advanced("Acting"), "Acting")
      BY <1>3, <2>1
    <2>3. Looks(Advanced("Acting"), r)
      BY <2>1, <2>2 DEF Looks, RunStates
    <2>4. LogicalState(r) = "Acting"
      BY <2>2, <2>3, LooksStage
    <2>5. Lifecycle!PipelineNext(at) = "Acting"
      BY <2>1 DEF Lifecycle!PipelineNext
    <2>. QED
      BY <1>7, <1>2, <1>4, <2>1, <2>2, <2>3, <2>4, <2>5 DEF Target, SameRest, Looks
  <1>8. CASE type = "ApplyPatch"
    <2>1. /\ Advanced("Verifying").exists /\ at = "Acting"
          /\ r = [Advanced("Verifying") EXCEPT !.patch = TRUE]
      BY <1>1, <1>2, <1>8 DEF ApplyCompletedActionResult, CompletesFrom, Advanced, PatchApplied
    <2>2. Moved(Advanced("Verifying"), "Verifying")
      BY <1>3, <2>1
    <2>3. Looks(Advanced("Verifying"), r)
      BY <2>1, <2>2 DEF Looks, RunStates
    <2>4. LogicalState(r) = "Verifying"
      BY <2>2, <2>3, LooksStage
    <2>5. Lifecycle!PipelineNext(at) = "Verifying"
      BY <2>1 DEF Lifecycle!PipelineNext
    <2>. QED
      BY <1>8, <1>2, <1>4, <2>1, <2>2, <2>3, <2>4, <2>5 DEF Target, SameRest, Looks
  <1>9. CASE type = "Verify"
    <2>1. at = "Verifying" /\ r = [s EXCEPT !.verified = TRUE]
      BY <1>1, <1>2, <1>9 DEF ApplyCompletedActionResult, CompletesFrom
    <2>. QED
      BY <1>9, <1>2, <1>4, <2>1 DEF Target, LogicalState, RunStates
  <1>10. CASE type = "SucceedRun"
    <2>1. /\ Advanced("Succeeded").exists /\ at = "Verifying" /\ s.verified
          /\ r = Advanced("Succeeded")
      BY <1>1, <1>2, <1>10 DEF ApplyCompletedActionResult, CompletesFrom, Advanced
    <2>2. Lifecycle!PipelineNext(at) = "Succeeded"
      BY <2>1 DEF Lifecycle!PipelineNext
    <2>3. Moved(r, "Succeeded")
      BY <1>3, <2>1
    <2>. QED
      BY <1>10, <1>2, <1>4, <2>1, <2>2, <2>3, Zenon DEF Target, SameRest
  <1>11. CASE type = "FailRun"
    <2>. DEFINE reason == IF e.reason # "" THEN e.reason ELSE s.failure
    <2>1. /\ Advanced("Failed").exists /\ reason # ""
          /\ r = [Advanced("Failed") EXCEPT !.failure = reason]
      BY <1>1, <1>11 DEF ApplyCompletedActionResult, Advanced
    <2>2. Moved(Advanced("Failed"), "Failed")
      BY <1>3, <2>1
    <2>3. /\ r.failure = reason /\ r.observed = Advanced("Failed").observed
          /\ r.resume = Advanced("Failed").resume /\ r.exists = Advanced("Failed").exists
          /\ r.desired = Advanced("Failed").desired
          /\ r.verified = Advanced("Failed").verified
          /\ r.attempt = Advanced("Failed").attempt /\ r.aid = Advanced("Failed").aid
      BY <2>1, <2>2 DEF RunStates
    <2>4. LogicalState(r) = "Failed"
      BY <2>2, <2>3 DEF LogicalState
    <2>. QED
      BY <1>11, <1>2, <1>4, <2>1, <2>2, <2>3, <2>4 DEF Target, SameRest
  <1>12. CASE type = "CancelRun"
    <2>1. Advanced("Cancelled").exists /\ s.desired = "Cancelled" /\ r = Advanced("Cancelled")
      BY <1>1, <1>12 DEF ApplyCompletedActionResult, Advanced
    <2>2. Moved(r, "Cancelled")
      BY <1>3, <2>1
    <2>. QED
      BY <1>12, <1>2, <1>4, <2>1, <2>2 DEF Target, SameRest
  <1>. QED
    BY <1>5, <1>6, <1>7, <1>8, <1>9, <1>10, <1>11, <1>12, <1>4, Zenon DEF CommandTypes
-----------------------------------------------------------------------------
(* Refinement.                                                             *)

(* What the mapping needs of a Run: a Run the operator wants paused is     *)
(* Paused, and a Run is failed only for a recorded reason.                 *)
RunInv(s) ==
  /\ s \in RunStates /\ s.exists /\ s.desired \in DesiredStates
  /\ s.desired = "Paused" => s.observed = "Paused"
  /\ s.pendType = "FailRun" => s.failure # ""

(* The variables of RunLifecycle after one event, from s to r.             *)
Delivers(s) == s.desired = "Running"
                 \/ (s.observed = "Paused" /\ s.desired = "Paused" /\ s.pend # NoAction)

Kept(s, r) == /\ r.desired = s.desired
              /\ r.observed = "Paused" <=> s.observed = "Paused"

LEMMA IntentEffect ==
  ASSUME NEW s, NEW e \in Events, RunInv(s), ApplyEvent(s, e).exists,
         e.type = "DesiredStateChanged"
  PROVE  LET r == ApplyEvent(s, e)
         IN  /\ RunInv(r)
             /\ LogicalState(r) = LogicalState(s)
             /\ r.pend = s.pend /\ r.verified = s.verified /\ r.failure = s.failure
             /\ r.observed \in {"Succeeded", "Failed"} => r.desired # "Cancelled"
             /\ \/ /\ s.desired = "Running" /\ r.desired = "Paused"
                   /\ s.observed # "Paused" /\ r.observed = "Paused"
                \/ /\ s.desired = "Paused" /\ r.desired = "Running"
                   /\ s.observed = "Paused" /\ r.observed # "Paused"
                \/ /\ s.desired # "Cancelled" /\ r.desired = "Cancelled"
                   /\ r.observed = s.observed
  <1>. DEFINE r == ApplyEvent(s, e)
  <1>1. ~Rejected.exists
    BY DEF Rejected, InitialState
  <1>2. s \in RunStates /\ s.exists /\ r = ApplyDesiredState(s, e.desired)
    BY Dispatch DEF RunInv
  <1>3. ~Terminal(s.observed) /\ r \in RunStates
    BY <1>2, Dispatch, ApplyEventType DEF RunInv
  <1>4. r \in {PauseIntent(s), ResumeIntent(s), CancelIntent(s)} \ {Rejected}
    BY <1>1, <1>2 DEF ApplyDesiredState
  <1>5. CASE r = PauseIntent(s)
    <2>1. /\ s.desired = "Running" /\ ValidateTransition(s.observed, "Paused")
          /\ r = [s EXCEPT !.resume = s.observed, !.observed = "Paused", !.desired = "Paused"]
      BY <1>4, <1>5 DEF PauseIntent
    <2>2. s.observed # "Paused"
      BY <2>1 DEF ValidateTransition, Successors
    <2>3. /\ r.observed = "Paused" /\ r.resume = s.observed /\ r.desired = "Paused"
          /\ r.exists = s.exists /\ r.pend = s.pend /\ r.pendType = s.pendType
          /\ r.verified = s.verified /\ r.failure = s.failure
      BY <1>2, <2>1 DEF RunStates
    <2>4. LogicalState(r) = LogicalState(s)
      BY <2>2, <2>3 DEF LogicalState
    <2>. QED
      BY <1>3, <2>1, <2>2, <2>3, <2>4 DEF RunInv, DesiredStates
  <1>6. CASE r = ResumeIntent(s)
    <2>1. /\ s.desired = "Paused" /\ s.observed = "Paused"
          /\ ValidateTransition("Paused", s.resume)
          /\ r = [s EXCEPT !.observed = s.resume, !.resume = "", !.desired = "Running"]
      BY <1>4, <1>6 DEF ResumeIntent
    <2>2. s.resume # "Paused"
      BY <2>1 DEF ValidateTransition, Successors
    <2>3. /\ r.observed = s.resume /\ r.desired = "Running"
          /\ r.exists = s.exists /\ r.pend = s.pend /\ r.pendType = s.pendType
          /\ r.verified = s.verified /\ r.failure = s.failure
      BY <1>2, <2>1 DEF RunStates
    <2>4. LogicalState(r) = LogicalState(s)
      BY <2>1, <2>2, <2>3 DEF LogicalState
    <2>. QED
      BY <1>3, <2>1, <2>2, <2>3, <2>4 DEF RunInv, DesiredStates
  <1>7. CASE r = CancelIntent(s)
    <2>1. s.desired # "Cancelled" /\ r = [s EXCEPT !.desired = "Cancelled"]
      BY <1>4, <1>7 DEF CancelIntent
    <2>2. /\ r.observed = s.observed /\ r.resume = s.resume /\ r.desired = "Cancelled"
          /\ r.exists = s.exists /\ r.pend = s.pend /\ r.pendType = s.pendType
          /\ r.verified = s.verified /\ r.failure = s.failure
      BY <1>2, <2>1 DEF RunStates
    <2>3. LogicalState(r) = LogicalState(s) /\ r.observed \notin {"Succeeded", "Failed"}
      BY <1>3, <2>2 DEF LogicalState, Terminal
    <2>. QED
      BY <1>3, <2>1, <2>2, <2>3 DEF RunInv, DesiredStates
  <1>. QED
    BY <1>4, <1>5, <1>6, <1>7

LEMMA PlanEffect ==
  ASSUME NEW s, NEW e \in Events, RunInv(s), ApplyEvent(s, e).exists,
         e.type = "ActionPlanned"
  PROVE  LET r == ApplyEvent(s, e)
         IN  /\ RunInv(r) /\ Looks(s, r)
             /\ s.pend = NoAction /\ r.pend # NoAction
             /\ \/ s.desired = "Running"
                \/ s.desired = "Cancelled" /\ ActionType(e.act) = "CancelRun"
  <1>. DEFINE r == ApplyEvent(s, e)
  <1>1. ~Rejected.exists
    BY DEF Rejected, InitialState
  <1>2. s \in RunStates /\ r = ApplyActionPlanned(s, e) /\ r \in RunStates
        /\ ~Terminal(s.observed)
    BY Dispatch, ApplyEventType DEF RunInv
  <1>3. /\ e.act # NoAction /\ s.pend = NoAction
        /\ Decide(s).type # "Noop" /\ Decide(s).act = e.act
        /\ r = [s EXCEPT !.pend = e.act, !.pendType = ActionType(e.act),
                         !.pendAid = e.aid, !.pendScope = e.scope]
    BY <1>1, <1>2 DEF ApplyActionPlanned
  <1>4. Looks(s, r) /\ r.pend = e.act /\ r.pendType = ActionType(e.act)
    BY <1>2, <1>3 DEF Looks, RunStates
  <1>5. CASE s.desired = "Cancelled"
    <2>1. Decide(s) = CommandFor(s, "CancelRun")
      BY <1>2, <1>5 DEF Decide, RunInv
    <2>2. ActionType(e.act) = "CancelRun"
      BY <1>3, <2>1 DEF CommandFor, ActionType
    <2>. QED
      BY <1>2, <1>3, <1>4, <1>5, <2>2 DEF RunInv, Looks
  <1>6. CASE s.desired # "Cancelled"
    <2>1. s.desired = "Running"
      BY <1>3, <1>6 DEF Decide, RunInv, DesiredStates, Noop
    <2>2. ActionType(e.act) = "FailRun" => s.failure # ""
      <3>. SUFFICES ASSUME s.failure = "" PROVE ActionType(e.act) # "FailRun"
        OBVIOUS
      <3>1. Decide(s) = DecideByStatus(s)
        BY <1>3, <1>6 DEF Decide, Noop
      <3>2. \A type : CommandFor(s, type).act = <<type, s.attempt, s.aid>>
        BY DEF CommandFor
      <3>3. [CommandFor(s, "StartAttempt") EXCEPT !.aid = s.attempt + 1].act
              = <<"StartAttempt", s.attempt, s.aid>>
        BY DEF CommandFor
      <3>4. \A command : SameIfPending(s, command) = command
        BY <1>3 DEF SameIfPending
      <3>5. ASSUME NEW type, type # "FailRun", DecideByStatus(s).act = <<type, s.attempt, s.aid>>
            PROVE  ActionType(e.act) # "FailRun"
        <4>1. e.act = <<type, s.attempt, s.aid>>
          BY <1>3, <3>1, <3>5
        <4>2. ActionType(<<type, s.attempt, s.aid>>) = type
          BY DEF ActionType
        <4>. QED
          BY <3>5, <4>1, <4>2
      <3>6. DecideByStatus(s) # Noop
        <4>1. Noop.type = "Noop"
          BY DEF Noop
        <4>. QED
          BY <1>3, <3>1, <4>1
      <3>7. CASE s.observed = "Queued"
        BY <3>3, <3>5, <3>7 DEF DecideByStatus
      <3>8. CASE s.observed \in {"Provisioning", "Acting"}
        BY <3>2, <3>5, <3>8 DEF DecideByStatus
      <3>9. CASE s.observed = "Reasoning"
        BY <3>2, <3>4, <3>5, <3>9 DEF DecideByStatus
      <3>10. CASE s.observed = "Verifying"
        BY <3>2, <3>4, <3>5, <3>10 DEF DecideByStatus
      <3>. QED
        BY <3>6, <3>7, <3>8, <3>9, <3>10 DEF DecideByStatus
    <2>. QED
      BY <1>2, <1>3, <1>4, <2>1, <2>2 DEF RunInv, Looks
  <1>. QED
    BY <1>5, <1>6

LEMMA CompletedEffect ==
  ASSUME NEW s, NEW e \in Events, RunInv(s), ApplyEvent(s, e).exists,
         e.type = "ActionCompleted"
  PROVE  LET r == ApplyEvent(s, e)
             at == LogicalState(s)
         IN  /\ RunInv(r) /\ Kept(s, r)
             /\ s.pend # NoAction /\ r.pend = NoAction
             /\ r.observed \in {"Succeeded", "Failed"} => r.desired # "Cancelled"
             /\ \/ /\ s.desired = "Cancelled" /\ LogicalState(r) = at
                   /\ r.verified = s.verified /\ r.failure = s.failure
                \/ /\ Delivers(s) /\ Lifecycle!PipelineNext(at) # ""
                   /\ LogicalState(r) = Lifecycle!PipelineNext(at)
                   /\ LogicalState(r) = "Succeeded" => s.verified
                   /\ r.verified = s.verified /\ r.failure = s.failure
                \/ /\ Delivers(s) /\ at = "Verifying" /\ LogicalState(r) = at
                   /\ r.verified /\ r.failure = s.failure
                \/ /\ Delivers(s) /\ s.failure # "" /\ ~Terminal(at)
                   /\ LogicalState(r) = "Failed"
                   /\ r.verified = s.verified /\ r.failure # ""
                \/ /\ s.desired = "Cancelled" /\ ~Terminal(at)
                   /\ LogicalState(r) = "Cancelled"
                   /\ r.verified = s.verified /\ r.failure = s.failure
  <1>. DEFINE r == ApplyEvent(s, e)
              at == LogicalState(s)
              type == ActionType(e.act)
              result == IF CancelWins(s, e) THEN s ELSE ApplyCompletedActionResult(s, e)
  <1>1. ~Rejected.exists
    BY DEF Rejected, InitialState
  <1>2. /\ s \in RunStates /\ s.exists /\ s.desired \in DesiredStates
        /\ r = ApplyActionCompleted(s, e) /\ r \in RunStates /\ ~Terminal(s.observed)
        /\ s.pend = e.act /\ s.pend # NoAction /\ r.pend = NoAction
    BY Dispatch, PendingEffect, ApplyEventType DEF RunInv
  <1>3. /\ RequireManagedPendingAction(s, e.act) /\ result.exists
        /\ r = [ClearPending(result) EXCEPT !.done = e.act]
    BY <1>1, <1>2 DEF ApplyActionCompleted
  <1>4. result \in RunStates
    BY <1>2, CompletedResultType
  <1>5. Looks(result, r) /\ r.pendType = ""
    <2>. HIDE DEF result
    <2>1. Looks(result, ClearPending(result)) /\ ClearPending(result) \in RunStates
          /\ ClearPending(result).pendType = ""
      BY <1>4, ClearPendingType, Zenon DEF ClearPending, Looks, RunStates
    <2>. QED
      BY <1>3, <2>1, ZenonT(30) DEF Looks, RunStates
  <1>6. LogicalState(r) = LogicalState(result)
    BY <1>5, LooksStage
  <1>7. s.pendType = type
    BY <1>3 DEF RequireManagedPendingAction
  <1>8. CASE CancelWins(s, e)
    <2>1. s.desired = "Cancelled" /\ result = s
      BY <1>8 DEF CancelWins
    <2>2. Kept(s, r) /\ RunInv(r)
      BY <1>2, <1>5, <2>1 DEF RunInv, Kept, Looks
    <2>3. r.observed = s.observed /\ r.verified = s.verified /\ r.failure = s.failure
      BY <1>5, <2>1, ZenonT(30) DEF Looks
    <2>. QED
      BY <1>2, <1>6, <2>1, <2>2, <2>3 DEF Terminal
  <1>9. CASE ~CancelWins(s, e)
    <2>1. result = ApplyCompletedActionResult(s, e) /\ ApplyCompletedActionResult(s, e).exists
      BY <1>3, <1>9
    <2>. HIDE DEF result
    <2>2. type = "CancelRun" \/ (s.desired # "Cancelled" /\ Delivers(s))
      BY <1>2, <1>9 DEF CancelWins, Delivers, RunInv, DesiredStates
    <2>3. CompletedShape(s, type, result)
      BY <1>2, <2>1, CompletedResultEffect
    <2>4. Kept(s, r) /\ (r.observed # "Paused" => r.observed = LogicalState(r))
      BY <1>5, <1>6, <2>3 DEF Kept, Looks, CompletedShape
    <2>5. RunInv(r)
      BY <1>2, <1>3, <1>5, <2>4, ZenonT(30) DEF RunInv, Kept, Looks
    <2>6. CASE /\ at \in {"Queued", "Provisioning", "Reasoning", "Acting", "Verifying"}
               /\ LogicalState(result) = Lifecycle!PipelineNext(at)
               /\ LogicalState(result) = "Succeeded" => s.verified
               /\ result.verified = s.verified /\ result.failure = s.failure
               /\ type \notin {"Verify", "CancelRun"}
      <3>1. Lifecycle!PipelineNext(at) # ""
        BY <2>6, ZenonT(30) DEF Lifecycle!PipelineNext
      <3>. QED
        BY <1>2, <1>5, <1>6, <2>2, <2>4, <2>5, <2>6, <3>1 DEF Looks, Kept
    <2>7. CASE /\ type = "Verify" /\ at = "Verifying"
               /\ result.verified /\ LogicalState(result) = at /\ result.failure = s.failure
      BY <1>2, <1>5, <1>6, <2>2, <2>4, <2>5, <2>7, ZenonT(30) DEF Looks, Kept
    <2>8. CASE /\ type = "FailRun" /\ ~Terminal(at) /\ LogicalState(result) = "Failed"
               /\ result.verified = s.verified /\ result.failure # ""
      <3>1. s.failure # ""
        BY <1>7, <2>8, ZenonT(30) DEF RunInv
      <3>. QED
        BY <1>2, <1>5, <1>6, <2>2, <2>4, <2>5, <2>8, <3>1 DEF Looks, Kept
    <2>9. CASE /\ type = "CancelRun" /\ s.desired = "Cancelled" /\ ~Terminal(at)
               /\ LogicalState(result) = "Cancelled"
               /\ result.verified = s.verified /\ result.failure = s.failure
      BY <1>2, <1>5, <1>6, <2>4, <2>5, <2>9 DEF Looks, Kept
    <2>. QED
      BY <2>3, <2>6, <2>7, <2>8, <2>9 DEF CompletedShape
  <1>. QED
    BY <1>8, <1>9

LEMMA FailedEffect ==
  ASSUME NEW s, NEW e \in Events, RunInv(s), ApplyEvent(s, e).exists,
         e.type = "ActionFailed"
  PROVE  LET r == ApplyEvent(s, e)
             at == LogicalState(s)
         IN  /\ RunInv(r) /\ Kept(s, r)
             /\ s.pend # NoAction /\ r.pend = NoAction
             /\ r.verified = s.verified /\ r.failure # ""
             /\ r.observed \notin {"Succeeded", "Failed"}
             /\ \/ LogicalState(r) = at
                \/ /\ Delivers(s) /\ ~Terminal(at) /\ at # "WaitingApproval"
                   /\ LogicalState(r) = "WaitingApproval"
  <1>. DEFINE r == ApplyEvent(s, e)
              at == LogicalState(s)
              cleared == [ClearPending(s) EXCEPT !.failure = e.reason]
  <1>1. ~Rejected.exists
    BY DEF Rejected, InitialState
  <1>2. /\ s \in RunStates /\ s.exists /\ s.desired \in DesiredStates
        /\ r = ApplyActionFailed(s, e) /\ r \in RunStates /\ ~Terminal(s.observed)
        /\ s.pend # NoAction /\ r.pend = NoAction
    BY Dispatch, PendingEffect, ApplyEventType DEF RunInv
  <1>3. /\ e.reason # "" /\ e.reason \in Faults
        /\ r = IF e.outcome = "ambiguous" /\ s.desired # "Cancelled"
               THEN AdvanceManagedState(cleared, "WaitingApproval") ELSE cleared
    BY <1>1, <1>2 DEF ApplyActionFailed, Events
  <1>4. /\ cleared \in RunStates /\ cleared.failure = e.reason
        /\ cleared.observed = s.observed /\ cleared.resume = s.resume
        /\ cleared.exists = s.exists /\ cleared.desired = s.desired
        /\ cleared.verified = s.verified /\ cleared.pendType = ""
    <2>1. \A c \in RunStates : \A f \in Faults :
            /\ [c EXCEPT !.failure = f] \in RunStates
            /\ [c EXCEPT !.failure = f].failure = f
            /\ [c EXCEPT !.failure = f].observed = c.observed
            /\ [c EXCEPT !.failure = f].resume = c.resume
            /\ [c EXCEPT !.failure = f].exists = c.exists
            /\ [c EXCEPT !.failure = f].desired = c.desired
            /\ [c EXCEPT !.failure = f].verified = c.verified
            /\ [c EXCEPT !.failure = f].pendType = c.pendType
      BY ZenonT(30) DEF RunStates
    <2>2. ClearPending(s) \in RunStates /\ Looks(s, ClearPending(s))
          /\ ClearPending(s).pendType = ""
      BY <1>2, ClearPendingType, Zenon DEF ClearPending, Looks, RunStates
    <2>. QED
      BY <1>3, <2>1, <2>2 DEF Looks
  <1>. HIDE DEF cleared
  <1>5. LogicalState(cleared) = at
    BY <1>4 DEF LogicalState
  <1>6. CASE r = cleared
    BY <1>2, <1>3, <1>4, <1>5, <1>6 DEF RunInv, Kept, Terminal
  <1>7. CASE r = AdvanceManagedState(cleared, "WaitingApproval") /\ s.desired # "Cancelled"
    <2>1. "WaitingApproval" \in Statuses \ {"Paused"}
      BY DEF Statuses
    <2>2. /\ SameRest(cleared, r) /\ LogicalState(r) = "WaitingApproval"
          /\ r.observed = "Paused" <=> cleared.observed = "Paused"
          /\ r.observed # "Paused" => r.observed = "WaitingApproval"
          /\ ~Terminal(at) /\ "WaitingApproval" \in Successors(at)
      BY <1>4, <1>5, <1>7, <2>1, AdvanceEffect, ZenonT(60)
    <2>3. at # "WaitingApproval"
      BY <2>2 DEF Successors
    <2>4. Delivers(s)
      BY <1>2, <1>7 DEF Delivers, RunInv, DesiredStates
    <2>5. RunInv(r) /\ Kept(s, r)
      BY <1>2, <1>3, <1>4, <2>2 DEF RunInv, Kept, SameRest
    <2>. QED
      BY <1>2, <1>3, <1>4, <2>2, <2>3, <2>4, <2>5 DEF SameRest
  <1>. QED
    BY <1>3, <1>6, <1>7

-----------------------------------------------------------------------------
(* One step of the system is one step of the lifecycle, or none.           *)

ContractInv == TypeOK /\ RunInv(st) /\ CancelIsFinal

LEMMA ContractStep ==
  ASSUME ContractInv, [Next]_vars
  PROVE  /\ RunInv(st)' /\ CancelIsFinal'
         /\ [Lifecycle!LifecycleNext]_Lifecycle!lifecycle
  <1>1. TypeOK /\ RunInv(st) /\ CancelIsFinal
    BY DEF ContractInv
  <1>2. \A status : Lifecycle!Terminal(status) <=> Terminal(status)
    BY DEF Lifecycle!Terminal, Terminal
  <1>3. CASE UNCHANGED store
    BY <1>1, <1>3 DEF store, CancelIsFinal, Lifecycle!lifecycle
  <1>4. ASSUME NEW e \in Events, Appends(e)
        PROVE  RunInv(st)' /\ CancelIsFinal' /\ Lifecycle!LifecycleNext
    <2>. DEFINE at == LogicalState(st)
    <2>1. /\ st' = ApplyEvent(st, e) /\ ApplyEvent(st, e).exists
          /\ e.type \in WorkerEvents \cup {"DesiredStateChanged"}
      BY <1>4 DEF Appends
    <2>2. ~Terminal(st.observed)
      BY <1>1, <2>1, Dispatch DEF RunInv
    <2>3. ~Lifecycle!Ended
      BY <1>2, <2>2 DEF Lifecycle!Ended, LogicalState
    <2>4. CASE e.type = "DesiredStateChanged"
      <3>1. /\ RunInv(st') /\ LogicalState(st') = at
            /\ st'.pend = st.pend /\ st'.verified = st.verified /\ st'.failure = st.failure
            /\ st'.observed \in {"Succeeded", "Failed"} => st'.desired # "Cancelled"
            /\ \/ /\ st.desired = "Running" /\ st'.desired = "Paused"
                  /\ st.observed # "Paused" /\ st'.observed = "Paused"
               \/ /\ st.desired = "Paused" /\ st'.desired = "Running"
                  /\ st.observed = "Paused" /\ st'.observed # "Paused"
               \/ /\ st.desired # "Cancelled" /\ st'.desired = "Cancelled"
                  /\ st'.observed = st.observed
        BY <1>1, <2>1, <2>4, IntentEffect
      <3>2. Lifecycle!ChangeDesired
        BY <2>3, <3>1 DEF Lifecycle!ChangeDesired
      <3>. QED
        BY <3>1, <3>2 DEF Lifecycle!LifecycleNext, CancelIsFinal
    <2>5. CASE e.type = "ActionPlanned"
      <3>1. /\ RunInv(st') /\ Looks(st, st') /\ st.pend = NoAction /\ st'.pend # NoAction
            /\ st.desired = "Running" \/ st.desired = "Cancelled"
        BY <1>1, <2>1, <2>5, PlanEffect
      <3>2. LogicalState(st') = at
        BY <3>1, LooksStage
      <3>3. Lifecycle!Plan
        BY <2>3, <3>1, <3>2 DEF Lifecycle!Plan, Looks
      <3>4. CancelIsFinal'
        BY <1>1, <3>1 DEF CancelIsFinal, Looks
      <3>. QED
        BY <3>1, <3>3, <3>4 DEF Lifecycle!LifecycleNext
    <2>6. CASE e.type = "ActionCompleted"
      <3>1. /\ RunInv(st') /\ Kept(st, st') /\ st.pend # NoAction /\ st'.pend = NoAction
            /\ st'.observed \in {"Succeeded", "Failed"} => st'.desired # "Cancelled"
            /\ \/ /\ st.desired = "Cancelled" /\ LogicalState(st') = at
                  /\ st'.verified = st.verified /\ st'.failure = st.failure
               \/ /\ Delivers(st) /\ Lifecycle!PipelineNext(at) # ""
                  /\ LogicalState(st') = Lifecycle!PipelineNext(at)
                  /\ LogicalState(st') = "Succeeded" => st.verified
                  /\ st'.verified = st.verified /\ st'.failure = st.failure
               \/ /\ Delivers(st) /\ at = "Verifying" /\ LogicalState(st') = at
                  /\ st'.verified /\ st'.failure = st.failure
               \/ /\ Delivers(st) /\ st.failure # "" /\ ~Terminal(at)
                  /\ LogicalState(st') = "Failed"
                  /\ st'.verified = st.verified /\ st'.failure # ""
               \/ /\ st.desired = "Cancelled" /\ ~Terminal(at)
                  /\ LogicalState(st') = "Cancelled"
                  /\ st'.verified = st.verified /\ st'.failure = st.failure
        BY <1>1, <2>1, <2>6, CompletedEffect, ZenonT(30)
      <3>2. Delivers(st) => Lifecycle!MayDeliver
        BY DEF Delivers, Lifecycle!MayDeliver
      <3>3. \/ Lifecycle!DropResult \/ Lifecycle!Advance \/ Lifecycle!RecordVerification
            \/ Lifecycle!Fail \/ Lifecycle!Cancel
        BY <1>2, <3>1, <3>2
        DEF Kept, Lifecycle!DropResult, Lifecycle!Advance, Lifecycle!RecordVerification,
            Lifecycle!Fail, Lifecycle!Cancel
      <3>. QED
        BY <3>1, <3>3 DEF Lifecycle!LifecycleNext, CancelIsFinal
    <2>7. CASE e.type = "ActionFailed"
      <3>1. /\ RunInv(st') /\ Kept(st, st') /\ st.pend # NoAction /\ st'.pend = NoAction
            /\ st'.verified = st.verified /\ st'.failure # ""
            /\ st'.observed \notin {"Succeeded", "Failed"}
            /\ \/ LogicalState(st') = at
               \/ /\ Delivers(st) /\ ~Terminal(at) /\ at # "WaitingApproval"
                  /\ LogicalState(st') = "WaitingApproval"
        BY <1>1, <2>1, <2>7, FailedEffect
      <3>2. Lifecycle!RecordFailure
        BY <1>2, <3>1 DEF Kept, Delivers, Lifecycle!RecordFailure, Lifecycle!MayDeliver
      <3>. QED
        BY <3>1, <3>2 DEF Lifecycle!LifecycleNext, CancelIsFinal
    <2>. QED
      BY <2>1, <2>4, <2>5, <2>6, <2>7 DEF WorkerEvents
  <1>. QED
    BY <1>1, <1>3, <1>4, LogStep

LEMMA ContractInit ==
  ASSUME Init
  PROVE  ContractInv /\ Lifecycle!LifecycleInit
  <1>1. RunCreatedEvent.type = "RunCreated" /\ ~InitialState.exists
    BY DEF RunCreatedEvent, Event, InitialState
  <1>2. st = [InitialState EXCEPT !.exists = TRUE, !.desired = "Running", !.observed = "Queued"]
    BY <1>1 DEF Init, ApplyEvent, ApplyRunCreated, LegacyLifecycleResultEvents, LeaseEvents
  <1>3. /\ st.exists /\ st.desired = "Running" /\ st.observed = "Queued" /\ st.pend = NoAction
        /\ st.pendType = "" /\ st.verified = FALSE /\ st.failure = ""
    BY <1>2 DEF InitialState
  <1>4. TypeOK /\ st \in RunStates
    BY TypeInit DEF TypeOK
  <1>. QED
    BY <1>3, <1>4
    DEF ContractInv, RunInv, CancelIsFinal, DesiredStates, LogicalState,
        Lifecycle!LifecycleInit

(* Cancel intent, once durable, cannot be overtaken by a success or a      *)
(* failure.                                                                *)
THEOREM CancelWinsAlways == Spec => []CancelIsFinal
  <1>1. Init => ContractInv
    BY ContractInit
  <1>2. ContractInv /\ [Next]_vars => ContractInv'
    BY TypeStep, ContractStep DEF ContractInv
  <1>3. ContractInv => CancelIsFinal
    BY DEF ContractInv
  <1>. QED
    BY <1>1, <1>2, <1>3, PTL DEF Spec

(* Leased execution implements the lifecycle contract, for any number of   *)
(* workers, crashes, stalls and operator intents.                          *)
THEOREM LeasedExecutionImplementsLifecycle == Spec => ImplementsLifecycle
  <1>1. Init => ContractInv /\ Lifecycle!LifecycleInit
    BY ContractInit
  <1>2. ContractInv /\ [Next]_vars => ContractInv'
    BY TypeStep, ContractStep DEF ContractInv
  <1>3. ContractInv /\ [Next]_vars => [Lifecycle!LifecycleNext]_Lifecycle!lifecycle
    BY ContractStep
  <1>. QED
    BY <1>1, <1>2, <1>3, PTL DEF Spec, ImplementsLifecycle, Lifecycle!LifecycleSpec

(* A step that follows a durable pause plans nothing, one that follows a   *)
(* durable cancel plans only CancelRun, and an intent never moves the Run. *)
THEOREM IntentObeyed == Spec => IntentIsObeyed
  <1>. DEFINE Obeys ==
         log' # log =>
           LET e == log'[Len(log')]
           IN  /\ e.type = "ActionPlanned" =>
                    \/ st.desired = "Running"
                    \/ st.desired = "Cancelled" /\ ActionType(e.act) = "CancelRun"
               /\ e.type = "DesiredStateChanged" => LogicalState(st') = LogicalState(st)
  <1>1. Init => ContractInv
    BY ContractInit
  <1>2. ContractInv /\ [Next]_vars => ContractInv'
    BY TypeStep, ContractStep DEF ContractInv
  <1>3. ContractInv /\ [Next]_vars => [Obeys]_vars
    <2>. SUFFICES ASSUME ContractInv, [Next]_vars PROVE Obeys
      OBVIOUS
    <2>1. TypeOK /\ RunInv(st) /\ log \in Seq(Events)
      BY DEF ContractInv, TypeOK
    <2>2. CASE UNCHANGED store
      BY <2>2 DEF store
    <2>3. ASSUME NEW e \in Events, Appends(e) PROVE Obeys
      <3>1. log'[Len(log')] = e
        BY <2>1, <2>3 DEF Appends
      <3>2. st' = ApplyEvent(st, e) /\ ApplyEvent(st, e).exists
        BY <2>3 DEF Appends
      <3>3. e.type = "ActionPlanned" =>
              \/ st.desired = "Running"
              \/ st.desired = "Cancelled" /\ ActionType(e.act) = "CancelRun"
        BY <2>1, <3>2, PlanEffect
      <3>4. e.type = "DesiredStateChanged" => LogicalState(st') = LogicalState(st)
        BY <2>1, <3>2, IntentEffect
      <3>. QED
        BY <3>1, <3>3, <3>4
    <2>. QED
      BY <2>1, <2>2, <2>3, LogStep
  <1>. QED
    BY <1>1, <1>2, <1>3, PTL DEF Spec, IntentIsObeyed

-----------------------------------------------------------------------------
(* The identity of actions, and the commands a Run leaves behind.          *)

Failing(s) == s.failure # ""

(* The pending action is the one of its type in the current attempt; only  *)
(* a cancel can leave one in a Run whose stage is terminal, and only a Run *)
(* that reached verification is verified.                                  *)
RunIds(s) ==
  /\ s.pendType = ActionType(s.pend)
  /\ s.pend # NoAction =>
       s.pendType \in CommandTypes /\ s.pend = <<s.pendType, s.attempt, s.aid>>
  /\ s.pendType = "CancelRun" => s.desired = "Cancelled"
  /\ Terminal(LogicalState(s)) => s.pend = NoAction \/ s.pendType = "CancelRun"
  /\ s.verified => LogicalState(s) \notin {"Queued", "Provisioning", "Reasoning", "Acting"}

Rested == {"WaitingApproval", "Succeeded", "Failed", "Cancelled"}

StagesDone(s) ==
  LET stage == LogicalState(s)
  IN  CASE stage = "Queued"       -> {}
        [] stage = "Provisioning" -> {"StartAttempt"}
        [] stage = "Reasoning"    -> {"StartAttempt", "ProvisionWorkspace"}
        [] stage = "Acting"       -> {"StartAttempt", "ProvisionWorkspace", "RunReasoner"}
        [] OTHER -> {"StartAttempt", "ProvisionWorkspace", "RunReasoner", "ApplyPatch"}
                      \cup (IF s.verified THEN {"Verify"} ELSE {})

(* The commands that a Run will not decide on again, unless cancelled.     *)
Behind(s) ==
  IF LogicalState(s) \in Rested THEN CommandTypes
  ELSE IF Failing(s) THEN CommandTypes \ {"FailRun"}
  ELSE StagesDone(s)

(* What Decide picks while nothing is pending: an action of the current    *)
(* attempt, and one that is not behind.                                    *)
LEMMA DecideShape ==
  ASSUME NEW s \in RunStates, s.exists, s.pend = NoAction, Decide(s).type # "Noop"
  PROVE  /\ Decide(s).act = <<Decide(s).type, s.attempt, s.aid>>
         /\ Decide(s).type \in CommandTypes /\ ~Terminal(s.observed)
         /\ \/ s.desired = "Cancelled" /\ Decide(s).type = "CancelRun"
            \/ /\ s.desired # "Cancelled" /\ Decide(s).type # "CancelRun"
               /\ s.observed # "Paused" /\ Decide(s).type \notin Behind(s)
  <1>1. Noop.type = "Noop"
    BY DEF Noop
  <1>2. \A type : CommandFor(s, type).type = type
                  /\ CommandFor(s, type).act = <<type, s.attempt, s.aid>>
    BY DEF CommandFor
  <1>3. ~Terminal(s.observed)
    BY <1>1 DEF Decide
  <1>4. CASE s.desired = "Cancelled"
    <2>1. Decide(s) = CommandFor(s, "CancelRun")
      BY <1>3, <1>4 DEF Decide
    <2>. QED
      BY <1>2, <1>3, <1>4, <2>1 DEF CommandTypes
  <1>5. CASE s.desired # "Cancelled"
    <2>1. s.observed \notin {"Paused", "WaitingApproval"}
      BY <1>1, <1>5 DEF Decide
    <2>2. LogicalState(s) = s.observed /\ LogicalState(s) \notin Rested
      BY <1>3, <2>1 DEF LogicalState, Rested, Terminal
    <2>3. CASE Failing(s)
      <3>1. Decide(s) = CommandFor(s, "FailRun")
        BY <1>1, <1>5, <2>3 DEF Decide, Failing
      <3>2. "FailRun" \notin Behind(s)
        BY <2>2, <2>3 DEF Behind
      <3>. QED
        BY <1>2, <1>3, <1>5, <2>1, <3>1, <3>2 DEF CommandTypes
    <2>4. CASE ~Failing(s)
      <3>1. Decide(s) = DecideByStatus(s)
        BY <1>1, <1>3, <1>5, <2>4 DEF Decide, Failing
      <3>2. Behind(s) = StagesDone(s)
        BY <2>2, <2>4 DEF Behind
      <3>3. \A command : SameIfPending(s, command) = command
        BY DEF SameIfPending
      <3>. DEFINE start == [CommandFor(s, "StartAttempt") EXCEPT !.aid = s.attempt + 1]
      <3>4. start.type = "StartAttempt" /\ start.act = <<"StartAttempt", s.attempt, s.aid>>
        BY DEF CommandFor
      <3>. HIDE DEF start
      <3>. DEFINE Shape(type) == /\ Decide(s).type = type
                                 /\ Decide(s).act = <<type, s.attempt, s.aid>>
                                 /\ type \in CommandTypes \ {"CancelRun"}
                                 /\ type \notin StagesDone(s)
      <3>5. CASE s.observed = "Queued"
        <4>1. Decide(s) = start
          BY <3>1, <3>5 DEF DecideByStatus, start
        <4>2. Shape("StartAttempt")
          BY <2>2, <3>4, <3>5, <4>1 DEF StagesDone, CommandTypes
        <4>. QED
          BY <1>3, <1>5, <2>1, <3>2, <4>2
      <3>6. CASE s.observed = "Provisioning"
        <4>1. Decide(s) = CommandFor(s, "ProvisionWorkspace")
          BY <3>1, <3>6 DEF DecideByStatus
        <4>2. Shape("ProvisionWorkspace")
          BY <1>2, <2>2, <3>6, <4>1 DEF StagesDone, CommandTypes
        <4>. QED
          BY <1>3, <1>5, <2>1, <3>2, <4>2
      <3>7. CASE s.observed = "Reasoning"
        <4>1. Decide(s) = CommandFor(s, "RunReasoner")
          BY <3>1, <3>3, <3>7 DEF DecideByStatus
        <4>2. Shape("RunReasoner")
          BY <1>2, <2>2, <3>7, <4>1 DEF StagesDone, CommandTypes
        <4>. QED
          BY <1>3, <1>5, <2>1, <3>2, <4>2
      <3>8. CASE s.observed = "Acting"
        <4>1. Decide(s) = CommandFor(s, "ApplyPatch")
          BY <3>1, <3>8 DEF DecideByStatus
        <4>2. Shape("ApplyPatch")
          BY <1>2, <2>2, <3>8, <4>1 DEF StagesDone, CommandTypes
        <4>. QED
          BY <1>3, <1>5, <2>1, <3>2, <4>2
      <3>9. CASE s.observed = "Verifying" /\ s.verified
        <4>1. Decide(s) = CommandFor(s, "SucceedRun")
          BY <3>1, <3>9 DEF DecideByStatus
        <4>2. Shape("SucceedRun")
          BY <1>2, <2>2, <3>9, <4>1 DEF StagesDone, CommandTypes
        <4>. QED
          BY <1>3, <1>5, <2>1, <3>2, <4>2
      <3>10. CASE s.observed = "Verifying" /\ ~s.verified
        <4>1. Decide(s) = CommandFor(s, "Verify")
          BY <3>1, <3>3, <3>10 DEF DecideByStatus
        <4>2. Shape("Verify")
          BY <1>2, <2>2, <3>10, <4>1 DEF StagesDone, CommandTypes
        <4>. QED
          BY <1>3, <1>5, <2>1, <3>2, <4>2
      <3>. QED
        BY <1>1, <3>1, <3>5, <3>6, <3>7, <3>8, <3>9, <3>10 DEF DecideByStatus
    <2>. QED
      BY <2>3, <2>4
  <1>. QED
    BY <1>4, <1>5

(* A completed action, and everything behind it, stays behind.             *)
LEMMA BehindGrows ==
  ASSUME NEW s, NEW r, NEW type, CompletedShape(s, type, r)
  PROVE  type \in Behind(r) /\ \A t \in Behind(s) : t \in Behind(r)
  <1>1. /\ type \in CommandTypes /\ LogicalState(s) \in CompletesFrom(type)
        /\ LogicalState(r) = Target(type)
        /\ type = "Verify" => r.verified
        /\ type # "Verify" => r.verified = s.verified
    BY DEF CompletedShape
  <1>2. type # "FailRun" => (Failing(r) <=> Failing(s))
    BY DEF CompletedShape, Failing
  <1>3. \A t \in Behind(s) : t \in CommandTypes
    BY DEF Behind, StagesDone, CommandTypes
  <1>4. CASE Target(type) \in Rested
    BY <1>1, <1>3, <1>4 DEF Behind
  <1>5. CASE type \in {"StartAttempt", "ProvisionWorkspace", "RunReasoner", "ApplyPatch",
                       "Verify"}
    <2>1. /\ LogicalState(s) \notin Rested /\ LogicalState(r) \notin Rested
          /\ type # "FailRun"
      BY <1>1, <1>5 DEF CompletesFrom, Target, Rested
    <2>2. CASE Failing(s)
      BY <1>1, <1>2, <2>1, <2>2 DEF Behind
    <2>3. CASE ~Failing(s)
      <3>1. Behind(s) = StagesDone(s) /\ Behind(r) = StagesDone(r)
        BY <1>2, <2>1, <2>3 DEF Behind
      <3>2. CASE type \in {"StartAttempt", "ProvisionWorkspace"}
        BY <1>1, <3>1, <3>2 DEF CompletesFrom, Target, StagesDone
      <3>3. CASE type \in {"RunReasoner", "ApplyPatch"}
        BY <1>1, <3>1, <3>3 DEF CompletesFrom, Target, StagesDone
      <3>4. CASE type = "Verify"
        BY <1>1, <3>1, <3>4 DEF CompletesFrom, Target, StagesDone
      <3>. QED
        BY <1>5, <3>2, <3>3, <3>4
    <2>. QED
      BY <2>2, <2>3
  <1>. QED
    BY <1>1, <1>4, <1>5 DEF CommandTypes, Target, Rested

(* The reducer's effect on identities, event by event.                     *)
SameIds(s, r) == r.attempt = s.attempt /\ r.aid = s.aid /\ r.done = s.done

LEMMA DesiredIds ==
  ASSUME NEW s \in RunStates, NEW e \in Events, s.exists, ApplyEvent(s, e).exists,
         e.type = "DesiredStateChanged"
  PROVE  SameIds(s, ApplyEvent(s, e)) /\ ApplyEvent(s, e).pendType = s.pendType
         /\ ApplyEvent(s, e).pendScope = s.pendScope
  <1>1. ~Rejected.exists
    BY DEF Rejected, InitialState
  <1>2. ApplyEvent(s, e) \in {PauseIntent(s), ResumeIntent(s), CancelIntent(s)} \ {Rejected}
    BY <1>1, Dispatch DEF ApplyDesiredState
  <1>. DEFINE Same(r) == SameIds(s, r) /\ r.pendType = s.pendType /\ r.pendScope = s.pendScope
  <1>3. PauseIntent(s) # Rejected => Same(PauseIntent(s))
    BY DEF PauseIntent, SameIds, RunStates
  <1>4. ResumeIntent(s) # Rejected => Same(ResumeIntent(s))
    BY DEF ResumeIntent, SameIds, RunStates
  <1>5. CancelIntent(s) # Rejected => Same(CancelIntent(s))
    BY DEF CancelIntent, SameIds, RunStates
  <1>. QED
    BY <1>2, <1>3, <1>4, <1>5

LEMMA PlannedIds ==
  ASSUME NEW s \in RunStates, NEW e \in Events, s.exists, ApplyEvent(s, e).exists,
         e.type = "ActionPlanned"
  PROVE  LET r == ApplyEvent(s, e)
         IN  /\ SameIds(s, r) /\ s.pend = NoAction
             /\ r.pend = e.act /\ r.pendType = ActionType(e.act) /\ r.pendScope = e.scope
             /\ Decide(s).type # "Noop" /\ Decide(s).act = e.act
  <1>. DEFINE r == ApplyEvent(s, e)
  <1>1. ~Rejected.exists
    BY DEF Rejected, InitialState
  <1>2. r = ApplyActionPlanned(s, e)
    BY Dispatch
  <1>3. /\ s.pend = NoAction /\ Decide(s).type # "Noop" /\ Decide(s).act = e.act
        /\ r = [s EXCEPT !.pend = e.act, !.pendType = ActionType(e.act),
                         !.pendAid = e.aid, !.pendScope = e.scope]
    BY <1>1, <1>2 DEF ApplyActionPlanned
  <1>4. SameIds(s, r) /\ r.pend = e.act /\ r.pendType = ActionType(e.act)
        /\ r.pendScope = e.scope
    BY <1>3, ZenonT(30) DEF SameIds, RunStates
  <1>. QED
    BY <1>3, <1>4

LEMMA CompletedIds ==
  ASSUME NEW s \in RunStates, NEW e \in Events, s.exists, ApplyEvent(s, e).exists,
         e.type = "ActionCompleted"
  PROVE  LET r == ApplyEvent(s, e)
         IN  /\ s.pend = e.act /\ s.pendType = ActionType(e.act) /\ s.pend # NoAction
             /\ r.pend = NoAction /\ r.pendType = ActionType(NoAction) /\ r.done = e.act
             /\ \/ CancelWins(s, e) /\ Looks(s, r)
                \/ CompletedShape(s, ActionType(e.act), r)
  <1>. DEFINE r == ApplyEvent(s, e)
              type == ActionType(e.act)
              result == IF CancelWins(s, e) THEN s ELSE ApplyCompletedActionResult(s, e)
  <1>1. ~Rejected.exists
    BY DEF Rejected, InitialState
  <1>2. r = ApplyActionCompleted(s, e) /\ e.act \in ActionIds
    BY Dispatch DEF Events
  <1>3. /\ RequireManagedPendingAction(s, e.act) /\ result.exists
        /\ r = [ClearPending(result) EXCEPT !.done = e.act]
    BY <1>1, <1>2 DEF ApplyActionCompleted
  <1>4. result \in RunStates
    BY CompletedResultType
  <1>5. Looks(result, r) /\ r.pend = NoAction /\ r.pendType = "" /\ r.done = e.act
    <2>. DEFINE c == ClearPending(result)
    <2>1. r = [c EXCEPT !.done = e.act]
      BY <1>3
    <2>. HIDE DEF result, r
    <2>2. Looks(result, c) /\ c \in RunStates /\ c.pendType = "" /\ c.pend = NoAction
      BY <1>4, ClearPendingType, Zenon DEF ClearPending, Looks, RunStates
    <2>. HIDE DEF c
    <2>3. Looks(c, r) /\ r.pendType = c.pendType /\ r.pend = c.pend /\ r.done = e.act
      BY <2>1, <2>2 DEF Looks, RunStates
    <2>. QED
      BY <2>2, <2>3 DEF Looks
  <1>6. ActionType(NoAction) = ""
    BY DEF ActionType, NoAction
  <1>7. s.pend = e.act /\ s.pendType = type /\ s.pend # NoAction
    BY <1>3 DEF RequireManagedPendingAction
  <1>8. CASE CancelWins(s, e)
    BY <1>5, <1>6, <1>7, <1>8
  <1>9. CASE ~CancelWins(s, e)
    <2>1. CompletedShape(s, type, result)
      BY <1>3, <1>9, CompletedResultEffect
    <2>. HIDE DEF result
    <2>2. LogicalState(r) = LogicalState(result)
      BY <1>5, LooksStage
    <2>3. CompletedShape(s, type, r)
      BY <1>5, <2>1, <2>2, ZenonT(60) DEF CompletedShape, Looks
    <2>. QED
      BY <1>5, <1>6, <1>7, <2>3
  <1>. QED
    BY <1>8, <1>9

LEMMA FailedIds ==
  ASSUME NEW s \in RunStates, NEW e \in Events, s.exists, ApplyEvent(s, e).exists,
         e.type = "ActionFailed"
  PROVE  LET r == ApplyEvent(s, e)
         IN  /\ s.pend = e.act /\ s.pendType = ActionType(e.act) /\ s.pend # NoAction
             /\ r.pend = NoAction /\ r.pendType = ActionType(NoAction)
             /\ SameIds(s, r) /\ Failing(r)
             /\ r.desired = s.desired /\ r.verified = s.verified
             /\ \/ LogicalState(r) = "WaitingApproval"
                \/ /\ LogicalState(r) = LogicalState(s)
                   /\ e.outcome # "ambiguous" \/ s.desired = "Cancelled"
  <1>. DEFINE r == ApplyEvent(s, e)
              cleared == [ClearPending(s) EXCEPT !.failure = e.reason]
  <1>1. ~Rejected.exists
    BY DEF Rejected, InitialState
  <1>2. r = ApplyActionFailed(s, e) /\ e.reason \in Faults
    BY Dispatch DEF Events
  <1>3. /\ RequireManagedPendingAction(s, e.act) /\ e.reason # ""
        /\ r = IF e.outcome = "ambiguous" /\ s.desired # "Cancelled"
               THEN AdvanceManagedState(cleared, "WaitingApproval") ELSE cleared
    BY <1>1, <1>2 DEF ApplyActionFailed
  <1>4. /\ cleared \in RunStates /\ Failing(cleared)
        /\ cleared.observed = s.observed /\ cleared.resume = s.resume
        /\ cleared.desired = s.desired /\ cleared.verified = s.verified
        /\ SameIds(s, cleared) /\ cleared.pend = NoAction /\ cleared.pendType = ""
    <2>1. \A c \in RunStates : \A f \in Faults :
            /\ [c EXCEPT !.failure = f] \in RunStates
            /\ [c EXCEPT !.failure = f].failure = f
            /\ [c EXCEPT !.failure = f].observed = c.observed
            /\ [c EXCEPT !.failure = f].resume = c.resume
            /\ [c EXCEPT !.failure = f].desired = c.desired
            /\ [c EXCEPT !.failure = f].verified = c.verified
            /\ SameIds(c, [c EXCEPT !.failure = f])
            /\ [c EXCEPT !.failure = f].pend = c.pend
            /\ [c EXCEPT !.failure = f].pendType = c.pendType
      BY ZenonT(30) DEF SameIds, RunStates
    <2>2. ClearPending(s) \in RunStates /\ Looks(s, ClearPending(s))
          /\ SameIds(s, ClearPending(s))
          /\ ClearPending(s).pend = NoAction /\ ClearPending(s).pendType = ""
      BY ClearPendingType, Zenon DEF ClearPending, Looks, SameIds, RunStates
    <2>. QED
      BY <1>2, <1>3, <2>1, <2>2 DEF Looks, SameIds, Failing
  <1>. HIDE DEF cleared
  <1>5. LogicalState(cleared) = LogicalState(s)
    BY <1>4 DEF LogicalState
  <1>6. s.pend = e.act /\ s.pendType = ActionType(e.act) /\ s.pend # NoAction
    BY <1>3 DEF RequireManagedPendingAction
  <1>7. ActionType(NoAction) = ""
    BY DEF ActionType, NoAction
  <1>8. CASE ~(e.outcome = "ambiguous" /\ s.desired # "Cancelled")
    BY <1>3, <1>4, <1>5, <1>6, <1>7, <1>8, ZenonT(30)
  <1>9. CASE e.outcome = "ambiguous" /\ s.desired # "Cancelled"
    <2>1. r = AdvanceManagedState(cleared, "WaitingApproval")
      BY <1>3, <1>9
    <2>2. "WaitingApproval" \in Statuses \ {"Paused"}
      BY DEF Statuses
    <2>3. SameRest(cleared, r) /\ LogicalState(r) = "WaitingApproval"
      BY <1>4, <2>1, <2>2, AdvanceEffect, ZenonT(60)
    <2>4. r.done = cleared.done
      BY <1>1, <1>4, <2>1 DEF AdvanceManagedState, Transition, RunStates
    <2>. QED
      BY <1>4, <1>6, <1>7, <2>3, <2>4 DEF SameRest, SameIds, Failing
  <1>. QED
    BY <1>8, <1>9

LEMMA IdsKept ==
  ASSUME NEW s, NEW e \in Events, RunInv(s), RunIds(s), ApplyEvent(s, e).exists,
         e.type \in WorkerEvents \cup {"DesiredStateChanged"}
  PROVE  RunIds(ApplyEvent(s, e))
  <1>. DEFINE r == ApplyEvent(s, e)
  <1>. SUFFICES RunIds(r)
    OBVIOUS
  <1>1. s \in RunStates /\ s.exists
    BY DEF RunInv
  <1>2. CASE e.type = "DesiredStateChanged"
    <2>1. SameIds(s, r) /\ r.pendType = s.pendType
      BY <1>1, <1>2, DesiredIds
    <2>2. /\ LogicalState(r) = LogicalState(s) /\ r.pend = s.pend /\ r.verified = s.verified
          /\ s.desired = "Cancelled" => r.desired = "Cancelled"
      BY <1>2, IntentEffect
    <2>. HIDE DEF r
    <2>. QED
      BY <2>1, <2>2 DEF RunIds, SameIds
  <1>3. CASE e.type = "ActionPlanned"
    <2>1. /\ SameIds(s, r) /\ s.pend = NoAction
          /\ r.pend = e.act /\ r.pendType = ActionType(e.act)
          /\ Decide(s).type # "Noop" /\ Decide(s).act = e.act
      BY <1>1, <1>3, PlannedIds
    <2>2. Looks(s, r) /\ LogicalState(r) = LogicalState(s)
      BY <1>3, PlanEffect, LooksStage
    <2>. DEFINE type == Decide(s).type
    <2>3. /\ e.act = <<type, s.attempt, s.aid>> /\ type \in CommandTypes
          /\ ~Terminal(s.observed)
          /\ \/ s.desired = "Cancelled" /\ type = "CancelRun"
             \/ type # "CancelRun" /\ s.observed # "Paused"
      BY <1>1, <2>1, DecideShape
    <2>. HIDE DEF type, r
    <2>4. r.pendType = type
      BY <2>1, <2>3 DEF ActionType
    <2>5. type = "CancelRun" \/ ~Terminal(LogicalState(s))
      BY <2>3 DEF LogicalState
    <2>. QED
      BY <2>1, <2>2, <2>3, <2>4, <2>5 DEF RunIds, SameIds, Looks
  <1>4. CASE e.type = "ActionCompleted"
    <2>1. /\ r.pend = NoAction /\ r.pendType = ActionType(NoAction)
          /\ Looks(s, r) \/ CompletedShape(s, ActionType(e.act), r)
      BY <1>1, <1>4, CompletedIds
    <2>2. ActionType(NoAction) # "CancelRun"
      BY DEF ActionType, NoAction
    <2>. HIDE DEF r
    <2>3. CASE Looks(s, r)
      <3>1. LogicalState(r) = LogicalState(s) /\ r.verified = s.verified
        BY <2>3, LooksStage DEF Looks
      <3>. QED
        BY <2>1, <2>2, <3>1 DEF RunIds
    <2>4. ASSUME NEW type, CompletedShape(s, type, r) PROVE RunIds(r)
      <3>1. /\ type \in CommandTypes /\ LogicalState(r) = Target(type)
            /\ LogicalState(s) \in CompletesFrom(type)
            /\ type = "Verify" \/ r.verified = s.verified
        BY <2>4 DEF CompletedShape
      <3>2. r.verified => LogicalState(r) \notin {"Queued", "Provisioning", "Reasoning", "Acting"}
        <4>1. CASE type \in {"StartAttempt", "ProvisionWorkspace", "RunReasoner"}
          <5>1. LogicalState(s) \in {"Queued", "Provisioning", "Reasoning"} /\ type # "Verify"
            BY <3>1, <4>1 DEF CompletesFrom
          <5>. QED
            BY <3>1, <5>1, ZenonT(30) DEF RunIds
        <4>2. CASE type \notin {"StartAttempt", "ProvisionWorkspace", "RunReasoner"}
          <5>1. Target(type) \in {"Verifying", "Succeeded", "Failed", "Cancelled"}
            BY <4>2 DEF Target
          <5>. QED
            BY <3>1, <5>1
        <4>. QED
          BY <4>1, <4>2
      <3>. QED
        BY <2>1, <2>2, <3>2 DEF RunIds
    <2>. QED
      BY <2>1, <2>3, <2>4
  <1>5. CASE e.type = "ActionFailed"
    <2>1. /\ r.pend = NoAction /\ r.pendType = ActionType(NoAction) /\ r.verified = s.verified
          /\ LogicalState(r) \in {"WaitingApproval", LogicalState(s)}
      BY <1>1, <1>5, FailedIds
    <2>2. ActionType(NoAction) # "CancelRun"
      BY DEF ActionType, NoAction
    <2>. HIDE DEF r
    <2>. QED
      BY <2>1, <2>2 DEF RunIds
  <1>. QED
    BY <1>2, <1>3, <1>4, <1>5 DEF WorkerEvents

-----------------------------------------------------------------------------
(* Success is earned.                                                      *)

(* The completions of the current attempt that the stage rests on.         *)
DoneIn(type) ==
  {i \in DOMAIN log : /\ log[i].type = "ActionCompleted"
                      /\ log[i].act = <<type, st.attempt, st.aid>>}

PatchDone == LogicalState(st) = "Verifying" => \E i \in DoneIn("ApplyPatch") : TRUE

VerifyDone ==
  LogicalState(st) = "Verifying" /\ st.verified =>
    \E i \in DoneIn("ApplyPatch") : \E j \in DoneIn("Verify") : i < j

EarnedInv ==
  /\ TypeOK /\ RunInv(st) /\ CancelIsFinal /\ RunIds(st)
  /\ PatchDone /\ VerifyDone /\ SuccessIsEarned

LEMMA EarnedStep == EarnedInv /\ [Next]_vars => EarnedInv'
  <1>. SUFFICES ASSUME EarnedInv, [Next]_vars
                PROVE  RunIds(st)' /\ PatchDone' /\ VerifyDone' /\ SuccessIsEarned'
    BY TypeStep, ContractStep DEF EarnedInv, ContractInv
  <1>1. /\ TypeOK /\ RunInv(st) /\ RunIds(st) /\ PatchDone /\ VerifyDone /\ SuccessIsEarned
        /\ st \in RunStates /\ st.exists /\ log \in Seq(Events)
    BY DEF EarnedInv, TypeOK
  <1>2. CASE UNCHANGED store
    BY <1>1, <1>2, SMTT(20) DEF store, PatchDone, VerifyDone, SuccessIsEarned, DoneIn, Completed
  <1>3. ASSUME NEW e \in Events, Appends(e)
        PROVE  RunIds(st)' /\ PatchDone' /\ VerifyDone' /\ SuccessIsEarned'
    <2>1. /\ st' = ApplyEvent(st, e) /\ ApplyEvent(st, e).exists
          /\ e.type \in WorkerEvents \cup {"DesiredStateChanged"}
      BY <1>3 DEF Appends
    <2>2. RunIds(st')
      BY <1>1, <2>1, IdsKept
    <2>3. /\ Len(log) \in Nat /\ DOMAIN log = 1 .. Len(log)
          /\ \A i \in DOMAIN log : i \in DOMAIN log' /\ log'[i] = log[i]
          /\ log'[Len(log) + 1] = e /\ Len(log) + 1 \in DOMAIN log'
      <3>1. log' = Append(log, e)
        BY <1>3 DEF Appends
      <3>2. /\ Len(log) \in Nat /\ DOMAIN log = 1 .. Len(log)
            /\ DOMAIN log' = 1 .. Len(log) + 1 /\ log'[Len(log) + 1] = e
            /\ \A i \in DOMAIN log : i \in DOMAIN log' /\ log'[i] = log[i]
        BY <1>1, <3>1, AppendedLog
      <3>. QED
        BY <3>2
    <2>4. \A i \in DOMAIN log : i < Len(log) + 1
      BY <2>3
    <2>. DEFINE new == Len(log) + 1
    <2>. HIDE DEF new
    (* Nothing moved but intents, plans and failures.                      *)
    <2>5. ASSUME SameIds(st, st'), st'.verified = st.verified,
                 LogicalState(st') \in {"WaitingApproval", LogicalState(st)}
          PROVE  PatchDone' /\ VerifyDone' /\ SuccessIsEarned'
      <3>1. /\ \A type, i : i \in DoneIn(type) => i \in DoneIn(type)'
            /\ \A type, i : i \in Completed(type, st.done) => i \in Completed(type, st.done)'
        BY <2>3, <2>5 DEF DoneIn, Completed, SameIds
      <3>. QED
        BY <1>1, <2>5, <3>1 DEF PatchDone, VerifyDone, SuccessIsEarned
    <2>6. CASE e.type = "DesiredStateChanged"
      BY <1>1, <2>1, <2>2, <2>5, <2>6, DesiredIds, IntentEffect, SMTT(20)
    <2>7. CASE e.type = "ActionPlanned"
      <3>1. SameIds(st, st')
        BY <1>1, <2>1, <2>7, PlannedIds
      <3>2. Looks(st, st') /\ LogicalState(st') = LogicalState(st)
        BY <1>1, <2>1, <2>7, PlanEffect, LooksStage
      <3>. QED
        BY <2>2, <2>5, <3>1, <3>2 DEF Looks
    <2>8. CASE e.type = "ActionFailed"
      <3>1. /\ SameIds(st, st') /\ st'.verified = st.verified
            /\ LogicalState(st') \in {"WaitingApproval", LogicalState(st)}
        BY <1>1, <2>1, <2>8, FailedIds
      <3>. QED
        BY <2>2, <2>5, <3>1
    <2>9. CASE e.type = "ActionCompleted"
      <3>. DEFINE type == ActionType(e.act)
      <3>1. /\ st.pend = e.act /\ st.pendType = type /\ st.pend # NoAction /\ st'.done = e.act
            /\ \/ type # "CancelRun" /\ Looks(st, st')
               \/ CompletedShape(st, type, st')
        BY <1>1, <2>1, <2>9, CompletedIds DEF CancelWins
      <3>2. e.act = <<type, st.attempt, st.aid>>
        BY <1>1, <3>1 DEF RunIds
      <3>. HIDE DEF type
      <3>3. ASSUME st'.attempt = st.attempt, st'.aid = st.aid
            PROVE  /\ \A t, i : i \in DoneIn(t) => i \in DoneIn(t)'
                   /\ new \in DoneIn(type)'
        BY <2>3, <2>9, <3>2, <3>3 DEF DoneIn, new
      <3>4. CASE type # "CancelRun" /\ Looks(st, st')
        <4>1. /\ LogicalState(st') = LogicalState(st) /\ st'.verified = st.verified
              /\ st'.attempt = st.attempt /\ st'.aid = st.aid
          BY <3>4, LooksStage DEF Looks
        <4>2. PatchDone' /\ VerifyDone'
          BY <1>1, <3>3, <4>1 DEF PatchDone, VerifyDone
        <4>3. LogicalState(st') # "Succeeded"
          <5>. SUFFICES ASSUME LogicalState(st) = "Succeeded" PROVE FALSE
            BY <4>1
          <5>1. st.pendType = "CancelRun"
            BY <1>1, <3>1 DEF RunIds, Terminal
          <5>. QED
            BY <3>1, <3>4, <5>1
        <4>. QED
          BY <2>2, <4>2, <4>3 DEF SuccessIsEarned
      <3>5. CASE CompletedShape(st, type, st')
        <4>1. /\ type \in CommandTypes /\ LogicalState(st') = Target(type)
              /\ LogicalState(st) \in CompletesFrom(type)
              /\ type = "Verify" \/ st'.verified = st.verified
              /\ type # "StartAttempt" => st'.attempt = st.attempt /\ st'.aid = st.aid
              /\ type = "SucceedRun" => st.verified
          BY <3>5 DEF CompletedShape, Target
        <4>2. CASE type = "ApplyPatch"
          <5>1. LogicalState(st') = "Verifying" /\ LogicalState(st) = "Acting"
                /\ st'.verified = st.verified
            BY <4>1, <4>2 DEF Target, CompletesFrom
          <5>2. ~st'.verified /\ new \in DoneIn("ApplyPatch")'
            BY <1>1, <3>3, <4>1, <4>2, <5>1 DEF RunIds
          <5>. QED
            BY <2>2, <5>1, <5>2 DEF PatchDone, VerifyDone, SuccessIsEarned
        <4>3. CASE type = "Verify"
          <5>1. LogicalState(st') = "Verifying" /\ LogicalState(st) = "Verifying"
            BY <4>1, <4>3 DEF Target, CompletesFrom
          <5>2. PICK i \in DoneIn("ApplyPatch") : TRUE
            BY <1>1, <5>1 DEF PatchDone
          <5>3. i \in DoneIn("ApplyPatch")' /\ new \in DoneIn("Verify")' /\ i < new
            BY <2>4, <3>3, <4>1, <4>3, <5>2, SMTT(20) DEF DoneIn, new
          <5>. QED
            BY <2>2, <5>1, <5>3 DEF PatchDone, VerifyDone, SuccessIsEarned
        <4>4. CASE type = "SucceedRun"
          <5>1. LogicalState(st') = "Succeeded" /\ LogicalState(st) = "Verifying" /\ st.verified
            BY <4>1, <4>4 DEF Target, CompletesFrom
          <5>2. PICK i \in DoneIn("ApplyPatch"), j \in DoneIn("Verify") : i < j
            BY <1>1, <5>1 DEF VerifyDone
          <5>3. e.act[2] = st.attempt /\ e.act[3] = st.aid
            BY <3>2
          <5>4. \A t, k : k \in DoneIn(t)' => k \in Completed(t, st.done)'
            BY <3>1, <4>1, <4>4, <5>3 DEF DoneIn, Completed
          <5>5. /\ i \in DoneIn("ApplyPatch")' /\ j \in DoneIn("Verify")'
                /\ new \in DoneIn("SucceedRun")' /\ j < new
            BY <2>4, <3>3, <4>1, <4>4, <5>2 DEF DoneIn, new
          <5>6. SuccessIsEarned'
            BY <5>2, <5>4, <5>5 DEF SuccessIsEarned
          <5>. QED
            BY <2>2, <5>1, <5>6 DEF PatchDone, VerifyDone
        <4>5. CASE type \notin {"ApplyPatch", "Verify", "SucceedRun"}
          <5>1. LogicalState(st') \notin {"Verifying", "Succeeded"}
            BY <4>1, <4>5 DEF Target
          <5>. QED
            BY <2>2, <5>1 DEF PatchDone, VerifyDone, SuccessIsEarned
        <4>. QED
          BY <4>2, <4>3, <4>4, <4>5
      <3>. QED
        BY <3>1, <3>4, <3>5
    <2>. QED
      BY <2>1, <2>6, <2>7, <2>8, <2>9, SMTT(20) DEF WorkerEvents
  <1>. QED
    BY <1>1, <1>2, <1>3, LogStep

LEMMA InitialRun ==
  ASSUME Init
  PROVE  /\ ContractInv /\ RunIds(st) /\ LogicalState(st) = "Queued" /\ st.pend = NoAction
         /\ DOMAIN log = {1} /\ log[1].type = "RunCreated"
  <1>1. RunCreatedEvent.type = "RunCreated" /\ ~InitialState.exists
    BY DEF RunCreatedEvent, Event, InitialState
  <1>2. st = [InitialState EXCEPT !.exists = TRUE, !.desired = "Running", !.observed = "Queued"]
    BY <1>1 DEF Init, ApplyEvent, ApplyRunCreated, LegacyLifecycleResultEvents, LeaseEvents
  <1>3. /\ st.desired = "Running" /\ st.observed = "Queued" /\ st.pend = NoAction
        /\ st.pendType = "" /\ st.verified = FALSE
    BY <1>2 DEF InitialState
  <1>4. LogicalState(st) = "Queued"
    BY <1>3 DEF LogicalState
  <1>5. RunIds(st)
    <2>1. ActionType(NoAction) = ""
      BY DEF ActionType, NoAction
    <2>. QED
      BY <1>3, <1>4, <2>1 DEF RunIds, Terminal
  <1>6. DOMAIN log = {1} /\ log[1].type = "RunCreated"
    <2>1. log = <<RunCreatedEvent>>
      BY DEF Init
    <2>. QED
      BY <1>1, <2>1
  <1>. QED
    BY <1>3, <1>4, <1>5, <1>6, ContractInit

(* A Run that is, or will resume as, Succeeded has completed ApplyPatch,   *)
(* Verify and SucceedRun of one attempt, in that order, whatever crashes,  *)
(* takeovers, pauses and recoveries lie between them.                      *)
THEOREM SuccessEarned == Spec => []SuccessIsEarned
  <1>1. Init => EarnedInv
    BY InitialRun DEF EarnedInv, ContractInv, PatchDone, VerifyDone, SuccessIsEarned
  <1>2. EarnedInv => SuccessIsEarned
    BY DEF EarnedInv
  <1>. QED
    BY <1>1, <1>2, EarnedStep, PTL DEF Spec

-----------------------------------------------------------------------------
(* What the reducer cannot refuse.                                         *)

(* A Run always has a stage, and until a cancel its pending action belongs *)
(* to that stage.                                                          *)
Fits(s) ==
  /\ LogicalState(s) \in Statuses \ {"Paused"}
  /\ s.pend # NoAction =>
       /\ s.pendScope \in IdempotencyScopes
       /\ s.pendType = "StartAttempt" => s.pendAid # 0
  /\ s.pend # NoAction /\ s.desired # "Cancelled" =>
       /\ LogicalState(s) \in CompletesFrom(s.pendType) \ Rested
       /\ s.pendType = "SucceedRun" => s.verified

LEMMA DecideFits ==
  ASSUME NEW s \in RunStates, s.exists, s.pend = NoAction, Decide(s).type # "Noop",
         s.desired # "Cancelled", LogicalState(s) \in Statuses \ {"Paused"}
  PROVE  /\ LogicalState(s) \in CompletesFrom(Decide(s).type) \ Rested
         /\ Decide(s).type = "SucceedRun" => s.verified
         /\ Decide(s).type = "StartAttempt" => Decide(s).aid # 0
  <1>1. Noop.type = "Noop"
    BY DEF Noop
  <1>2. \A type : CommandFor(s, type).type = type
    BY DEF CommandFor
  <1>3. ~Terminal(s.observed) /\ s.observed \notin {"Paused", "WaitingApproval"}
    BY <1>1 DEF Decide
  <1>4. LogicalState(s) = s.observed /\ LogicalState(s) \notin Rested
    BY <1>3 DEF LogicalState, Rested, Terminal
  <1>5. CASE Failing(s)
    <2>1. Decide(s).type = "FailRun"
      BY <1>1, <1>2, <1>5 DEF Decide, Failing
    <2>. QED
      BY <1>4, <2>1 DEF CompletesFrom
  <1>6. CASE ~Failing(s)
    <2>1. Decide(s) = DecideByStatus(s)
      BY <1>1, <1>3, <1>6 DEF Decide, Failing
    <2>2. \A command : SameIfPending(s, command) = command
      BY DEF SameIfPending
    <2>3. CASE s.observed = "Queued"
      <3>. DEFINE start == [CommandFor(s, "StartAttempt") EXCEPT !.aid = s.attempt + 1]
      <3>1. start.type = "StartAttempt" /\ start.aid = s.attempt + 1
        BY DEF CommandFor
      <3>2. Decide(s) = start
        BY <2>1, <2>3 DEF DecideByStatus
      <3>. HIDE DEF start
      <3>3. s.attempt \in Nat
        BY DEF RunStates
      <3>4. s.attempt + 1 # 0
        BY <3>3
      <3>. QED
        BY <1>4, <2>3, <3>1, <3>2, <3>4 DEF CompletesFrom
    <2>4. CASE s.observed = "Provisioning"
      <3>1. Decide(s).type = "ProvisionWorkspace"
        BY <1>2, <2>1, <2>4 DEF DecideByStatus
      <3>. QED
        BY <1>4, <2>4, <3>1 DEF CompletesFrom
    <2>5. CASE s.observed = "Reasoning"
      <3>1. Decide(s).type = "RunReasoner"
        BY <1>2, <2>1, <2>2, <2>5 DEF DecideByStatus
      <3>. QED
        BY <1>4, <2>5, <3>1 DEF CompletesFrom
    <2>6. CASE s.observed = "Acting"
      <3>1. Decide(s).type = "ApplyPatch"
        BY <1>2, <2>1, <2>6 DEF DecideByStatus
      <3>. QED
        BY <1>4, <2>6, <3>1 DEF CompletesFrom
    <2>7. CASE s.observed = "Verifying"
      <3>1. Decide(s).type = "Verify" \/ (Decide(s).type = "SucceedRun" /\ s.verified)
        BY <1>2, <2>1, <2>2, <2>7 DEF DecideByStatus
      <3>. QED
        BY <1>4, <2>7, <3>1 DEF CompletesFrom
    <2>. QED
      BY <1>1, <2>1, <2>3, <2>4, <2>5, <2>6, <2>7 DEF DecideByStatus
  <1>. QED
    BY <1>5, <1>6

(* What the reducer makes of the plan's fields.                            *)
LEMMA PlannedFields ==
  ASSUME NEW s \in RunStates, NEW e \in Events, ApplyEvent(s, e).exists,
         e.type = "ActionPlanned"
  PROVE  /\ ApplyEvent(s, e).pendAid = e.aid /\ e.scope \in IdempotencyScopes
         /\ Decide(s).type = "StartAttempt" => e.aid = Decide(s).aid
  <1>1. ~Rejected.exists
    BY DEF Rejected, InitialState
  <1>2. ApplyEvent(s, e) = ApplyActionPlanned(s, e)
    BY Dispatch
  <1>. QED
    BY <1>1, <1>2 DEF ApplyActionPlanned, RunStates

LEMMA DesiredFields ==
  ASSUME NEW s \in RunStates, NEW e \in Events, s.exists, ApplyEvent(s, e).exists,
         e.type = "DesiredStateChanged"
  PROVE  ApplyEvent(s, e).pendAid = s.pendAid
  <1>1. ~Rejected.exists
    BY DEF Rejected, InitialState
  <1>2. ApplyEvent(s, e) \in {PauseIntent(s), ResumeIntent(s), CancelIntent(s)} \ {Rejected}
    BY <1>1, Dispatch DEF ApplyDesiredState
  <1>3. /\ PauseIntent(s) # Rejected => PauseIntent(s).pendAid = s.pendAid
        /\ ResumeIntent(s) # Rejected => ResumeIntent(s).pendAid = s.pendAid
        /\ CancelIntent(s) # Rejected => CancelIntent(s).pendAid = s.pendAid
    BY DEF PauseIntent, ResumeIntent, CancelIntent, RunStates
  <1>. QED
    BY <1>2, <1>3

LEMMA FitsKept ==
  ASSUME NEW s, NEW e \in Events, RunInv(s), RunIds(s), Fits(s), ApplyEvent(s, e).exists,
         e.type \in WorkerEvents \cup {"DesiredStateChanged"}
  PROVE  Fits(ApplyEvent(s, e))
  <1>. DEFINE r == ApplyEvent(s, e)
  <1>. SUFFICES Fits(r)
    OBVIOUS
  <1>1. s \in RunStates /\ s.exists
    BY DEF RunInv
  <1>2. CASE e.type = "DesiredStateChanged"
    <2>1. /\ r.pendType = s.pendType /\ r.pendScope = s.pendScope /\ r.pendAid = s.pendAid
      BY <1>1, <1>2, DesiredIds, DesiredFields
    <2>2. /\ LogicalState(r) = LogicalState(s) /\ r.pend = s.pend
          /\ r.verified = s.verified
          /\ r.desired # "Cancelled" => s.desired # "Cancelled"
      BY <1>2, IntentEffect
    <2>. HIDE DEF r
    <2>. QED
      BY <2>1, <2>2 DEF Fits
  <1>3. CASE e.type = "ActionPlanned"
    <2>1. /\ s.pend = NoAction /\ r.pendType = ActionType(e.act) /\ r.pendScope = e.scope
          /\ Decide(s).type # "Noop" /\ Decide(s).act = e.act
      BY <1>1, <1>3, PlannedIds
    <2>2. /\ r.pendAid = e.aid /\ e.scope \in IdempotencyScopes
          /\ Decide(s).type = "StartAttempt" => e.aid = Decide(s).aid
      BY <1>1, <1>3, PlannedFields
    <2>3. Looks(s, r) /\ LogicalState(r) = LogicalState(s)
      BY <1>3, PlanEffect, LooksStage
    <2>4. r.verified = s.verified /\ r.desired = s.desired
      BY <2>3 DEF Looks
    <2>5. /\ Decide(s).act = <<Decide(s).type, s.attempt, s.aid>>
          /\ Decide(s).type = "StartAttempt" => s.desired # "Cancelled"
      BY <1>1, <2>1, DecideShape
    <2>6. r.pendType = Decide(s).type
      BY <2>1, <2>5 DEF ActionType
    <2>7. LogicalState(s) \in Statuses \ {"Paused"}
      BY DEF Fits
    <2>8. s.desired # "Cancelled" =>
            /\ LogicalState(s) \in CompletesFrom(Decide(s).type) \ Rested
            /\ Decide(s).type = "SucceedRun" => s.verified
            /\ Decide(s).type = "StartAttempt" => Decide(s).aid # 0
      BY <1>1, <2>1, <2>7, DecideFits
    <2>. HIDE DEF r
    <2>. QED
      BY <2>1, <2>2, <2>3, <2>4, <2>5, <2>6, <2>7, <2>8 DEF Fits
  <1>4. CASE e.type = "ActionCompleted"
    <2>1. /\ r.pend = NoAction
          /\ \/ CancelWins(s, e) /\ Looks(s, r)
             \/ CompletedShape(s, ActionType(e.act), r)
      BY <1>1, <1>4, CompletedIds
    <2>2. CASE Looks(s, r)
      <3>1. LogicalState(r) = LogicalState(s)
        BY <2>2, LooksStage
      <3>. QED
        BY <2>1, <3>1 DEF Fits
    <2>3. CASE CompletedShape(s, ActionType(e.act), r)
      <3>1. LogicalState(r) = Target(ActionType(e.act))
        BY <2>3 DEF CompletedShape
      <3>2. \A type : Target(type) \in Statuses \ {"Paused"}
        BY DEF Target, Statuses
      <3>. QED
        BY <2>1, <3>1, <3>2 DEF Fits
    <2>. QED
      BY <2>1, <2>2, <2>3
  <1>5. CASE e.type = "ActionFailed"
    <2>1. /\ r.pend = NoAction
          /\ LogicalState(r) = "WaitingApproval" \/ LogicalState(r) = LogicalState(s)
      BY <1>1, <1>5, FailedIds
    <2>2. "WaitingApproval" \in Statuses \ {"Paused"}
      BY DEF Statuses
    <2>. HIDE DEF r
    <2>. QED
      BY <2>1, <2>2 DEF Fits
  <1>. QED
    BY <1>2, <1>3, <1>4, <1>5 DEF WorkerEvents

(* A legal transition is taken, paused or not.                             *)
LEMMA AdvanceAccepted ==
  ASSUME NEW s \in RunStates, s.exists, NEW next,
         ValidateTransition(LogicalState(s), next)
  PROVE  AdvanceManagedState(s, next).exists
  <1>1. CASE s.observed # "Paused"
    <2>1. AdvanceManagedState(s, next) = [s EXCEPT !.observed = next]
      BY <1>1 DEF AdvanceManagedState, Transition, LogicalState
    <2>. QED
      BY <2>1 DEF RunStates
  <1>2. CASE s.observed = "Paused"
    <2>1. AdvanceManagedState(s, next) = [s EXCEPT !.resume = next]
      BY <1>2 DEF AdvanceManagedState, LogicalState
    <2>. QED
      BY <2>1 DEF RunStates
  <1>. QED
    BY <1>1, <1>2

LEMMA Dispatched ==
  ASSUME NEW s, NEW e, ~Terminal(s.observed)
  PROVE  /\ e.type = "ActionPlanned" => ApplyEvent(s, e) = ApplyActionPlanned(s, e)
         /\ e.type = "ActionCompleted" => ApplyEvent(s, e) = ApplyActionCompleted(s, e)
         /\ e.type = "ActionFailed" => ApplyEvent(s, e) = ApplyActionFailed(s, e)
  BY DEF ApplyEvent, LegacyLifecycleResultEvents, LeaseEvents

LEMMA PlanAccepted ==
  ASSUME NEW s \in RunStates, s.exists, s.pend = NoAction, Decide(s).type # "Noop",
         NEW e \in Events, e.type = "ActionPlanned", e.scope \in IdempotencyScopes,
         e.act = Decide(s).act, e.aid = Decide(s).aid
  PROVE  ApplyEvent(s, e).exists
  <1>1. /\ Decide(s).act = <<Decide(s).type, s.attempt, s.aid>>
        /\ Decide(s).type \in CommandTypes /\ ~Terminal(s.observed)
    BY DecideShape
  <1>2. e.act # NoAction
    <2>1. ActionType(NoAction) \notin CommandTypes
      BY DEF ActionType, NoAction, CommandTypes
    <2>2. ActionType(e.act) \in CommandTypes
      BY <1>1 DEF ActionType
    <2>. QED
      BY <2>1, <2>2
  <1>3. ApplyEvent(s, e) = ApplyActionPlanned(s, e)
    BY <1>1, Dispatched
  <1>4. ApplyActionPlanned(s, e) = [s EXCEPT !.pend = e.act, !.pendType = ActionType(e.act),
                                             !.pendAid = e.aid, !.pendScope = e.scope]
    BY <1>2 DEF ApplyActionPlanned
  <1>. QED
    BY <1>3, <1>4 DEF RunStates

(* Until a cancel, a result of the pending action finds the Run at the     *)
(* stage the action belongs to, paused or not.                             *)
LEMMA ResultAccepted ==
  ASSUME NEW s, NEW e \in Events, RunInv(s), RunIds(s), Fits(s), s.desired # "Cancelled",
         s.pend # NoAction, e.act = s.pend, e.type = "ActionCompleted",
         NEW n, ValidateManagedActionOutput(e, n)
  PROVE  ApplyEvent(s, e).exists
  <1>. DEFINE type == ActionType(e.act)
              at == LogicalState(s)
              result == ApplyCompletedActionResult(s, e)
  <1>1. s \in RunStates /\ s.exists /\ type = s.pendType /\ type \in CommandTypes
    BY DEF RunInv, RunIds
  <1>2. /\ at \in CompletesFrom(type) /\ at \in Statuses \ {"Paused"} /\ at \notin Rested
        /\ type = "SucceedRun" => s.verified
        /\ type # "CancelRun"
    BY <1>1 DEF Fits, RunIds
  <1>3. /\ type = "StartAttempt" => e.aid # 0
        /\ type = "RunReasoner" => e.tool # ""
        /\ type = "FailRun" => e.reason # ""
    BY DEF ValidateManagedActionOutput
  <1>. DEFINE Advanced(next) == AdvanceManagedState(s, next)
  <1>4. \A next \in Statuses \ {"Paused"} :
          next \in Successors(at) => Advanced(next) \in RunStates /\ Advanced(next).exists
    <2>1. ~Terminal(at)
      BY <1>2 DEF Terminal, Rested
    <2>. QED
      BY <1>1, <2>1, AdvanceAccepted, AdvanceEffect DEF ValidateTransition
  <1>5. ~Terminal(s.observed)
    BY <1>2 DEF LogicalState, Terminal, Rested
  <1>. HIDE DEF Advanced
  <1>6. result.exists /\ result \in RunStates
    <2>0. result \in RunStates
      BY <1>1, CompletedResultType
    <2>1. CASE type = "StartAttempt"
      <3>1. Advanced("Provisioning") \in RunStates /\ Advanced("Provisioning").exists
        BY <1>2, <1>4, <2>1 DEF CompletesFrom, Successors, Statuses
      <3>2. result = [Advanced("Provisioning") EXCEPT !.attempt = s.attempt + 1, !.aid = e.aid]
        BY <1>2, <1>3, <2>1, <3>1 DEF ApplyCompletedActionResult, Advanced
      <3>. QED
        BY <2>0, <3>1, <3>2 DEF RunStates
    <2>2. CASE type = "ProvisionWorkspace"
      <3>1. Advanced("Reasoning").exists
        BY <1>2, <1>4, <2>2 DEF CompletesFrom, Successors, Statuses
      <3>. QED
        BY <1>2, <2>0, <2>2, <3>1 DEF ApplyCompletedActionResult, Advanced
    <2>3. CASE type = "RunReasoner"
      <3>1. Advanced("Acting") \in RunStates /\ Advanced("Acting").exists
        BY <1>2, <1>4, <2>3 DEF CompletesFrom, Successors, Statuses
      <3>2. result = [Advanced("Acting") EXCEPT !.tool = e.tool]
        BY <1>2, <1>3, <2>3, <3>1 DEF ApplyCompletedActionResult, Advanced
      <3>. QED
        BY <2>0, <3>1, <3>2 DEF RunStates
    <2>4. CASE type = "ApplyPatch"
      <3>1. Advanced("Verifying") \in RunStates /\ Advanced("Verifying").exists
        BY <1>2, <1>4, <2>4 DEF CompletesFrom, Successors, Statuses
      <3>2. result = [Advanced("Verifying") EXCEPT !.patch = TRUE]
        BY <1>2, <2>4, <3>1 DEF ApplyCompletedActionResult, PatchApplied, Advanced
      <3>. QED
        BY <2>0, <3>1, <3>2 DEF RunStates
    <2>5. CASE type = "Verify"
      <3>1. result = [s EXCEPT !.verified = TRUE]
        BY <1>2, <2>5 DEF ApplyCompletedActionResult
      <3>. QED
        BY <1>1, <2>0, <3>1 DEF RunStates
    <2>6. CASE type = "SucceedRun"
      <3>1. Advanced("Succeeded").exists
        BY <1>2, <1>4, <2>6 DEF CompletesFrom, Successors, Statuses
      <3>. QED
        BY <1>2, <2>0, <2>6, <3>1 DEF ApplyCompletedActionResult, Advanced
    <2>7. CASE type = "FailRun"
      <3>1. "Failed" \in Successors(at)
        BY <1>2 DEF Successors, Detours, Statuses, Rested
      <3>2. Advanced("Failed") \in RunStates /\ Advanced("Failed").exists
        BY <1>4, <3>1 DEF Statuses
      <3>3. result = [Advanced("Failed") EXCEPT !.failure = e.reason]
        BY <1>2, <1>3, <2>7, <3>2, Zenon DEF ApplyCompletedActionResult, Advanced
      <3>. QED
        BY <2>0, <3>2, <3>3 DEF RunStates
    <2>. QED
      BY <1>1, <1>2, <2>1, <2>2, <2>3, <2>4, <2>5, <2>6, <2>7 DEF CommandTypes
  <1>. HIDE DEF result
  <1>7. ApplyActionCompleted(s, e) = [ClearPending(result) EXCEPT !.done = e.act]
    <2>1. ~CancelWins(s, e) /\ RequireManagedPendingAction(s, e.act)
      BY <1>1 DEF CancelWins, RequireManagedPendingAction
    <2>. QED
      BY <1>6, <2>1 DEF ApplyActionCompleted, result
  <1>8. [ClearPending(result) EXCEPT !.done = e.act].exists
    BY <1>6 DEF ClearPending, RunStates
  <1>9. ApplyEvent(s, e) = ApplyActionCompleted(s, e)
    BY <1>5, Dispatched
  <1>. QED
    BY <1>7, <1>8, <1>9

LEMMA FailureAccepted ==
  ASSUME NEW s, NEW e \in Events, RunInv(s), RunIds(s), Fits(s), s.desired # "Cancelled",
         s.pend # NoAction, e.act = s.pend, e.type = "ActionFailed",
         e.reason # "", e.outcome \in ActionOutcomes
  PROVE  ApplyEvent(s, e).exists
  <1>. DEFINE cleared == [ClearPending(s) EXCEPT !.failure = e.reason]
              at == LogicalState(s)
  <1>1. s \in RunStates /\ s.exists /\ RequireManagedPendingAction(s, e.act)
    BY DEF RunInv, RunIds, RequireManagedPendingAction
  <1>2. at \in Statuses \ {"Paused"} /\ at \notin Rested
    BY DEF Fits
  <1>3. ~Terminal(s.observed) /\ ~Terminal(at)
    BY <1>2 DEF LogicalState, Terminal, Rested
  <1>4. cleared \in RunStates
    <2>1. \A r \in RunStates : \A f \in Faults : [r EXCEPT !.failure = f] \in RunStates
      BY DEF RunStates
    <2>2. e.reason \in Faults
      BY DEF Events
    <2>. QED
      BY <1>1, <2>1, <2>2, ClearPendingType
  <1>5. cleared.observed = s.observed /\ cleared.resume = s.resume /\ cleared.exists = s.exists
    BY <1>1 DEF ClearPending, RunStates
  <1>6. ApplyEvent(s, e) = ApplyActionFailed(s, e)
    BY <1>3, Dispatched
  <1>7. ApplyActionFailed(s, e) \in {cleared, AdvanceManagedState(cleared, "WaitingApproval")}
    BY <1>1 DEF ApplyActionFailed
  <1>. HIDE DEF cleared
  <1>8. LogicalState(cleared) = at
    BY <1>5 DEF LogicalState
  <1>9. ValidateTransition(at, "WaitingApproval")
    BY <1>2, <1>3 DEF ValidateTransition, Successors, Detours, Statuses, Rested
  <1>10. AdvanceManagedState(cleared, "WaitingApproval").exists
    BY <1>1, <1>4, <1>5, <1>8, <1>9, AdvanceAccepted
  <1>. QED
    BY <1>1, <1>5, <1>6, <1>7, <1>10

-----------------------------------------------------------------------------
(* Keys, and the command they protect.                                     *)

(* Every key tells what kind of event it protects.                         *)
Keyed ==
  \A i \in DOMAIN log :
    IF log[i].type \in WorkerEvents
    THEN /\ log[i].key = KeyOf(log[i])
         /\ log[i].type = "ActionFailed" => log[i].outcome \in ActionOutcomes
    ELSE log[i].key[2] \in {"run-created"} \cup DesiredStates

(* A key in the log names its event.                                       *)
LEMMA KeyNames ==
  ASSUME Keyed, NEW i \in DOMAIN log, NEW act, NEW tag, log[i].key = <<act, tag, 0>>
  PROVE  /\ tag = "action-planned" => log[i].type = "ActionPlanned" /\ log[i].act = act
         /\ tag \in {"action-completed", "failed", "ambiguous"} =>
              IsResult(log[i]) /\ log[i].act = act
  <1>1. CASE log[i].type \notin WorkerEvents
    <2>1. tag \in {"run-created"} \cup DesiredStates
      BY <1>1 DEF Keyed
    <2>. QED
      BY <2>1 DEF DesiredStates
  <1>2. CASE log[i].type = "ActionPlanned"
    <2>1. log[i].key = <<log[i].act, "action-planned", 0>>
      BY <1>2 DEF Keyed, KeyOf, WorkerEvents
    <2>. QED
      BY <1>2, <2>1
  <1>3. CASE log[i].type = "ActionCompleted"
    <2>1. log[i].key = <<log[i].act, "action-completed", 0>>
      BY <1>3 DEF Keyed, KeyOf, WorkerEvents
    <2>. QED
      BY <1>3, <2>1 DEF IsResult
  <1>4. CASE log[i].type = "ActionFailed"
    <2>1. /\ log[i].key = <<log[i].act, log[i].outcome, 0>>
          /\ log[i].outcome \in ActionOutcomes
      BY <1>4 DEF Keyed, KeyOf, WorkerEvents
    <2>. QED
      BY <1>4, <2>1 DEF IsResult, ActionOutcomes
  <1>. QED
    BY <1>1, <1>2, <1>3, <1>4 DEF WorkerEvents

(* An action that was not planned has not taken its plan's key.            *)
LEMMA PlanKeyFree ==
  ASSUME Keyed, NEW act, ~Planned(act)
  PROVE  {i \in DOMAIN log : log[i].key = <<act, "action-planned", 0>>} = {}
  BY KeyNames DEF Planned

(* The pending action has no result, so no result's key is taken.          *)
LEMMA ResultKeyFree ==
  ASSUME Keyed, PendingIsOpen, st.pend # NoAction,
         NEW tag \in {"action-completed", "failed", "ambiguous"}
  PROVE  {i \in DOMAIN log : log[i].key = <<st.pend, tag, 0>>} = {}
  BY KeyNames DEF PendingIsOpen, Resolved, IsResult

(* The command that recovery rebuilds is about the pending action.         *)
LEMMA PendingCommandAct == \A s : PendingCommand(s).act = s.pend
  BY DEF PendingCommand

-----------------------------------------------------------------------------
(* The store: what it holds for whoever owns the Run next.                 *)

(* The pending action is recorded as it was planned.                       *)
PendingPlan ==
  st.pend # NoAction =>
    \E i \in DOMAIN log :
      /\ log[i].type = "ActionPlanned" /\ log[i].act = st.pend
      /\ log[i].scope = st.pendScope /\ log[i].aid = st.pendAid

(* A receipt has the output that its plan asks for.                        *)
ReceiptsEarned ==
  \A r \in receipts : \E i \in PlansOf(r) : ValidateManagedActionOutput(r, log[i].aid)

StoreInv == Keyed /\ PendingPlan /\ ReceiptsEarned /\ Fits(st)

LEMMA StoreInvAppends ==
  ASSUME TypeOK, RunInv(st), RunIds(st), StoreInv, NEW e, Appends(e),
         e.type = "DesiredStateChanged" => e.key[2] \in DesiredStates
  PROVE  StoreInv'
  <1>1. /\ TypeOK /\ st \in RunStates /\ st.exists /\ log \in Seq(Events)
        /\ RunInv(st) /\ RunIds(st) /\ Keyed /\ PendingPlan /\ ReceiptsEarned /\ Fits(st)
    BY DEF TypeOK, StoreInv
  <1>2. /\ e \in Events /\ log' = Append(log, e) /\ receipts' = receipts
        /\ st' = ApplyEvent(st, e) /\ ApplyEvent(st, e).exists
        /\ e.type \in WorkerEvents \cup {"DesiredStateChanged"}
        /\ e.type \in WorkerEvents => e.key = KeyOf(e)
    BY DEF Appends, WorkerEvents
  <1>. DEFINE new == Len(log) + 1
  <1>3. /\ \A i \in DOMAIN log : i \in DOMAIN log' /\ log'[i] = log[i]
        /\ new \in DOMAIN log' /\ log'[new] = e
        /\ \A i \in DOMAIN log' : i \in DOMAIN log \/ i = new
    BY <1>1, <1>2, AppendedLog
  <1>. HIDE DEF new
  <1>4. Keyed'
    <2>1. e.type = "ActionFailed" => e.outcome \in ActionOutcomes
      <3>1. ~Rejected.exists
        BY DEF Rejected, InitialState
      <3>. QED
        BY <1>1, <1>2, <3>1, Dispatch DEF ApplyActionFailed
    <2>2. e.type \notin WorkerEvents => e.key[2] \in {"run-created"} \cup DesiredStates
      BY <1>2
    <2>. QED
      BY <1>1, <1>2, <1>3, <2>1, <2>2 DEF Keyed
  <1>5. PendingPlan'
    <2>1. CASE e.type = "DesiredStateChanged"
      <3>1. /\ st'.pendScope = st.pendScope /\ st'.pendAid = st.pendAid
            /\ st'.pend = st.pend
        BY <1>1, <1>2, <2>1, DesiredIds, DesiredFields, PendingEffect
      <3>. QED
        BY <1>1, <1>3, <3>1 DEF PendingPlan
    <2>2. CASE e.type = "ActionPlanned"
      <3>1. st'.pend = e.act /\ st'.pendScope = e.scope /\ st'.pendAid = e.aid
        BY <1>1, <1>2, <2>2, PlannedIds, PlannedFields
      <3>. QED
        BY <1>3, <2>2, <3>1 DEF PendingPlan
    <2>3. CASE e.type \in {"ActionCompleted", "ActionFailed"}
      <3>1. st'.pend = NoAction
        BY <1>1, <1>2, <2>3, PendingEffect
      <3>. QED
        BY <3>1 DEF PendingPlan
    <2>. QED
      BY <1>2, <2>1, <2>2, <2>3 DEF WorkerEvents
  <1>6. ReceiptsEarned'
    <2>1. \A r : \A i \in PlansOf(r) : i \in PlansOf(r)' /\ log'[i] = log[i]
      BY <1>3 DEF PlansOf
    <2>. QED
      BY <1>1, <1>2, <2>1 DEF ReceiptsEarned, ValidateManagedActionOutput
  <1>7. Fits(st')
    BY <1>1, <1>2, FitsKept
  <1>. QED
    BY <1>4, <1>5, <1>6, <1>7 DEF StoreInv

LEMMA StoreInvStep ==
  ASSUME TypeOK, RunInv(st), RunIds(st), StoreInv, [Next]_vars
  PROVE  StoreInv'
  <1>1. ASSUME UNCHANGED store, receipts' = receipts PROVE StoreInv'
    BY <1>1 DEF store, StoreInv, Keyed, PendingPlan, ReceiptsEarned, PlansOf
  <1>2. ASSUME NEW w \in Workers, NewReceipt(w) PROVE StoreInv'
    <2>. DEFINE made == task[w].made
                new == StoredReceipt(w)
    <2>1. /\ log' = log /\ st' = st /\ receipts' = receipts \cup {new}
          /\ RecordOutcome(w) = "recorded" /\ ReceiptOf(made.act) = {}
      BY <1>2 DEF NewReceipt, store
    <2>2. PICK i \in PlansOf(made) : ValidateManagedActionOutput(made, log[i].aid)
      BY <2>1 DEF RecordOutcome
    <2>3. /\ new.act = made.act /\ new.scope = made.scope /\ new.aid = made.aid
          /\ new.tool = made.tool /\ new.reason = made.reason
      BY DEF StoredReceipt
    <2>. HIDE DEF made, new
    <2>4. i \in PlansOf(new) /\ ValidateManagedActionOutput(new, log[i].aid)
      BY <2>2, <2>3 DEF PlansOf, ValidateManagedActionOutput
    <2>5. ReceiptsEarned'
      BY <2>1, <2>4 DEF StoreInv, ReceiptsEarned, PlansOf
    <2>. QED
      BY <2>1, <2>5 DEF StoreInv, Keyed, PendingPlan
  <1>3. ASSUME NEW w \in Workers,
               \/ Appends(PlannedEvent(w)) \/ Appends(CompletedEvent(w))
               \/ Appends(FailedEvent(w))
        PROVE  StoreInv'
    BY <1>3, StoreInvAppends, WorkerEventShape
  <1>4. ASSUME NEW d \in Intents, Appends(DesiredEvent(d)) PROVE StoreInv'
    <2>1. DesiredEvent(d).key[2] \in DesiredStates
      BY ConstantsAssumption DEF DesiredEvent, Event
    <2>. QED
      BY <1>4, <2>1, StoreInvAppends
  <1>5. CASE receipts' = receipts
    BY <1>1, <1>3, <1>4, <1>5, StoreSteps DEF StoreStep
  <1>. QED
    BY <1>2, <1>5, ReceiptStep

LEMMA StoreInvInit == Init => StoreInv
  <1>. SUFFICES ASSUME Init PROVE StoreInv
    OBVIOUS
  <1>1. /\ st.pend = NoAction /\ LogicalState(st) = "Queued"
        /\ DOMAIN log = {1} /\ log[1].type = "RunCreated"
    BY InitialRun
  <1>2. log[1].key[2] = "run-created"
    BY DEF Init, RunCreatedEvent, Event
  <1>3. Keyed
    BY <1>1, <1>2 DEF Keyed, WorkerEvents
  <1>4. PendingPlan
    BY <1>1 DEF PendingPlan
  <1>5. ReceiptsEarned
    BY DEF Init, ReceiptsEarned
  <1>6. LogicalState(st) \in Statuses \ {"Paused"}
    BY <1>1 DEF Statuses
  <1>7. Fits(st)
    BY <1>1, <1>6 DEF Fits
  <1>. QED
    BY <1>3, <1>4, <1>5, <1>7 DEF StoreInv
=============================================================================
