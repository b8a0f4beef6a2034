-------------------------- MODULE ManagedRunProofs --------------------------
(***************************************************************************)
(* Proofs about ManagedRun, for any set of workers, any outputs, any       *)
(* safety policy and any bounds: the types, then the safety invariants of  *)
(* the log.  Every step either leaves the log alone or appends one event   *)
(* that passed all checks of Append (lemma LogStep); the invariants are then *)
(* argued about that one event.                                            *)
(***************************************************************************)
EXTENDS ManagedRun, TLAPS

-----------------------------------------------------------------------------
(* The reducer maps Run states to Run states.                              *)

LEMMA InitialStateType == InitialState \in RunStates
  BY DEF InitialState, RunStates, ActionIds, NoAction, DesiredStates, Statuses,
         CommandTypes, Scopes, IdempotencyScopes, Tools, Faults

LEMMA TransitionType ==
  ASSUME NEW s \in RunStates, NEW next \in Statuses
  PROVE  Transition(s, next) \in RunStates
  BY InitialStateType DEF Transition, Rejected, RunStates

LEMMA AdvanceType ==
  ASSUME NEW s \in RunStates, NEW next \in Statuses
  PROVE  AdvanceManagedState(s, next) \in RunStates
  BY InitialStateType, TransitionType DEF AdvanceManagedState, Rejected, RunStates

LEMMA DesiredStateType ==
  ASSUME NEW s \in RunStates, NEW desired \in DesiredStates \cup {""}
  PROVE  ApplyDesiredState(s, desired) \in RunStates
  <1>1. PauseIntent(s) \in RunStates
    <2>1. [s EXCEPT !.resume = s.observed, !.observed = "Paused", !.desired = "Paused"]
            \in RunStates
      BY DEF RunStates, DesiredStates, Statuses
    <2>. QED
      BY <2>1, InitialStateType DEF PauseIntent, Rejected
  <1>2. ResumeIntent(s) \in RunStates
    <2>1. [s EXCEPT !.observed = s.resume, !.resume = "", !.desired = "Running"]
            \in RunStates
      BY DEF RunStates, DesiredStates
    <2>. QED
      BY <2>1, InitialStateType DEF ResumeIntent, Rejected
  <1>3. CancelIntent(s) \in RunStates
    BY InitialStateType DEF CancelIntent, Rejected, RunStates, DesiredStates
  <1>. QED
    BY <1>1, <1>2, <1>3, InitialStateType DEF ApplyDesiredState, Rejected

LEMMA ClearPendingType ==
  ASSUME NEW s \in RunStates
  PROVE  ClearPending(s) \in RunStates
  BY DEF ClearPending, RunStates, ActionIds, NoAction, Scopes

LEMMA CreatedType ==
  ASSUME NEW s \in RunStates
  PROVE  ApplyRunCreated(s) \in RunStates
  <1>1. [InitialState EXCEPT !.exists = TRUE, !.desired = "Running", !.observed = "Queued"]
          \in RunStates
    BY InitialStateType DEF RunStates, DesiredStates, Statuses
  <1>. QED
    BY <1>1, InitialStateType DEF ApplyRunCreated, Rejected

LEMMA ActionTypeType ==
  ASSUME NEW act \in ActionIds
  PROVE  ActionType(act) \in CommandTypes \cup {""}
  BY DEF ActionIds, ActionType

LEMMA PlannedType ==
  ASSUME NEW s \in RunStates, NEW e \in Events
  PROVE  ApplyActionPlanned(s, e) \in RunStates
  <1>1. [s EXCEPT !.pend = e.act, !.pendType = ActionType(e.act),
                  !.pendAid = e.aid, !.pendScope = e.scope] \in RunStates
    BY ActionTypeType DEF RunStates, Events
  <1>. QED
    BY <1>1, InitialStateType DEF ApplyActionPlanned, Rejected

(* Each branch of applyCompletedActionResult.                              *)
LEMMA CompletedResultType ==
  ASSUME NEW s \in RunStates, NEW e \in Events
  PROVE  ApplyCompletedActionResult(s, e) \in RunStates
  <1>. DEFINE Advanced(next) == AdvanceManagedState(s, next)
  <1>1. \A next \in Statuses : Advanced(next) \in RunStates
    BY AdvanceType
  <1>2. /\ Advanced("Provisioning") \in RunStates /\ Advanced("Reasoning") \in RunStates
        /\ Advanced("Acting") \in RunStates /\ Advanced("Verifying") \in RunStates
        /\ Advanced("Succeeded") \in RunStates /\ Advanced("Failed") \in RunStates
        /\ Advanced("Cancelled") \in RunStates
    BY <1>1 DEF Statuses
  <1>. HIDE DEF Advanced
  <1>3. [Advanced("Provisioning") EXCEPT !.attempt = s.attempt + 1, !.aid = e.aid]
          \in RunStates
    <2>1. \A r \in RunStates : \A n, m \in Nat :
            [r EXCEPT !.attempt = n, !.aid = m] \in RunStates
      BY DEF RunStates
    <2>2. s.attempt \in Nat /\ e.aid \in Nat
      BY DEF RunStates, Events
    <2>3. s.attempt + 1 \in Nat
      BY <2>2
    <2>. QED
      BY <1>2, <2>1, <2>2, <2>3, Zenon
  <1>4. [Advanced("Acting") EXCEPT !.tool = e.tool] \in RunStates
    BY <1>2 DEF RunStates, Events
  <1>5. PatchApplied(s) \in RunStates
    <2>1. [AdvanceManagedState(s, "Verifying") EXCEPT !.patch = TRUE] \in RunStates
      BY <1>2 DEF RunStates, Advanced
    <2>. QED
      BY <2>1, InitialStateType DEF PatchApplied, Rejected
  <1>6. [s EXCEPT !.verified = TRUE] \in RunStates
    BY DEF RunStates
  <1>7. \A reason \in Faults : [Advanced("Failed") EXCEPT !.failure = reason] \in RunStates
    BY <1>2 DEF RunStates
  <1>8. e.reason \in Faults /\ s.failure \in Faults
    BY DEF RunStates, Events
  <1>. QED
    BY <1>2, <1>3, <1>4, <1>5, <1>6, <1>7, <1>8, InitialStateType
    DEF ApplyCompletedActionResult, Rejected, Advanced

LEMMA CompletedType ==
  ASSUME NEW s \in RunStates, NEW e \in Events
  PROVE  ApplyActionCompleted(s, e) \in RunStates
  <1>1. \A r \in RunStates : \A act \in ActionIds : [r EXCEPT !.done = act] \in RunStates
    BY DEF RunStates
  <1>2. e.act \in ActionIds
    BY DEF Events
  <1>. QED
    BY <1>1, <1>2, ClearPendingType, CompletedResultType, InitialStateType
    DEF ApplyActionCompleted, Rejected

LEMMA FailedType ==
  ASSUME NEW s \in RunStates, NEW e \in Events
  PROVE  ApplyActionFailed(s, e) \in RunStates
  <1>1. [ClearPending(s) EXCEPT !.failure = e.reason] \in RunStates
    BY ClearPendingType, ZenonT(60) DEF RunStates, Events
  <1>2. "WaitingApproval" \in Statuses
    BY DEF Statuses
  <1>. QED
    BY <1>1, <1>2, AdvanceType, InitialStateType DEF ApplyActionFailed, Rejected

(* One event of the leased path takes a Run state to a Run state.          *)
LEMMA ApplyEventType ==
  ASSUME NEW s \in RunStates, NEW e \in Events
  PROVE  ApplyEvent(s, e) \in RunStates
  <1>1. e.type \in EventTypes /\ e.desired \in DesiredStates \cup {""}
    BY DEF Events
  <1>2. e.type \notin LegacyLifecycleResultEvents \cup LeaseEvents
    BY <1>1 DEF EventTypes, LegacyLifecycleResultEvents, LeaseEvents
  <1>. QED
    BY <1>1, <1>2, CreatedType, DesiredStateType, PlannedType, CompletedType, FailedType,
       InitialStateType
    DEF ApplyEvent, Rejected, EventTypes

-----------------------------------------------------------------------------
(* Commands, events and drafts that the workers and the operator build.    *)

LEMMA DecideType ==
  ASSUME NEW s \in RunStates
  PROVE  Decide(s) \in Commands
  <1>1. Noop \in Commands
    BY DEF Noop, Commands, NoAction, ActionIds
  <1>2. \A type \in CommandTypes : CommandFor(s, type) \in Commands
    BY DEF CommandFor, Commands, RunStates, ActionIds
  <1>3. \A c \in Commands : SameIfPending(s, c) \in Commands
    BY DEF SameIfPending, Commands, RunStates
  <1>4. [CommandFor(s, "StartAttempt") EXCEPT !.aid = s.attempt + 1] \in Commands
    <2>1. s.attempt \in Nat
      BY DEF RunStates
    <2>2. s.attempt + 1 \in Nat
      BY <2>1
    <2>3. CommandFor(s, "StartAttempt") \in Commands
      BY <1>2 DEF CommandTypes
    <2>4. \A c \in Commands : \A n \in Nat : [c EXCEPT !.aid = n] \in Commands
      BY DEF Commands
    <2>. QED
      BY <2>2, <2>3, <2>4
  <1>5. DecideByStatus(s) \in Commands
    BY <1>1, <1>2, <1>3, <1>4 DEF DecideByStatus, CommandTypes
  <1>. QED
    BY <1>1, <1>2, <1>5 DEF Decide, CommandTypes

LEMMA TaskType ==
  ASSUME TypeOK, NEW w \in Workers
  PROVE  /\ task[w] \in Tasks
         /\ task[w].view \in RunStates /\ task[w].ver \in Nat
         /\ task[w].cmd \in Commands /\ task[w].cmd.act \in ActionIds
         /\ task[w].cmd.aid \in Nat
         /\ task[w].made \in Drafts /\ task[w].fault \in Faults
         /\ held[w] \in Nat
  BY DEF TypeOK, Tasks, Commands

LEMMA BlankEventType ==
  ASSUME NEW type \in EventTypes, NEW key \in ActionIds \X KeyTags \X Nat,
         NEW worker \in Workers \cup {NoWorker}, NEW token \in Nat
  PROVE  Event(type, key, worker, token) \in Events
  BY DEF Event, Events, NoAction, ActionIds, Scopes, Tools, Faults

LEMMA PlannedEventType ==
  ASSUME TypeOK, NEW w \in Workers
  PROVE  PlannedEvent(w) \in Events
  <1>. DEFINE blank == Event("ActionPlanned", <<task[w].cmd.act, "action-planned", 0>>,
                             w, held[w])
  <1>1. blank \in Events
    <2>1. <<task[w].cmd.act, "action-planned", 0>> \in ActionIds \X KeyTags \X Nat
      BY TaskType DEF KeyTags
    <2>2. "ActionPlanned" \in EventTypes
      BY DEF EventTypes
    <2>. QED
      BY <2>1, <2>2, TaskType, BlankEventType
  <1>2. Safety(task[w].cmd) \in Scopes
    BY DEF Safety, Scopes, IdempotencyScopes
  <1>. HIDE DEF blank
  <1>3. [blank EXCEPT !.act = task[w].cmd.act, !.aid = task[w].cmd.aid,
                      !.scope = Safety(task[w].cmd)] \in Events
    BY <1>1, <1>2, TaskType DEF Events
  <1>. QED
    BY <1>3 DEF PlannedEvent, blank

LEMMA CompletedEventType ==
  ASSUME TypeOK, NEW w \in Workers
  PROVE  CompletedEvent(w) \in Events
  <1>. DEFINE r == task[w].made
              blank == Event("ActionCompleted", <<r.act, "action-completed", 0>>, w, held[w])
  <1>1. /\ r.act \in ActionIds /\ r.scope \in Scopes /\ r.aid \in Nat
        /\ r.tool \in Tools /\ r.reason \in Faults
    BY TaskType DEF Drafts
  <1>2. blank \in Events
    <2>1. <<r.act, "action-completed", 0>> \in ActionIds \X KeyTags \X Nat
      BY <1>1 DEF KeyTags
    <2>2. "ActionCompleted" \in EventTypes
      BY DEF EventTypes
    <2>. QED
      BY <2>1, <2>2, TaskType, BlankEventType
  <1>. HIDE DEF r, blank
  <1>3. [blank EXCEPT !.act = r.act, !.aid = r.aid, !.scope = r.scope,
                      !.tool = r.tool, !.reason = r.reason] \in Events
    BY <1>1, <1>2 DEF Events
  <1>. QED
    BY <1>3 DEF CompletedEvent, r, blank

LEMMA FailedEventType ==
  ASSUME TypeOK, NEW w \in Workers
  PROVE  FailedEvent(w) \in Events
  <1>. DEFINE outcome == OutcomeOf(task[w].fault)
              blank == Event("ActionFailed", <<task[w].cmd.act, outcome, 0>>, w, held[w])
  <1>1. outcome \in ActionOutcomes
    BY DEF OutcomeOf, ActionOutcomes
  <1>. HIDE DEF outcome
  <1>2. blank \in Events
    <2>1. <<task[w].cmd.act, outcome, 0>> \in ActionIds \X KeyTags \X Nat
      BY <1>1, TaskType DEF KeyTags
    <2>2. "ActionFailed" \in EventTypes
      BY DEF EventTypes
    <2>. QED
      BY <2>1, <2>2, TaskType, BlankEventType
  <1>. HIDE DEF blank
  <1>3. [blank EXCEPT !.act = task[w].cmd.act, !.reason = task[w].fault,
                      !.outcome = outcome] \in Events
    BY <1>1, <1>2, TaskType DEF Events
  <1>. QED
    BY <1>3 DEF FailedEvent, outcome, blank

LEMMA DesiredEventType ==
  ASSUME TypeOK, NEW d \in Intents
  PROVE  DesiredEvent(d) \in Events
  <1>. DEFINE blank == Event("DesiredStateChanged", <<NoAction, d, Len(log)>>, NoWorker, 0)
  <1>1. d \in DesiredStates
    BY ConstantsAssumption
  <1>2. Len(log) \in Nat
    BY DEF TypeOK
  <1>3. blank \in Events
    <2>1. NoAction \in ActionIds
      BY DEF NoAction, ActionIds
    <2>2. d \in KeyTags
      BY <1>1 DEF KeyTags
    <2>3. <<NoAction, d, Len(log)>> \in ActionIds \X KeyTags \X Nat
      BY <1>2, <2>1, <2>2
    <2>4. "DesiredStateChanged" \in EventTypes
      BY DEF EventTypes
    <2>. QED
      BY <2>3, <2>4, BlankEventType
  <1>. HIDE DEF blank
  <1>4. [blank EXCEPT !.desired = d] \in Events
    BY <1>1, <1>3 DEF Events
  <1>. QED
    BY <1>4 DEF DesiredEvent, blank

(* Appending an event that reduces keeps the log and the projection typed. *)
LEMMA CommitType ==
  ASSUME TypeOK, NEW e \in Events, NEW version \in Nat,
         Commit(e, AppendOutcome(e, version))
  PROVE  log' \in Seq(Events) /\ st' \in RunStates /\ st'.exists
  <1>1. CASE AppendOutcome(e, version) = "appended"
    <2>1. ApplyEvent(st, e).exists
      BY <1>1 DEF AppendOutcome
    <2>2. log' = Append(log, e) /\ st' = ApplyEvent(st, e)
      BY <1>1 DEF Commit
    <2>3. log \in Seq(Events) /\ st \in RunStates
      BY DEF TypeOK
    <2>. QED
      BY <2>1, <2>2, <2>3, ApplyEventType
  <1>2. CASE AppendOutcome(e, version) # "appended"
    BY <1>2 DEF Commit, TypeOK, store
  <1>. QED
    BY <1>1, <1>2

LEMMA OutcomesType ==
  /\ \A e, version : AppendOutcome(e, version) \in StopReasons
  /\ \A w : RecordOutcome(w) \in StopReasons
  BY DEF AppendOutcome, RecordOutcome, StopReasons

-----------------------------------------------------------------------------
(* Type correctness.                                                       *)

LEMMA NoTaskType == NoTask \in Tasks
  <1>1. Noop \in Commands
    BY DEF Noop, Commands, NoAction, ActionIds
  <1>2. NoReceipt \in Drafts
    BY DEF NoReceipt, Drafts, NoAction, ActionIds, Scopes, Tools, Faults
  <1>. QED
    BY <1>1, <1>2, InitialStateType DEF NoTask, Tasks, Faults

LEMMA LeaveType ==
  ASSUME TypeOK, NEW w \in Workers, NEW l, Leave(w, l),
         l \in InSession \cup Stopped \cup {"off", "acquire"}
  PROVE  /\ pc' \in [Workers -> InSession \cup Stopped \cup {"off", "acquire"}]
         /\ task' \in [Workers -> Tasks]
  BY NoTaskType DEF Leave, Goto, TypeOK

LEMMA BeginType ==
  ASSUME TypeOK, NEW w \in Workers, NEW c \in Commands, NEW f \in Faults,
         NEW l \in InSession, Begin(w, c, f, l)
  PROVE  /\ pc' \in [Workers -> InSession \cup Stopped \cup {"off", "acquire"}]
         /\ task' \in [Workers -> Tasks]
  <1>. DEFINE new == [NoTask EXCEPT !.view = st, !.ver = Len(log), !.cmd = c, !.fault = f]
  <1>1. Len(log) \in Nat /\ st \in RunStates
    BY DEF TypeOK
  <1>2. \A t \in Tasks : \A v \in RunStates : \A n \in Nat :
          [t EXCEPT !.view = v, !.ver = n, !.cmd = c, !.fault = f] \in Tasks
    BY Zenon DEF Tasks
  <1>3. new \in Tasks
    BY <1>1, <1>2, NoTaskType, Zenon
  <1>. HIDE DEF new
  <1>4. task' = [task EXCEPT ![w] = new]
    BY DEF Begin, new
  <1>. QED
    BY <1>3, <1>4 DEF Begin, Goto, TypeOK

(* Every worker and environment step keeps the types.                      *)
LEMMA TypeStep == TypeOK /\ [Next]_vars => TypeOK'
  <1>. SUFFICES ASSUME TypeOK, [Next]_vars PROVE TypeOK'
    OBVIOUS
  <1>1. ASSUME NEW w \in Workers, Register(w) PROVE TypeOK'
    BY <1>1 DEF Register, Goto, TypeOK, store, history
  <1>2. ASSUME NEW w \in Workers, Acquire(w) PROVE TypeOK'
    BY <1>2 DEF Acquire, Goto, TypeOK, store, history, InSession
  <1>3. ASSUME NEW w \in Workers, Validate(w) PROVE TypeOK'
    BY <1>3 DEF Validate, Goto, TypeOK, store, history, InSession
  <1>4. ASSUME NEW w \in Workers, Poll(w) PROVE TypeOK'
    BY <1>4 DEF Poll, Goto, TypeOK, store, history, InSession
  <1>5. ASSUME NEW w \in Workers, SessionLost(w) PROVE TypeOK'
    <2>1. CASE Leave(w, "acquire") /\ UNCHANGED stop
      BY <1>5, <2>1, LeaveType DEF SessionLost, TypeOK, store, history
    <2>2. CASE Exit(w, "context_cancelled")
      BY <1>5, <2>2, LeaveType DEF SessionLost, Exit, Stopped, StopReasons, TypeOK, store, history
    <2>. QED
      BY <1>5, <2>1, <2>2 DEF SessionLost
  <1>6. ASSUME NEW w \in Workers, DecideNoop(w) \/ RecoverPaused(w) PROVE TypeOK'
    <2>1. AfterNoop(st) \in InSession \cup Stopped
      BY DEF AfterNoop, InSession, Stopped
    <2>. QED
      BY <1>6, <2>1, LeaveType DEF DecideNoop, RecoverPaused, TypeOK, store, history
  <1>7. ASSUME NEW w \in Workers, DecideCommand(w) PROVE TypeOK'
    <2>1. Decide(st) \in Commands
      BY DecideType DEF TypeOK
    <2>2. "plan" \in InSession /\ "" \in Faults
      BY DEF InSession, Faults
    <2>. QED
      BY <1>7, <2>1, <2>2, BeginType DEF DecideCommand, TypeOK, store, history
  <1>8. ASSUME NEW w \in Workers, RecoverCancelled(w) \/ RecoverPending(w) PROVE TypeOK'
    <2>1. PendingCommand(st) \in Commands
      BY DEF PendingCommand, Commands, TypeOK, RunStates
    <2>2. {"fail", "lookup"} \subseteq InSession /\ {"", "superseded"} \subseteq Faults
      BY DEF InSession, Faults
    <2>. QED
      BY <1>8, <2>1, <2>2, BeginType DEF RecoverCancelled, RecoverPending, TypeOK, store, history
  <1>9. ASSUME NEW w \in Workers, LookupReceipt(w) PROVE TypeOK'
    <2>1. \A r \in receipts : Draft(r) \in Drafts
      BY DEF Draft, Drafts, TypeOK, Receipts
    <2>2. task' \in [Workers -> Tasks]
      <3>1. CASE task' = [task EXCEPT ![w].fault = "no_receipt"]
        BY <3>1, ZenonT(60) DEF TypeOK, Tasks, Faults
      <3>2. ASSUME NEW r \in receipts, task' = [task EXCEPT ![w].made = Draft(r)]
            PROVE  task' \in [Workers -> Tasks]
        BY <2>1, <3>2, ZenonT(60) DEF TypeOK, Tasks
      <3>. QED
        BY <1>9, <3>1, <3>2, Zenon DEF LookupReceipt, ReceiptOf, TypeOK
    <2>3. pc' \in [Workers -> InSession \cup Stopped \cup {"off", "acquire"}]
      BY <1>9, Zenon DEF LookupReceipt, Goto, TypeOK, InSession
    <2>. QED
      BY <1>9, <2>2, <2>3 DEF LookupReceipt, TypeOK, store, history
  <1>10. ASSUME NEW w \in Workers, PlanAction(w) PROVE TypeOK'
    <2>. DEFINE outcome == AppendOutcome(PlannedEvent(w), task[w].ver)
    <2>1. log' \in Seq(Events) /\ st' \in RunStates /\ st'.exists
      BY <1>10, CommitType, PlannedEventType, TaskType DEF PlanAction
    <2>2. CASE outcome \in {"appended", "replayed"}
      <3>1. Len(log') \in Nat
        BY <2>1
      <3>2. task' = [task EXCEPT ![w].ver = Len(log')] /\ Goto(w, "reload") /\ UNCHANGED stop
        BY <1>10, <2>2 DEF PlanAction
      <3>3. task' \in [Workers -> Tasks]
        BY <3>1, <3>2, ZenonT(60) DEF TypeOK, Tasks
      <3>. QED
        BY <1>10, <2>1, <3>2, <3>3 DEF PlanAction, Goto, TypeOK, history, InSession
    <2>3. CASE outcome = "version_conflict"
      <3>1. Leave(w, AfterNoop(st)) /\ UNCHANGED stop
        BY <1>10, <2>3 DEF PlanAction
      <3>2. AfterNoop(st) \in InSession \cup Stopped
        BY DEF AfterNoop, InSession, Stopped
      <3>. QED
        BY <1>10, <2>1, <3>1, <3>2, LeaveType DEF PlanAction, TypeOK, history
    <2>4. CASE outcome \notin {"appended", "replayed", "version_conflict"}
      <3>1. Exit(w, outcome)
        BY <1>10, <2>4 DEF PlanAction
      <3>. QED
        BY <1>10, <2>1, <3>1, LeaveType, OutcomesType
        DEF PlanAction, Exit, Stopped, TypeOK, history
    <2>. QED
      BY <2>2, <2>3, <2>4
  <1>11. ASSUME NEW w \in Workers, ReloadPlanned(w) PROVE TypeOK'
    <2>1. task' \in [Workers -> Tasks]
      BY <1>11, ZenonT(60) DEF ReloadPlanned, TypeOK, Tasks
    <2>. QED
      BY <1>11, <2>1 DEF ReloadPlanned, Goto, TypeOK, store, history, InSession
  <1>12. ASSUME NEW w \in Workers, Execute(w) PROVE TypeOK'
    <2>. DEFINE command == task[w].cmd
                made(answer) ==
                  [act |-> command.act, scope |-> task[w].view.pendScope,
                   aid |-> IF command.type = "StartAttempt" THEN command.aid ELSE 0,
                   tool |-> answer,
                   reason |-> IF command.type = "FailRun" THEN task[w].view.failure ELSE ""]
    <2>1. \A answer \in Tools : made(answer) \in Drafts
      <3>1. task[w].view.pendScope \in Scopes /\ task[w].view.failure \in Faults
        BY TaskType DEF RunStates
      <3>. QED
        BY <3>1, TaskType DEF Drafts, Faults
    <2>2. PICK answer \in Tools : task' = [task EXCEPT ![w].made = made(answer)]
      BY <1>12 DEF Execute, Tools
    <2>. HIDE DEF made
    <2>3. task' \in [Workers -> Tasks]
      BY <2>1, <2>2, ZenonT(60) DEF TypeOK, Tasks
    <2>4. artifacts' \subseteq ActionIds /\ executed' \subseteq ActionIds
          /\ repeated' \subseteq executed'
      BY <1>12, TaskType DEF Execute, Ran, TypeOK
    <2>. QED
      BY <1>12, <2>3, <2>4 DEF Execute, Goto, TypeOK, store, InSession
  <1>13. ASSUME NEW w \in Workers, ExecuteFails(w) PROVE TypeOK'
    <2>1. task' \in [Workers -> Tasks]
      BY <1>13, ZenonT(60) DEF ExecuteFails, TypeOK, Tasks, Faults
    <2>2. executed' \subseteq ActionIds /\ repeated' \subseteq executed'
      BY <1>13, TaskType DEF ExecuteFails, Ran, TypeOK
    <2>. QED
      BY <1>13, <2>1, <2>2 DEF ExecuteFails, Goto, TypeOK, store, InSession
  <1>14. ASSUME NEW w \in Workers, RecordReceipt(w) PROVE TypeOK'
    <2>1. receipts' \subseteq Receipts
      <3>1. StoredReceipt(w) \in Receipts
        BY TaskType DEF StoredReceipt, Receipts, Drafts
      <3>. QED
        BY <1>14, <3>1 DEF RecordReceipt, TypeOK
    <2>2. CASE Goto(w, "verify") /\ UNCHANGED <<task, stop>>
      BY <1>14, <2>1, <2>2 DEF RecordReceipt, Goto, TypeOK, store, history, InSession
    <2>3. CASE Leave(w, "acquire") /\ UNCHANGED stop
      BY <1>14, <2>1, <2>3, LeaveType DEF RecordReceipt, TypeOK, store, history
    <2>4. CASE Exit(w, RecordOutcome(w))
      BY <1>14, <2>1, <2>4, LeaveType, OutcomesType
      DEF RecordReceipt, Exit, Stopped, TypeOK, store, history
    <2>. QED
      BY <1>14, <2>2, <2>3, <2>4 DEF RecordReceipt
  <1>15. ASSUME NEW w \in Workers, VerifyEvidence(w) PROVE TypeOK'
    <2>1. task' \in [Workers -> Tasks]
      BY <1>15, ZenonT(60) DEF VerifyEvidence, TypeOK, Tasks, Faults
    <2>2. pc' \in [Workers -> InSession \cup Stopped \cup {"off", "acquire"}]
      BY <1>15 DEF VerifyEvidence, Goto, TypeOK, InSession
    <2>. QED
      BY <1>15, <2>1, <2>2 DEF VerifyEvidence, TypeOK, store, history
  <1>16. ASSUME NEW w \in Workers, NEW e \in Events, AppendResult(w, e) PROVE TypeOK'
    <2>. DEFINE outcome == AppendOutcome(e, task[w].ver)
    <2>1. log' \in Seq(Events) /\ st' \in RunStates /\ st'.exists
      BY <1>16, CommitType, TaskType DEF AppendResult
    <2>2. CASE Leave(w, "finish") /\ UNCHANGED stop
      BY <1>16, <2>1, <2>2, LeaveType DEF AppendResult, InSession, TypeOK, history
    <2>3. CASE /\ task' = [task EXCEPT ![w].ver = Len(log), ![w].again = TRUE]
               /\ UNCHANGED <<pc, stop>>
      <3>1. Len(log) \in Nat
        BY DEF TypeOK
      <3>. DEFINE new == [task[w] EXCEPT !.ver = Len(log), !.again = TRUE]
      <3>2. new \in Tasks
        BY <3>1, TaskType, Zenon DEF Tasks
      <3>3. task' = [task EXCEPT ![w] = new]
        BY <2>3, Zenon DEF TypeOK
      <3>4. task' \in [Workers -> Tasks]
        BY <3>2, <3>3 DEF TypeOK
      <3>. QED
        BY <1>16, <2>1, <2>3, <3>4 DEF AppendResult, TypeOK, history
    <2>4. CASE Exit(w, outcome)
      BY <1>16, <2>1, <2>4, LeaveType, OutcomesType
      DEF AppendResult, Exit, Stopped, TypeOK, history
    <2>. QED
      BY <1>16, <2>2, <2>3, <2>4 DEF AppendResult
  <1>17. ASSUME NEW w \in Workers, CompleteAction(w) \/ FailAction(w) PROVE TypeOK'
    <2>1. CASE CompleteAction(w)
      <3>1. CompletedEvent(w) \in Events
        BY CompletedEventType
      <3>. QED
        BY <1>16, <2>1, <3>1 DEF CompleteAction
    <2>2. CASE FailAction(w)
      <3>1. FailedEvent(w) \in Events
        BY FailedEventType
      <3>. QED
        BY <1>16, <2>2, <3>1 DEF FailAction
    <2>. QED
      BY <1>17, <2>1, <2>2
  <1>18. ASSUME NEW w \in Workers, Finish(w) PROVE TypeOK'
    BY <1>18 DEF Finish, Goto, TypeOK, store, history, InSession, Stopped
  <1>19. ASSUME NEW w \in Workers, RenewFails(w) PROVE TypeOK'
    BY <1>19 DEF RenewFails, TypeOK, store, history
  <1>20. ASSUME NEW w \in Workers, Crash(w) PROVE TypeOK'
    BY <1>20, LeaveType DEF Crash, Stopped, TypeOK, store, history
  <1>21. ASSUME NEW d \in Intents, SetDesiredState(d) PROVE TypeOK'
    <2>1. Len(log) \in Nat
      BY DEF TypeOK
    <2>2. log' \in Seq(Events) /\ st' \in RunStates /\ st'.exists
      BY <1>21, <2>1, CommitType, DesiredEventType DEF SetDesiredState
    <2>. QED
      BY <1>21, <2>2 DEF SetDesiredState, TypeOK, history
  <1>22. CASE Expire
    BY <1>22, Zenon DEF Expire, TypeOK, store, history
  <1>23. ASSUME NEW act \in artifacts, LoseArtifact(act) PROVE TypeOK'
    BY <1>23 DEF LoseArtifact, TypeOK, store, history
  <1>24. CASE UNCHANGED vars
    BY <1>24 DEF vars, TypeOK
  <1>. QED
    BY <1>1, <1>2, <1>3, <1>4, <1>5, <1>6, <1>7, <1>8, <1>9, <1>10, <1>11, <1>12,
       <1>13, <1>14, <1>15, <1>17, <1>18, <1>19, <1>20, <1>21, <1>22, <1>23, <1>24
    DEF Next, WorkerStep

LEMMA TypeInit == Init => TypeOK
  <1>. SUFFICES ASSUME Init PROVE TypeOK
    OBVIOUS
  <1>1. RunCreatedEvent \in Events
    <2>1. <<NoAction, "run-created", 0>> \in ActionIds \X KeyTags \X Nat
      BY DEF NoAction, ActionIds, KeyTags
    <2>2. "RunCreated" \in EventTypes
      BY DEF EventTypes
    <2>. QED
      BY <2>1, <2>2, BlankEventType DEF RunCreatedEvent
  <1>2. st \in RunStates
    BY <1>1, ApplyEventType, InitialStateType DEF Init
  <1>3. st.exists
    <2>1. st = ApplyEvent(InitialState, RunCreatedEvent) /\ RunCreatedEvent.type = "RunCreated"
      BY DEF Init, RunCreatedEvent, Event
    <2>2. ~InitialState.exists
      BY DEF InitialState
    <2>3. st = ApplyRunCreated(InitialState)
      BY <2>1, <2>2 DEF ApplyEvent, LegacyLifecycleResultEvents, LeaseEvents
    <2>4. ApplyRunCreated(InitialState) = [InitialState EXCEPT !.exists = TRUE,
                                             !.desired = "Running", !.observed = "Queued"]
      BY <2>2 DEF ApplyRunCreated
    <2>. QED
      BY <2>3, <2>4 DEF InitialState
  <1>4. log \in Seq(Events)
    <2>1. log = <<RunCreatedEvent>>
      BY DEF Init
    <2>2. \A e \in Events : <<e>> \in Seq(Events)
      OBVIOUS
    <2>. QED
      BY <1>1, <2>1, <2>2
  <1>. QED
    BY <1>2, <1>3, <1>4, NoTaskType DEF Init, TypeOK, StopReasons

(* The types hold in every reachable state, whatever the constants.        *)
THEOREM TypeCorrect == Spec => []TypeOK
  <1>. QED
    BY TypeInit, TypeStep, PTL DEF Spec

-----------------------------------------------------------------------------
(* What is known of an event at the moment it is appended.                 *)

WorkerEvents == {"ActionPlanned", "ActionCompleted", "ActionFailed"}

KeyOf(e) ==
  CASE e.type = "ActionPlanned"   -> <<e.act, "action-planned", 0>>
    [] e.type = "ActionCompleted" -> <<e.act, "action-completed", 0>>
    [] e.type = "ActionFailed"    -> <<e.act, e.outcome, 0>>
    [] OTHER                      -> e.key

Appends(e) ==
  /\ e \in Events
  /\ log' = Append(log, e)
  /\ st' = ApplyEvent(st, e) /\ ApplyEvent(st, e).exists
  /\ \A i \in DOMAIN log : log[i].key # e.key
  /\ e.type = "DesiredStateChanged" => e.token = 0
  /\ e.type # "DesiredStateChanged" =>
       /\ e.type \in WorkerEvents
       /\ e.worker \in Workers /\ Authority(e.worker, e.token)
       /\ e.key = KeyOf(e)
  /\ e.type = "ActionCompleted" => ValidateActionReceipt(e)
  /\ UNCHANGED <<lease, receipts, executed>>

LEMMA CommitAppends ==
  ASSUME TypeOK, NEW e \in Events, NEW version \in Nat,
         Commit(e, AppendOutcome(e, version)),
         UNCHANGED <<lease, receipts, executed>>,
         \/ e.type = "DesiredStateChanged" /\ e.token = 0
         \/ e.type \in WorkerEvents /\ e.worker \in Workers /\ e.key = KeyOf(e)
  PROVE  UNCHANGED store \/ Appends(e)
  <1>1. CASE AppendOutcome(e, version) = "appended"
    <2>1. /\ e.type # "DesiredStateChanged" => Authority(e.worker, e.token)
          /\ {i \in DOMAIN log : log[i].key = e.key} = {}
          /\ e.type = "ActionCompleted" => ValidateActionReceipt(e)
          /\ ApplyEvent(st, e).exists
      BY <1>1 DEF AppendOutcome
    <2>2. log' = Append(log, e) /\ st' = ApplyEvent(st, e)
      BY <1>1 DEF Commit
    <2>. QED
      BY <2>1, <2>2 DEF Appends, WorkerEvents
  <1>2. CASE AppendOutcome(e, version) # "appended"
    BY <1>2 DEF Commit
  <1>. QED
    BY <1>1, <1>2

LEMMA WorkerEventShape ==
  ASSUME TypeOK, NEW w \in Workers
  PROVE  /\ PlannedEvent(w).type = "ActionPlanned"
         /\ PlannedEvent(w).worker = w /\ PlannedEvent(w).key = KeyOf(PlannedEvent(w))
         /\ CompletedEvent(w).type = "ActionCompleted"
         /\ CompletedEvent(w).worker = w /\ CompletedEvent(w).key = KeyOf(CompletedEvent(w))
         /\ FailedEvent(w).type = "ActionFailed"
         /\ FailedEvent(w).worker = w /\ FailedEvent(w).key = KeyOf(FailedEvent(w))
  BY DEF PlannedEvent, CompletedEvent, FailedEvent, Event, KeyOf

(* A step appends at most one event, and only one that may be appended:    *)
(* the one that the acting worker or the operator made.                    *)
StoreStep ==
  \/ UNCHANGED store
  \/ \E w \in Workers :
       \/ PlanAction(w) /\ Appends(PlannedEvent(w))
       \/ CompleteAction(w) /\ Appends(CompletedEvent(w))
       \/ FailAction(w) /\ Appends(FailedEvent(w))
  \/ \E d \in Intents : SetDesiredState(d) /\ Appends(DesiredEvent(d))

LEMMA StoreSteps ==
  ASSUME TypeOK, [Next]_vars
  PROVE  StoreStep
  <1>1. ASSUME NEW w \in Workers, PlanAction(w)
        PROVE  UNCHANGED store \/ Appends(PlannedEvent(w))
    BY <1>1, PlannedEventType, TaskType, WorkerEventShape, CommitAppends, ZenonT(60)
    DEF PlanAction, WorkerEvents, history
  <1>2. ASSUME NEW w \in Workers, CompleteAction(w)
        PROVE  UNCHANGED store \/ Appends(CompletedEvent(w))
    BY <1>2, CompletedEventType, TaskType, WorkerEventShape, CommitAppends, ZenonT(60)
    DEF CompleteAction, AppendResult, WorkerEvents, history
  <1>3. ASSUME NEW w \in Workers, FailAction(w)
        PROVE  UNCHANGED store \/ Appends(FailedEvent(w))
    BY <1>3, FailedEventType, TaskType, WorkerEventShape, CommitAppends, ZenonT(60)
    DEF FailAction, AppendResult, WorkerEvents, history
  <1>4. ASSUME NEW d \in Intents, SetDesiredState(d)
        PROVE  UNCHANGED store \/ Appends(DesiredEvent(d))
    <2>1. DesiredEvent(d).type = "DesiredStateChanged" /\ DesiredEvent(d).token = 0
      BY DEF DesiredEvent, Event
    <2>2. Len(log) \in Nat
      BY DEF TypeOK
    <2>. QED
      BY <1>4, <2>1, <2>2, DesiredEventType, CommitAppends DEF SetDesiredState, history
  <1>5. ASSUME NEW w \in Workers,
               \/ Register(w) \/ Acquire(w) \/ Validate(w) \/ Poll(w) \/ SessionLost(w)
               \/ DecideNoop(w) \/ DecideCommand(w)
               \/ RecoverPaused(w) \/ RecoverCancelled(w) \/ RecoverPending(w)
               \/ LookupReceipt(w) \/ ReloadPlanned(w)
               \/ Execute(w) \/ ExecuteFails(w) \/ RecordReceipt(w) \/ VerifyEvidence(w)
               \/ Finish(w) \/ RenewFails(w) \/ Crash(w)
        PROVE  UNCHANGED store
    BY <1>5, Zenon
    DEF Register, Acquire, Validate, Poll, SessionLost, DecideNoop, DecideCommand,
        RecoverPaused, RecoverCancelled, RecoverPending, LookupReceipt, ReloadPlanned,
        Execute, ExecuteFails, RecordReceipt, VerifyEvidence, Finish, RenewFails, Crash
  <1>6. ASSUME Expire \/ (\E act \in artifacts : LoseArtifact(act)) \/ UNCHANGED vars
        PROVE  UNCHANGED store
    BY <1>6 DEF Expire, LoseArtifact, vars, store
  <1>. QED
    BY <1>1, <1>2, <1>3, <1>4, <1>5, <1>6 DEF Next, WorkerStep, StoreStep

LEMMA LogStep ==
  ASSUME TypeOK, [Next]_vars
  PROVE  UNCHANGED store \/ \E e \in Events : Appends(e)
  BY StoreSteps DEF StoreStep, Appends

(* The lease row only moves forward: a new owner gets a new token.         *)
LEMMA LeaseStep ==
  ASSUME TypeOK, [Next]_vars
  PROVE  /\ lease.token \in Nat /\ lease'.token \in Nat
         /\ lease.token <= lease'.token
         /\ lease'.token = lease.token => lease'.worker = lease.worker
  <1>1. lease.token \in Nat /\ lease.worker \in Workers \cup {NoWorker}
    BY DEF TypeOK
  <1>2. ASSUME NEW w \in Workers, Acquire(w)
        PROVE  \/ lease' = lease
               \/ lease'.token = lease.token + 1
    BY <1>2 DEF Acquire
  <1>3. CASE Expire
    <2>1. lease' = [lease EXCEPT !.live = FALSE]
      BY <1>3 DEF Expire
    <2>. QED
      BY <1>1, <2>1 DEF TypeOK
  <1>4. ASSUME \/ \E w \in Workers :
                    \/ Register(w) \/ Validate(w) \/ Poll(w) \/ SessionLost(w)
                    \/ DecideNoop(w) \/ DecideCommand(w)
                    \/ RecoverPaused(w) \/ RecoverCancelled(w) \/ RecoverPending(w)
                    \/ LookupReceipt(w) \/ PlanAction(w) \/ ReloadPlanned(w)
                    \/ Execute(w) \/ ExecuteFails(w) \/ RecordReceipt(w)
                    \/ VerifyEvidence(w) \/ CompleteAction(w) \/ FailAction(w)
                    \/ Finish(w) \/ RenewFails(w) \/ Crash(w)
               \/ \E d \in Intents : SetDesiredState(d)
               \/ \E act \in artifacts : LoseArtifact(act)
               \/ UNCHANGED vars
        PROVE  lease' = lease
    BY <1>4, ZenonT(60)
    DEF Register, Validate, Poll, SessionLost, DecideNoop, DecideCommand, RecoverPaused,
        RecoverCancelled, RecoverPending, LookupReceipt, PlanAction, ReloadPlanned, Execute,
        ExecuteFails, RecordReceipt, VerifyEvidence, CompleteAction, FailAction, AppendResult,
        Finish, RenewFails, Crash, SetDesiredState, LoseArtifact, vars
  <1>5. CASE lease' = lease
    BY <1>1, <1>5
  <1>6. CASE lease'.token = lease.token + 1
    BY <1>1, <1>6
  <1>. QED
    BY <1>2, <1>3, <1>4, <1>5, <1>6 DEF Next, WorkerStep

(* A receipt is written only under a live lease, at most once per action,  *)
(* and never together with an event.                                       *)
NewReceipt(w) ==
  /\ RecordReceipt(w)
  /\ receipts' = receipts \cup {StoredReceipt(w)}
  /\ RecordOutcome(w) = "recorded" /\ ReceiptOf(task[w].made.act) = {}
  /\ UNCHANGED <<store, lease>>

LEMMA ReceiptStep ==
  ASSUME TypeOK, [Next]_vars
  PROVE  receipts' = receipts \/ \E w \in Workers : NewReceipt(w)
  <1>1. ASSUME NEW w \in Workers, RecordReceipt(w)
        PROVE  receipts' = receipts \/ NewReceipt(w)
    BY <1>1 DEF RecordReceipt, NewReceipt
  <1>2. ASSUME \/ \E w \in Workers :
                    \/ Register(w) \/ Acquire(w) \/ Validate(w) \/ Poll(w) \/ SessionLost(w)
                    \/ DecideNoop(w) \/ DecideCommand(w)
                    \/ RecoverPaused(w) \/ RecoverCancelled(w) \/ RecoverPending(w)
                    \/ LookupReceipt(w) \/ PlanAction(w) \/ ReloadPlanned(w)
                    \/ Execute(w) \/ ExecuteFails(w)
                    \/ VerifyEvidence(w) \/ CompleteAction(w) \/ FailAction(w)
                    \/ Finish(w) \/ RenewFails(w) \/ Crash(w)
               \/ \E d \in Intents : SetDesiredState(d)
               \/ Expire
               \/ \E act \in artifacts : LoseArtifact(act)
               \/ UNCHANGED vars
        PROVE  receipts' = receipts
    BY <1>2, ZenonT(60)
    DEF Register, Acquire, Validate, Poll, SessionLost, DecideNoop, DecideCommand,
        RecoverPaused, RecoverCancelled, RecoverPending, LookupReceipt, PlanAction,
        ReloadPlanned, Execute, ExecuteFails, VerifyEvidence, CompleteAction, FailAction,
        AppendResult, Finish, RenewFails, Crash, SetDesiredState, Expire, LoseArtifact, vars
  <1>. QED
    BY <1>1, <1>2 DEF Next, WorkerStep

-----------------------------------------------------------------------------
(* Fencing.                                                                *)

(* The current token belongs to the current owner, in every event.         *)
TokenOwner ==
  \A i \in DOMAIN log :
    log[i].token > 0 /\ log[i].token = lease.token => log[i].worker = lease.worker

FencedInv == TypeOK /\ FencedLog /\ TokenOwner

LEMMA AppendedLog ==
  ASSUME log \in Seq(Events), NEW e \in Events, log' = Append(log, e)
  PROVE  /\ DOMAIN log = 1 .. Len(log) /\ Len(log) \in Nat
         /\ DOMAIN log' = 1 .. Len(log) + 1
         /\ \A i \in DOMAIN log : i \in DOMAIN log' /\ log'[i] = log[i] /\ log[i] \in Events
         /\ log'[Len(log) + 1] = e
         /\ \A i \in DOMAIN log' : i \in DOMAIN log \/ i = Len(log) + 1
  OBVIOUS

LEMMA FencedStep == FencedInv /\ [Next]_vars => FencedInv'
  <1>. SUFFICES ASSUME FencedInv, [Next]_vars PROVE FencedLog' /\ TokenOwner'
    BY TypeStep DEF FencedInv
  <1>. USE DEF FencedInv
  <1>1. /\ lease.token \in Nat /\ lease'.token \in Nat /\ lease.token <= lease'.token
        /\ lease'.token = lease.token => lease'.worker = lease.worker
    BY LeaseStep
  <1>2. log \in Seq(Events) /\ receipts \subseteq Receipts
    BY DEF TypeOK
  <1>3. \A i \in DOMAIN log : log[i].token \in Nat
    <2>1. \A i \in DOMAIN log : log[i] \in Events
      BY <1>2
    <2>2. \A e \in Events : e.token \in Nat
      BY DEF Events
    <2>. QED
      BY <2>1, <2>2
  <1>4. \A r \in receipts : r.token \in Nat
    BY <1>2 DEF Receipts
  <1>5. \A r \in receipts' : r.token <= lease'.token
    <2>1. CASE receipts' = receipts
      BY <1>1, <1>4, <2>1 DEF FencedLog
    <2>2. ASSUME NEW w \in Workers, NewReceipt(w)
          PROVE  \A r \in receipts' : r.token <= lease'.token
      <3>1. held[w] = lease.token
        BY <2>2 DEF NewReceipt, RecordOutcome, Authority
      <3>2. StoredReceipt(w).token = held[w]
        BY DEF StoredReceipt
      <3>. QED
        BY <1>1, <1>4, <2>2, <3>1, <3>2 DEF NewReceipt, FencedLog
    <2>. QED
      BY <2>1, <2>2, ReceiptStep
  <1>6. CASE UNCHANGED store
    <2>1. log' = log
      BY <1>6 DEF store
    <2>2. \A i \in DOMAIN log : log[i].token <= lease'.token
      BY <1>1, <1>3 DEF FencedLog
    <2>3. FencedLog'
      BY <1>5, <2>1, <2>2 DEF FencedLog
    <2>4. TokenOwner'
      BY <1>1, <1>3, <2>1 DEF FencedLog, TokenOwner
    <2>. QED
      BY <2>3, <2>4
  <1>7. ASSUME NEW e \in Events, Appends(e) PROVE FencedLog' /\ TokenOwner'
    <2>1. e.token = 0 \/ (e.token = lease.token /\ e.worker = lease.worker)
      BY <1>7 DEF Appends, Authority
    <2>2. log' = Append(log, e) /\ lease' = lease
      BY <1>7 DEF Appends
    <2>3. /\ \A i \in DOMAIN log : log'[i] = log[i]
          /\ log'[Len(log) + 1] = e /\ Len(log) \in Nat
          /\ DOMAIN log = 1 .. Len(log)
          /\ \A i \in DOMAIN log' : i \in DOMAIN log \/ i = Len(log) + 1
      BY <1>2, <2>2, AppendedLog
    <2>4. \A i \in DOMAIN log' : log'[i].token <= lease'.token
      BY <1>1, <1>3, <2>1, <2>2, <2>3 DEF FencedLog
    <2>5. TokenOwner'
      BY <2>1, <2>2, <2>3 DEF TokenOwner
    <2>6. \A i, j \in DOMAIN log' :
            i < j /\ log'[i].token > 0 /\ log'[j].token > 0 =>
              /\ log'[i].token <= log'[j].token
              /\ log'[i].token = log'[j].token => log'[i].worker = log'[j].worker
      <3>. SUFFICES ASSUME NEW i \in DOMAIN log', NEW j \in DOMAIN log',
                           i < j, log'[i].token > 0, log'[j].token > 0
                    PROVE  /\ log'[i].token <= log'[j].token
                           /\ log'[i].token = log'[j].token => log'[i].worker = log'[j].worker
        OBVIOUS
      <3>1. i \in DOMAIN log
        BY <2>3
      <3>2. CASE j \in DOMAIN log
        BY <2>3, <3>1, <3>2 DEF FencedLog
      <3>3. CASE j = Len(log) + 1
        <4>1. e.token = lease.token /\ e.worker = lease.worker
          BY <2>1, <2>3, <3>3
        <4>. QED
          BY <2>3, <3>1, <3>3, <4>1 DEF FencedLog, TokenOwner
      <3>. QED
        BY <2>3, <3>2, <3>3
    <2>. QED
      BY <1>5, <2>4, <2>5, <2>6 DEF FencedLog
  <1>. QED
    BY <1>6, <1>7, LogStep

(* Fencing holds for any number of workers, crashes and stalls: the event  *)
(* log reads as if one worker at a time had written it.                    *)
THEOREM Fencing == Spec => []FencedLog
  <1>1. Init => FencedInv
    <2>. SUFFICES ASSUME Init PROVE FencedLog /\ TokenOwner
      BY TypeInit DEF FencedInv
    <2>1. log = <<RunCreatedEvent>> /\ RunCreatedEvent.token = 0 /\ receipts = {}
          /\ lease.token = 0
      BY DEF Init, RunCreatedEvent, Event
    <2>2. DOMAIN log = {1} /\ log[1] = RunCreatedEvent
      BY <2>1
    <2>. QED
      BY <2>1, <2>2 DEF FencedLog, TokenOwner
  <1>2. FencedInv => FencedLog
    BY DEF FencedInv
  <1>. QED
    BY <1>1, <1>2, FencedStep, PTL DEF Spec

-----------------------------------------------------------------------------
(* Plans and results.                                                      *)

(* The reducer applies an event that it accepts by the event's type.       *)
LEMMA Dispatch ==
  ASSUME NEW s \in RunStates, NEW e \in Events, ApplyEvent(s, e).exists
  PROVE  /\ s.exists => ~Terminal(s.observed)
         /\ e.type = "ActionPlanned" => ApplyEvent(s, e) = ApplyActionPlanned(s, e)
         /\ e.type = "ActionCompleted" => ApplyEvent(s, e) = ApplyActionCompleted(s, e)
         /\ e.type = "ActionFailed" => ApplyEvent(s, e) = ApplyActionFailed(s, e)
         /\ e.type = "DesiredStateChanged" =>
              ApplyEvent(s, e) = ApplyDesiredState(s, e.desired)
  <1>1. ~Rejected.exists
    BY DEF Rejected, InitialState
  <1>. QED
    BY <1>1 DEF ApplyEvent, LegacyLifecycleResultEvents, LeaseEvents

(* What the reducer does to the pending action: a plan opens it, a result  *)
(* closes exactly it, an intent leaves it alone.                           *)
LEMMA PendingEffect ==
  ASSUME NEW s \in RunStates, NEW e \in Events, ApplyEvent(s, e).exists
  PROVE  /\ e.type = "ActionPlanned" =>
              s.pend = NoAction /\ e.act # NoAction /\ ApplyEvent(s, e).pend = e.act
         /\ e.type \in {"ActionCompleted", "ActionFailed"} =>
              s.pend = e.act /\ e.act # NoAction /\ ApplyEvent(s, e).pend = NoAction
         /\ e.type = "DesiredStateChanged" => ApplyEvent(s, e).pend = s.pend
  <1>1. ~Rejected.exists
    BY DEF Rejected, InitialState
  <1>2. ASSUME e.type = "ActionPlanned"
        PROVE  s.pend = NoAction /\ e.act # NoAction /\ ApplyEvent(s, e).pend = e.act
    <2>1. ApplyEvent(s, e) = ApplyActionPlanned(s, e)
      BY <1>2, Dispatch
    <2>. QED
      BY <1>1, <2>1 DEF ApplyActionPlanned, RunStates
  <1>3. ASSUME e.type = "ActionCompleted"
        PROVE  s.pend = e.act /\ e.act # NoAction /\ ApplyEvent(s, e).pend = NoAction
    <2>1. ApplyEvent(s, e) = ApplyActionCompleted(s, e)
      BY <1>3, Dispatch
    <2>2. \A r \in RunStates : [ClearPending(r) EXCEPT !.done = e.act].pend = NoAction
      BY DEF ClearPending, RunStates
    <2>3. ApplyCompletedActionResult(s, e) \in RunStates
      BY CompletedResultType
    <2>. QED
      BY <1>1, <2>1, <2>2, <2>3 DEF ApplyActionCompleted, RequireManagedPendingAction
  <1>4. ASSUME e.type = "ActionFailed"
        PROVE  s.pend = e.act /\ e.act # NoAction /\ ApplyEvent(s, e).pend = NoAction
    <2>. DEFINE cleared == [ClearPending(s) EXCEPT !.failure = e.reason]
    <2>1. ApplyEvent(s, e) = ApplyActionFailed(s, e)
      BY <1>4, Dispatch
    <2>2. cleared.pend = NoAction
      BY DEF ClearPending, RunStates
    <2>3. cleared \in RunStates
      <3>1. \A r \in RunStates : \A f \in Faults : [r EXCEPT !.failure = f] \in RunStates
        BY DEF RunStates
      <3>2. e.reason \in Faults
        BY DEF Events
      <3>. QED
        BY <3>1, <3>2, ClearPendingType
    <2>. HIDE DEF cleared
    <2>4. AdvanceManagedState(cleared, "WaitingApproval").exists =>
            AdvanceManagedState(cleared, "WaitingApproval").pend = NoAction
      BY <1>1, <2>2, <2>3 DEF AdvanceManagedState, Transition, RunStates
    <2>. QED
      BY <1>1, <2>1, <2>2, <2>4 DEF ApplyActionFailed, RequireManagedPendingAction, cleared
  <1>5. ASSUME e.type = "DesiredStateChanged" PROVE ApplyEvent(s, e).pend = s.pend
    <2>1. ApplyEvent(s, e) = ApplyDesiredState(s, e.desired)
      BY <1>5, Dispatch
    <2>2. /\ PauseIntent(s).exists => PauseIntent(s).pend = s.pend
          /\ ResumeIntent(s).exists => ResumeIntent(s).pend = s.pend
          /\ CancelIntent(s).exists => CancelIntent(s).pend = s.pend
      BY <1>1 DEF PauseIntent, ResumeIntent, CancelIntent, RunStates
    <2>. QED
      BY <1>1, <2>1, <2>2 DEF ApplyDesiredState
  <1>. QED
    BY <1>2, <1>3, <1>4, <1>5

Planned(act) ==
  \E i \in DOMAIN log : log[i].type = "ActionPlanned" /\ log[i].act = act

(* Keys name what they protect and are unique, so an action is planned     *)
(* once; the pending action is a plan without a result.                    *)
PlansKeyed ==
  \A i \in DOMAIN log : log[i].type = "ActionPlanned" =>
    log[i].act # NoAction /\ log[i].key = <<log[i].act, "action-planned", 0>>

PendingIsOpen == st.pend # NoAction => Planned(st.pend) /\ ~Resolved(st.pend)

PlanInv ==
  /\ TypeOK /\ PlansKeyed
  /\ PendingIsOpen /\ OpenPlanIsPending /\ OneResultPerPlan

(* Unique keys: what is planned now was not planned, let alone resolved.   *)
LEMMA FreshPlan ==
  ASSUME PlanInv, NEW e \in Events, Appends(e), e.type = "ActionPlanned"
  PROVE  ~Planned(e.act) /\ ~Resolved(e.act)
  <1>1. e.key = <<e.act, "action-planned", 0>> /\ log \in Seq(Events)
    BY DEF Appends, KeyOf, PlanInv, TypeOK
  <1>2. ~Planned(e.act)
    BY <1>1 DEF Planned, PlanInv, PlansKeyed, Appends
  <1>3. DOMAIN log = 1 .. Len(log) /\ Len(log) \in Nat
    BY <1>1
  <1>4. ASSUME NEW j \in DOMAIN log, IsResult(log[j]) PROVE Planned(log[j].act)
    BY <1>3, <1>4 DEF PlanInv, OneResultPerPlan, Planned
  <1>. QED
    BY <1>2, <1>4 DEF Resolved, IsResult

LEMMA PlanStep == PlanInv /\ [Next]_vars => PlanInv'
  <1>. SUFFICES ASSUME PlanInv, [Next]_vars
                PROVE  PlansKeyed' /\ PendingIsOpen' /\ OpenPlanIsPending' /\ OneResultPerPlan'
    BY TypeStep DEF PlanInv
  <1>. USE DEF PlanInv
  <1>1. CASE UNCHANGED store
    BY <1>1 DEF store, PlansKeyed, PendingIsOpen, OpenPlanIsPending, OneResultPerPlan,
                Planned, Resolved
  <1>2. ASSUME NEW e \in Events, Appends(e)
        PROVE  PlansKeyed' /\ PendingIsOpen' /\ OpenPlanIsPending' /\ OneResultPerPlan'
    <2>1. log \in Seq(Events) /\ st \in RunStates
      BY DEF TypeOK
    <2>2. /\ Len(log) \in Nat /\ DOMAIN log = 1 .. Len(log)
          /\ DOMAIN log' = 1 .. Len(log) + 1
          /\ \A i \in DOMAIN log : i \in DOMAIN log' /\ log'[i] = log[i]
          /\ log'[Len(log) + 1] = e /\ Len(log) + 1 \in DOMAIN log'
          /\ \A i \in DOMAIN log' : i \in DOMAIN log \/ i = Len(log) + 1
      BY <1>2, <2>1, AppendedLog DEF Appends
    <2>3. e.type \in WorkerEvents \cup {"DesiredStateChanged"}
      BY <1>2 DEF Appends
    <2>4. /\ e.type = "ActionPlanned" =>
               st.pend = NoAction /\ e.act # NoAction /\ st'.pend = e.act
          /\ IsResult(e) => st.pend = e.act /\ e.act # NoAction /\ st'.pend = NoAction
          /\ e.type = "DesiredStateChanged" => st'.pend = st.pend
      BY <1>2, <2>1, PendingEffect DEF Appends, IsResult
    <2>5. e.type = "ActionPlanned" => e.key = <<e.act, "action-planned", 0>>
      BY <1>2 DEF Appends, KeyOf
    <2>6. PlansKeyed'
      BY <2>2, <2>4, <2>5 DEF PlansKeyed
    <2>7. e.type = "ActionPlanned" => ~Planned(e.act) /\ ~Resolved(e.act)
      BY <1>2, FreshPlan
    <2>8. /\ \A act : Planned(act)' <=> Planned(act) \/ (e.type = "ActionPlanned" /\ e.act = act)
          /\ \A act : Resolved(act)' <=> Resolved(act) \/ (IsResult(e) /\ e.act = act)
      BY <2>2 DEF Planned, Resolved, IsResult
    <2>9. CASE e.type = "ActionPlanned"
      <3>1. ~IsResult(e) /\ ~Resolved(e.act)'
        BY <2>7, <2>8, <2>9 DEF IsResult
      <3>2. PendingIsOpen'
        BY <2>4, <2>8, <2>9, <3>1 DEF PendingIsOpen
      <3>3. OpenPlanIsPending'
        BY <2>2, <2>4, <2>8, <2>9 DEF OpenPlanIsPending, PlansKeyed
      <3>4. OneResultPerPlan'
        BY <2>2, <3>1 DEF OneResultPerPlan, IsResult
      <3>. QED
        BY <2>6, <3>2, <3>3, <3>4
    <2>10. CASE IsResult(e)
      <3>1. Planned(e.act) /\ ~Resolved(e.act) /\ e.type # "ActionPlanned"
        BY <2>4, <2>10 DEF PendingIsOpen, IsResult
      <3>2. PendingIsOpen'
        BY <2>4, <2>10 DEF PendingIsOpen
      <3>3. OpenPlanIsPending'
        BY <2>2, <2>4, <2>8, <2>10, <3>1 DEF OpenPlanIsPending
      <3>4. \A j \in DOMAIN log : IsResult(log[j]) => log[j].act # e.act
        BY <3>1 DEF Resolved, IsResult
      <3>5. OneResultPerPlan'
        BY <2>2, <3>1, <3>4 DEF OneResultPerPlan, IsResult, Planned
      <3>. QED
        BY <2>6, <3>2, <3>3, <3>5
    <2>11. CASE e.type = "DesiredStateChanged"
      <3>1. ~IsResult(e) /\ e.type # "ActionPlanned"
        BY <2>11 DEF IsResult
      <3>2. PendingIsOpen'
        BY <2>4, <2>8, <2>11, <3>1 DEF PendingIsOpen
      <3>3. OpenPlanIsPending'
        BY <2>2, <2>4, <2>8, <2>11, <3>1 DEF OpenPlanIsPending
      <3>4. OneResultPerPlan'
        BY <2>2, <3>1 DEF OneResultPerPlan, IsResult
      <3>. QED
        BY <2>6, <3>2, <3>3, <3>4
    <2>. QED
      BY <2>3, <2>9, <2>10, <2>11 DEF WorkerEvents, IsResult
  <1>. QED
    BY <1>1, <1>2, LogStep

LEMMA PlanInit == Init => PlanInv
  <1>. SUFFICES ASSUME Init PROVE PlanInv
    OBVIOUS
  <1>1. DOMAIN log = {1} /\ log[1].type = "RunCreated"
    <2>1. log = <<RunCreatedEvent>> /\ RunCreatedEvent.type = "RunCreated"
      BY DEF Init, RunCreatedEvent, Event
    <2>. QED
      BY <2>1
  <1>2. st.pend = NoAction
    <2>1. RunCreatedEvent.type = "RunCreated" /\ ~InitialState.exists
      BY DEF RunCreatedEvent, Event, InitialState
    <2>2. st = ApplyRunCreated(InitialState)
      BY <2>1 DEF Init, ApplyEvent, LegacyLifecycleResultEvents, LeaseEvents
    <2>. QED
      BY <2>1, <2>2 DEF ApplyRunCreated, InitialState
  <1>. QED
    BY <1>1, <1>2, TypeInit
    DEF PlanInv, PlansKeyed, PendingIsOpen, OpenPlanIsPending, OneResultPerPlan, IsResult

(* Every planned action gets at most one result, whichever workers planned *)
(* it, executed it, recovered it or failed it.                             *)
THEOREM OneResult == Spec => []OneResultPerPlan
  <1>1. PlanInv => OneResultPerPlan
    BY DEF PlanInv
  <1>. QED
    BY <1>1, PlanInit, PlanStep, PTL DEF Spec

(* No takeover misses an open plan: it is the pending action of the state  *)
(* that recovery loads.                                                    *)
THEOREM NoPlanLeftBehind == Spec => []OpenPlanIsPending
  <1>1. PlanInv => OpenPlanIsPending
    BY DEF PlanInv
  <1>. QED
    BY <1>1, PlanInit, PlanStep, PTL DEF Spec

-----------------------------------------------------------------------------
(* Receipts.                                                               *)

(* A receipt was written after its plan, by the same or a later session.   *)
ReceiptAfterPlan ==
  \A r \in receipts : \E i \in DOMAIN log :
    log[i].type = "ActionPlanned" /\ log[i].act = r.act /\ log[i].token <= r.token

ReceiptInv == FencedInv /\ CompletionHasReceipt /\ ReceiptAfterPlan

LEMMA ReceiptInvStep == ReceiptInv /\ [Next]_vars => ReceiptInv'
  <1>. SUFFICES ASSUME ReceiptInv, [Next]_vars
                PROVE  CompletionHasReceipt' /\ ReceiptAfterPlan'
    BY FencedStep DEF ReceiptInv
  <1>. USE DEF ReceiptInv
  <1>1. TypeOK /\ FencedLog
    BY DEF FencedInv
  <1>2. log \in Seq(Events) /\ receipts \subseteq Receipts
    BY <1>1 DEF TypeOK
  <1>3. ASSUME UNCHANGED store, receipts' = receipts
        PROVE  CompletionHasReceipt' /\ ReceiptAfterPlan'
    BY <1>3 DEF store, CompletionHasReceipt, ReceiptAfterPlan
  <1>4. ASSUME NEW w \in Workers, NewReceipt(w)
        PROVE  CompletionHasReceipt' /\ ReceiptAfterPlan'
    <2>. DEFINE new == StoredReceipt(w)
    <2>1. /\ new.act = task[w].made.act /\ new.token = held[w]
          /\ receipts' = receipts \cup {new} /\ log' = log
      BY <1>4 DEF StoredReceipt, NewReceipt, store
    <2>2. \A r \in receipts : r.act # new.act
      BY <1>4, <2>1 DEF NewReceipt, ReceiptOf
    <2>3. held[w] = lease.token /\ PlansOf(task[w].made) # {}
      BY <1>4 DEF NewReceipt, RecordOutcome, Authority
    <2>4. \E i \in DOMAIN log :
            log[i].type = "ActionPlanned" /\ log[i].act = new.act /\ log[i].token <= new.token
      BY <1>1, <2>1, <2>3 DEF PlansOf, FencedLog
    <2>. HIDE DEF new
    <2>5. ReceiptAfterPlan'
      BY <2>1, <2>4 DEF ReceiptAfterPlan
    <2>6. \A r1, r2 \in receipts' : r1.act = r2.act => r1 = r2
      BY <2>1, <2>2 DEF CompletionHasReceipt
    <2>7. CompletionHasReceipt'
      BY <2>1, <2>6 DEF CompletionHasReceipt
    <2>. QED
      BY <2>5, <2>7
  <1>5. ASSUME NEW e \in Events, Appends(e)
        PROVE  CompletionHasReceipt' /\ ReceiptAfterPlan'
    <2>1. /\ Len(log) \in Nat /\ DOMAIN log = 1 .. Len(log)
          /\ \A i \in DOMAIN log : i \in DOMAIN log' /\ log'[i] = log[i]
          /\ log'[Len(log) + 1] = e /\ Len(log) + 1 \in DOMAIN log'
          /\ \A i \in DOMAIN log' : i \in DOMAIN log \/ i = Len(log) + 1
      BY <1>2, <1>5, AppendedLog DEF Appends
    <2>2. receipts' = receipts
      BY <1>5 DEF Appends
    <2>3. ReceiptAfterPlan'
      BY <2>1, <2>2 DEF ReceiptAfterPlan
    <2>. DEFINE Backed(j) ==
           \E r \in receipts :
             /\ r.act = log'[j].act /\ r.scope = log'[j].scope /\ r.aid = log'[j].aid
             /\ r.tool = log'[j].tool /\ r.reason = log'[j].reason
             /\ r.token <= log'[j].token
             /\ \E i \in 1 .. j - 1 : /\ log'[i].type = "ActionPlanned"
                                      /\ log'[i].act = r.act /\ log'[i].token <= r.token
    <2>4. ASSUME NEW j \in DOMAIN log, log[j].type = "ActionCompleted" PROVE Backed(j)
      <3>1. log'[j] = log[j] /\ j \in 1 .. Len(log)
        BY <2>1
      <3>2. \A i \in 1 .. j - 1 : log'[i] = log[i]
        BY <2>1, <3>1
      <3>3. PICK r \in receipts :
              /\ r.act = log[j].act /\ r.scope = log[j].scope /\ r.aid = log[j].aid
              /\ r.tool = log[j].tool /\ r.reason = log[j].reason
              /\ r.token <= log[j].token
              /\ \E i \in 1 .. j - 1 : /\ log[i].type = "ActionPlanned"
                                       /\ log[i].act = r.act /\ log[i].token <= r.token
        BY <2>4 DEF CompletionHasReceipt
      <3>4. PICK i \in 1 .. j - 1 : /\ log'[i].type = "ActionPlanned"
                                    /\ log'[i].act = r.act /\ log'[i].token <= r.token
        BY <3>2, <3>3
      <3>. QED
        BY <3>1, <3>3, <3>4
    <2>5. ASSUME e.type = "ActionCompleted" PROVE Backed(Len(log) + 1)
      <3>1. PICK r \in receipts : /\ r.act = e.act /\ r.scope = e.scope /\ r.aid = e.aid
                                  /\ r.tool = e.tool /\ r.reason = e.reason
        BY <1>5, <2>5 DEF Appends, ValidateActionReceipt
      <3>2. e.token = lease.token /\ r.token <= lease.token
        BY <1>1, <1>5, <2>5 DEF Appends, Authority, FencedLog
      <3>3. PICK i \in DOMAIN log :
              log[i].type = "ActionPlanned" /\ log[i].act = r.act /\ log[i].token <= r.token
        BY DEF ReceiptAfterPlan
      <3>4. i \in 1 .. (Len(log) + 1) - 1 /\ log'[i] = log[i]
        BY <2>1
      <3>. QED
        BY <2>1, <3>1, <3>2, <3>3, <3>4
    <2>6. \A j \in DOMAIN log' : log'[j].type = "ActionCompleted" => Backed(j)
      <3>. HIDE DEF Backed
      <3>. QED
        BY <2>1, <2>4, <2>5
    <2>7. CompletionHasReceipt'
      BY <2>2, <2>6 DEF CompletionHasReceipt
    <2>. QED
      BY <2>3, <2>7
  <1>. QED
    BY <1>1, <1>3, <1>4, <1>5, LogStep, ReceiptStep DEF NewReceipt, Appends

(* Every completion in the log, also one written by recovery long after    *)
(* the worker that did the work died, repeats the one durable receipt of   *)
(* its action.                                                             *)
THEOREM CompletionBacked == Spec => []CompletionHasReceipt
  <1>1. Init => ReceiptInv
    <2>. SUFFICES ASSUME Init PROVE ReceiptInv
      OBVIOUS
    <2>1. log = <<RunCreatedEvent>> /\ RunCreatedEvent.token = 0 /\ receipts = {}
          /\ RunCreatedEvent.type = "RunCreated" /\ lease.token = 0
      BY DEF Init, RunCreatedEvent, Event
    <2>2. DOMAIN log = {1} /\ log[1] = RunCreatedEvent
      BY <2>1
    <2>. QED
      BY <2>1, <2>2, TypeInit
      DEF ReceiptInv, FencedInv, FencedLog, TokenOwner, CompletionHasReceipt, ReceiptAfterPlan
  <1>2. ReceiptInv => CompletionHasReceipt
    BY DEF ReceiptInv
  <1>. QED
    BY <1>1, <1>2, ReceiptInvStep, PTL DEF Spec

-----------------------------------------------------------------------------
(* Intent before effect.                                                   *)

(* A worker about to execute has seen its plan in the log.                 *)
ExecutesPlanned ==
  \A w \in Workers : pc[w] \in {"reload", "lookup", "exec"} => Planned(task[w].cmd.act)

ExecutionInv == PlanInv /\ ExecutedWasPlanned /\ ExecutesPlanned

LEMMA PlannedStays ==
  ASSUME TypeOK, [Next]_vars, NEW act, Planned(act)
  PROVE  Planned(act)'
  <1>1. CASE UNCHANGED store
    BY <1>1 DEF store, Planned
  <1>2. ASSUME NEW e \in Events, Appends(e) PROVE Planned(act)'
    <2>1. \A i \in DOMAIN log : i \in DOMAIN log' /\ log'[i] = log[i]
      BY <1>2, AppendedLog DEF Appends, TypeOK
    <2>. QED
      BY <2>1 DEF Planned
  <1>. QED
    BY <1>1, <1>2, LogStep

LEMMA ExecutionStep == ExecutionInv /\ [Next]_vars => ExecutionInv'
  <1>. SUFFICES ASSUME ExecutionInv, [Next]_vars
                PROVE  ExecutedWasPlanned' /\ ExecutesPlanned'
    BY PlanStep DEF ExecutionInv
  <1>. USE DEF ExecutionInv
  <1>1. TypeOK /\ pc \in [Workers -> InSession \cup Stopped \cup {"off", "acquire"}]
               /\ task \in [Workers -> Tasks]
    BY DEF PlanInv, TypeOK
  <1>2. \A act : Planned(act) => Planned(act)'
    BY <1>1, PlannedStays
  <1>3. ASSUME NEW w \in Workers, Execute(w) \/ ExecuteFails(w)
        PROVE  executed' = executed \cup {task[w].cmd.act} /\ Planned(task[w].cmd.act)
    BY <1>3 DEF Execute, ExecuteFails, Ran, ExecutesPlanned
  <1>4. ASSUME \/ \E w \in Workers :
                    \/ Register(w) \/ Acquire(w) \/ Validate(w) \/ Poll(w) \/ SessionLost(w)
                    \/ DecideNoop(w) \/ DecideCommand(w)
                    \/ RecoverPaused(w) \/ RecoverCancelled(w) \/ RecoverPending(w)
                    \/ LookupReceipt(w) \/ PlanAction(w) \/ ReloadPlanned(w)
                    \/ RecordReceipt(w) \/ VerifyEvidence(w)
                    \/ CompleteAction(w) \/ FailAction(w)
                    \/ Finish(w) \/ RenewFails(w) \/ Crash(w)
               \/ \E d \in Intents : SetDesiredState(d)
               \/ Expire
               \/ \E act \in artifacts : LoseArtifact(act)
               \/ UNCHANGED vars
        PROVE  executed' = executed
    BY <1>4, ZenonT(60)
    DEF Register, Acquire, Validate, Poll, SessionLost, DecideNoop, DecideCommand,
        RecoverPaused, RecoverCancelled, RecoverPending, LookupReceipt, PlanAction,
        ReloadPlanned, RecordReceipt, VerifyEvidence, CompleteAction, FailAction,
        AppendResult, Finish, RenewFails, Crash, SetDesiredState, Expire, LoseArtifact,
        vars, history
  <1>5. ExecutedWasPlanned'
    <2>1. \A act \in executed' : Planned(act)
      BY <1>3, <1>4 DEF Next, WorkerStep, ExecutedWasPlanned, Planned
    <2>. QED
      BY <1>2, <2>1 DEF ExecutedWasPlanned, Planned
  <1>. DEFINE Ready(v) == pc[v] \in {"reload", "lookup", "exec"}
              Kept(v) == ~Ready(v)' \/ (Ready(v) /\ task'[v].cmd = task[v].cmd)
              Others(w) == \A v \in Workers \ {w} : pc'[v] = pc[v] /\ task'[v] = task[v]
  <1>6. ASSUME NEW w \in Workers,
               \/ Register(w) \/ Acquire(w) \/ Validate(w) \/ Poll(w) \/ SessionLost(w)
               \/ DecideNoop(w) \/ RecoverPaused(w) \/ Finish(w) \/ Crash(w)
        PROVE  Others(w) /\ Kept(w)
    BY <1>1, <1>6
    DEF Register, Acquire, Validate, Poll, SessionLost, DecideNoop, RecoverPaused, Finish,
        Crash, Goto, Leave, Exit, AfterNoop
  <1>7. ASSUME NEW w \in Workers, DecideCommand(w) \/ RecoverCancelled(w)
        PROVE  Others(w) /\ Kept(w)
    BY <1>1, <1>7 DEF DecideCommand, RecoverCancelled, Begin, Goto
  <1>8. ASSUME NEW w \in Workers, RenewFails(w)
        PROVE  Others(w) /\ Kept(w)
    BY <1>1, <1>8 DEF RenewFails
  <1>9. ASSUME NEW w \in Workers, LookupReceipt(w)
        PROVE  Others(w) /\ Kept(w)
    BY <1>1, <1>9 DEF LookupReceipt, At, Goto, Tasks
  <1>10. ASSUME NEW w \in Workers, ReloadPlanned(w)
         PROVE  Others(w) /\ Kept(w)
    BY <1>1, <1>10 DEF ReloadPlanned, At, Goto, Tasks
  <1>11. ASSUME NEW w \in Workers,
                Execute(w) \/ ExecuteFails(w) \/ RecordReceipt(w) \/ VerifyEvidence(w)
         PROVE  Others(w) /\ Kept(w)
    BY <1>1, <1>11
    DEF Execute, ExecuteFails, RecordReceipt, VerifyEvidence, At, Goto, Leave, Exit
  <1>12. ASSUME NEW w \in Workers, CompleteAction(w) \/ FailAction(w)
         PROVE  Others(w) /\ Kept(w)
    BY <1>1, <1>12 DEF CompleteAction, FailAction, AppendResult, At, Goto, Leave, Exit
  <1>13. ASSUME NEW w \in Workers, RecoverPending(w)
         PROVE  Others(w) /\ Planned(task[w].cmd.act)'
    <2>1. task'[w].cmd.act = st.pend /\ st.pend # NoAction
      <3>. DEFINE new == [NoTask EXCEPT !.view = st, !.ver = Len(log),
                                        !.cmd = PendingCommand(st), !.fault = ""]
      <3>1. task'[w] = new /\ st.pend # NoAction
        BY <1>1, <1>13 DEF RecoverPending, Begin
      <3>2. new.cmd = PendingCommand(st)
        BY DEF NoTask
      <3>. QED
        BY <3>1, <3>2 DEF PendingCommand
    <2>2. Planned(st.pend) /\ UNCHANGED store
      BY <1>13, <2>1 DEF PlanInv, PendingIsOpen, RecoverPending
    <2>3. Planned(task[w].cmd.act)'
      BY <2>1, <2>2 DEF Planned, store
    <2>4. Others(w)
      BY <1>1, <1>13 DEF RecoverPending, Begin, Goto
    <2>. QED
      BY <2>3, <2>4
  <1>14. ASSUME NEW w \in Workers, PlanAction(w)
         PROVE  Others(w) /\ (Kept(w) \/ Planned(task[w].cmd.act)')
    <2>. DEFINE e == PlannedEvent(w)
                outcome == AppendOutcome(e, task[w].ver)
    <2>1. e \in Events /\ e.type = "ActionPlanned" /\ e.act = task[w].cmd.act
      BY <1>1, PlannedEventType, Zenon DEF PlannedEvent, Event
    <2>2. Others(w)
      BY <1>1, <1>14 DEF PlanAction, Leave, Exit, Goto
    <2>3. CASE outcome = "appended"
      <3>1. log' = Append(log, e)
        BY <1>14, <2>3 DEF PlanAction, Commit
      <3>2. log'[Len(log) + 1] = e /\ Len(log) + 1 \in DOMAIN log'
        BY <1>1, <2>1, <3>1, AppendedLog DEF TypeOK
      <3>3. task'[w].cmd = task[w].cmd
        BY <1>1, <1>14, <2>3 DEF PlanAction, Tasks
      <3>4. Planned(task[w].cmd.act)'
        BY <2>1, <3>2, <3>3 DEF Planned
      <3>. QED
        BY <2>2, <3>4
    <2>4. CASE outcome = "replayed"
      <3>1. \E i \in DOMAIN log : log[i] = e
        BY <2>4 DEF AppendOutcome
      <3>2. log' = log
        BY <1>14, <2>4 DEF PlanAction, Commit, store
      <3>3. task'[w].cmd = task[w].cmd
        BY <1>1, <1>14, <2>4 DEF PlanAction, Tasks
      <3>4. Planned(task[w].cmd.act)'
        BY <2>1, <3>1, <3>2, <3>3 DEF Planned
      <3>. QED
        BY <2>2, <3>4
    <2>5. CASE outcome \notin {"appended", "replayed"}
      BY <1>1, <1>14, <2>5 DEF PlanAction, Leave, Exit, Goto, AfterNoop
    <2>. QED
      BY <2>3, <2>4, <2>5
  <1>15. ASSUME \/ \E d \in Intents : SetDesiredState(d)
                \/ Expire
                \/ \E act \in artifacts : LoseArtifact(act)
                \/ UNCHANGED vars
         PROVE  pc' = pc /\ task' = task
    BY <1>15 DEF SetDesiredState, Expire, LoseArtifact, vars
  <1>16. ASSUME NEW w \in Workers, Others(w),
                Kept(w) \/ Planned(task[w].cmd.act)'
         PROVE  ExecutesPlanned'
    BY <1>2, <1>16 DEF ExecutesPlanned
  <1>17. ASSUME pc' = pc, task' = task PROVE ExecutesPlanned'
    BY <1>2, <1>17 DEF ExecutesPlanned
  <1>18. ExecutesPlanned'
    <2>. HIDE DEF Kept, Others
    <2>. QED
      BY <1>6, <1>7, <1>8, <1>9, <1>10, <1>11, <1>12, <1>13, <1>14, <1>15, <1>16, <1>17, SMTT(20)
      DEF Next, WorkerStep
  <1>. QED
    BY <1>5, <1>18

(* No external effect precedes the durable record of the intent to cause   *)
(* it, not even the effect of a worker that has lost its lease.            *)
THEOREM IntentBeforeEffect == Spec => []ExecutedWasPlanned
  <1>1. Init => ExecutionInv
    BY PlanInit DEF Init, ExecutionInv, ExecutedWasPlanned, ExecutesPlanned
  <1>2. ExecutionInv => ExecutedWasPlanned
    BY DEF ExecutionInv
  <1>. QED
    BY <1>1, <1>2, ExecutionStep, PTL DEF Spec
=============================================================================
