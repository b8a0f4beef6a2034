------------------------------ MODULE ManagedRun ------------------------------
(***************************************************************************)
(* One Run executed under a lease: the workers of internal/worker running  *)
(* Controller.ReconcileLeased over the PostgreSQL event store, the lease   *)
(* manager, the receipt table and the artifact store, while an operator    *)
(* pauses, resumes and cancels.                                            *)
(*                                                                         *)
(* Every database transaction and every external effect is one action, so  *)
(* a worker can stall, be cancelled or die between any two of them.        *)
(* Wall-clock time is abstracted to one bit of the lease, live: a lease    *)
(* may stop being live whenever its TTL could have run out.                *)
(***************************************************************************)
EXTENDS RunDomain, FiniteSets

CONSTANTS
  Workers,       \* worker ids; an id is one process incarnation, never reused
  NoWorker,      \* worker_id of an operator's event
  Outputs,       \* tool calls the reasoner may answer with
  UnsafeTypes,   \* commands the safety policy declares "unsafe"
  FailingTypes,  \* commands whose executor may return an error
  Intents,       \* desired states the operator may ask for
  MaxIntents,    \* bound: operator events
  MaxStalls,     \* bound: the first MaxStalls tokens may expire under a live worker
  MaxCrashes,    \* bound: worker processes that die
  Vanish         \* may the bytes of a registered artifact be lost?

ASSUME ConstantsAssumption ==
  /\ NoWorker \notin Workers
  /\ "" \notin Outputs
  /\ UnsafeTypes \subseteq CommandTypes
  /\ FailingTypes \subseteq {"RunReasoner", "ApplyPatch"}
  /\ Intents \subseteq DesiredStates
  /\ MaxIntents \in Nat /\ MaxStalls \in Nat /\ MaxCrashes \in Nat
  /\ Vanish \in BOOLEAN

VARIABLES
  log,        \* events rows, ordered by seq
  st,         \* the projection of log (runs row and Rebuild)
  lease,      \* leases row: owner, fencing token, not yet expired
  receipts,   \* action_receipts rows
  artifacts,  \* actions whose artifact is registered with intact bytes
  pc,         \* where each worker is
  held,       \* fencing token of each worker's current session
  lost,       \* renewal failed: the session's context is cancelled
  task,       \* locals of each worker's current ReconcileLeased call
  stop,       \* the error each exited worker returned
  executed,   \* history: actions executed at least once
  repeated    \* history: actions executed at least twice

store == <<log, st>>
history == <<executed, repeated>>
vars == <<log, st, lease, receipts, artifacts, pc, held, lost, task, stop,
          executed, repeated>>

NoReceipt == [act |-> NoAction, scope |-> "", aid |-> 0, tool |-> "", reason |-> ""]

NoTask == [view |-> InitialState, ver |-> 0, again |-> FALSE, cmd |-> Noop,
           made |-> NoReceipt, fault |-> ""]

InSession == {"validate", "load", "plan", "reload", "lookup", "exec", "record",
              "verify", "complete", "fail", "finish", "poll"}

Stopped == {"crashed", "exited", "done"}

RunCreatedEvent == Event("RunCreated", <<NoAction, "run-created", 0>>, NoWorker, 0)

Init ==
  /\ log = <<RunCreatedEvent>>
  /\ st = ApplyEvent(InitialState, RunCreatedEvent)
  /\ lease = [worker |-> NoWorker, token |-> 0, live |-> FALSE]
  /\ receipts = {}
  /\ artifacts = {}
  /\ pc = [w \in Workers |-> "off"]
  /\ held = [w \in Workers |-> 0]
  /\ lost = [w \in Workers |-> FALSE]
  /\ task = [w \in Workers |-> NoTask]
  /\ stop = [w \in Workers |-> ""]
  /\ executed = {}
  /\ repeated = {}

-----------------------------------------------------------------------------
(* The event store.                                                        *)

(* Fault: any worker may write while some lease is live.                   *)
Authority_AnyWorker(worker, token) == lease.live

Authority(worker, token) ==
  lease.live /\ lease.worker = worker /\ lease.token = token

(* The indices of the plans a receipt (or a draft of one) can belong to.   *)
PlansOf(r) ==
  {i \in DOMAIN log : /\ log[i].type = "ActionPlanned"
                      /\ log[i].act = r.act /\ log[i].scope = r.scope}

Resolved(act) ==
  \E i \in DOMAIN log :
    log[i].type \in {"ActionCompleted", "ActionFailed"} /\ log[i].act = act

(* ApplyPatch evidence is an artifact whose registered bytes still hash to *)
(* its digest; no other action carries one.                                *)
ArtifactIntact(act) == ActionType(act) = "ApplyPatch" => act \in artifacts

(* The output a receipt must have for its action type.                     *)
ValidateManagedActionOutput(r, plannedAid) ==
  /\ ActionType(r.act) = "StartAttempt" => r.aid # 0 /\ r.aid = plannedAid
  /\ ActionType(r.act) = "RunReasoner" => r.tool # ""
  /\ ActionType(r.act) = "FailRun" => r.reason # ""

(* Fault: a completion only accepts a receipt of its own session.          *)
ValidateActionReceipt_OwnToken(e) ==
  \E r \in receipts : r.act = e.act /\ r.token = e.token

(* What an ActionCompleted event must match inside the append transaction. *)
(* An action has one ActionPlanned event (its key is unique), so "some" is *)
(* the "newest" of the query.                                              *)
ValidateActionReceipt(e) ==
  /\ \E r \in receipts : /\ r.act = e.act /\ r.scope = e.scope /\ r.aid = e.aid
                         /\ r.tool = e.tool /\ r.reason = e.reason
  /\ \E i \in PlansOf(e) : ValidateManagedActionOutput(e, log[i].aid)
  /\ ArtifactIntact(e.act)

(* Append in the order the transaction checks: fencing before idempotent   *)
(* replay, replay before the version, evidence, then the reducer.          *)
AppendOutcome(e, expectedVersion) ==
  LET existing == {i \in DOMAIN log : log[i].key = e.key}
  IN  IF e.type # "DesiredStateChanged" /\ ~Authority(e.worker, e.token)
      THEN "stale_fencing_token"
      ELSE IF existing # {}
      THEN IF \A i \in existing : log[i] = e THEN "replayed" ELSE "idempotency_conflict"
      ELSE IF Len(log) # expectedVersion THEN "version_conflict"
      ELSE IF e.type = "ActionCompleted" /\ ~ValidateActionReceipt(e)
      THEN "receipt_mismatch"
      ELSE IF ~ApplyEvent(st, e).exists THEN "not_reducible"
      ELSE "appended"

Commit(e, outcome) ==
  IF outcome = "appended"
  THEN log' = Append(log, e) /\ st' = ApplyEvent(st, e)
  ELSE UNCHANGED store

-----------------------------------------------------------------------------
(* Where a worker goes next.                                               *)

At(w, l) == pc[w] = l /\ ~lost[w]

Goto(w, l) == pc' = [pc EXCEPT ![w] = l]

(* The ReconcileLeased call of w is over.                                  *)
Leave(w, l) == Goto(w, l) /\ task' = [task EXCEPT ![w] = NoTask]

(* worker.Run returns an error: the process ends.                          *)
Exit(w, why) == Leave(w, "exited") /\ stop' = [stop EXCEPT ![w] = why]

Settled(s) == Terminal(s.observed) \/ s.observed = "WaitingApproval"

AfterNoop(s) == IF Settled(s) THEN "done" ELSE "poll"

-----------------------------------------------------------------------------
(* The worker loop: registration, lease, renewal.                          *)

Register(w) ==
  /\ pc[w] = "off"
  /\ Goto(w, "acquire")
  /\ UNCHANGED <<store, lease, receipts, artifacts, held, lost, task, stop, history>>

(* Fault: an expired lease is not taken over.                              *)
Acquire_NoTakeover(w) ==
  /\ pc[w] = "acquire" /\ lease.token = 0
  /\ lease' = [worker |-> w, token |-> 1, live |-> TRUE]
  /\ held' = [held EXCEPT ![w] = 1]
  /\ Goto(w, "validate")
  /\ UNCHANGED <<store, receipts, artifacts, lost, task, stop, history>>

(* First acquisition, takeover of an expired lease, or the owner seeing    *)
(* its own live lease again.  A held lease is polled: no step.             *)
Acquire(w) ==
  /\ pc[w] = "acquire"
  /\ lease.live => lease.worker = w
  /\ lease' = IF lease.live THEN lease
              ELSE [worker |-> w, token |-> lease.token + 1, live |-> TRUE]
  /\ held' = [held EXCEPT ![w] = lease'.token]
  /\ Goto(w, "validate")
  /\ UNCHANGED <<store, receipts, artifacts, lost, task, stop, history>>

(* The renewal goroutine of w meets a lease that is no longer its own and  *)
(* cancels the session.  A successful renewal keeps live as it is.         *)
RenewFails(w) ==
  /\ pc[w] \in InSession /\ ~lost[w] /\ ~Authority(w, held[w])
  /\ lost' = [lost EXCEPT ![w] = TRUE]
  /\ UNCHANGED <<store, lease, receipts, artifacts, pc, held, task, stop, history>>

(* The cancelled session ends with the renewal's lease error and the       *)
(* worker acquires again; a worker that was waiting for its poll interval  *)
(* may instead return the bare context error and exit.                     *)
SessionLost(w) ==
  /\ lost[w]
  /\ lost' = [lost EXCEPT ![w] = FALSE]
  /\ \/ Leave(w, "acquire") /\ UNCHANGED stop
     \/ pc[w] = "poll" /\ Exit(w, "context_cancelled")
  /\ UNCHANGED <<store, lease, receipts, artifacts, held, history>>

Validate(w) ==
  /\ At(w, "validate")
  /\ Goto(w, IF Authority(w, held[w]) THEN "load" ELSE "acquire")
  /\ UNCHANGED <<store, lease, receipts, artifacts, held, lost, task, stop, history>>

Poll(w) ==
  /\ At(w, "poll")
  /\ Goto(w, "validate")
  /\ UNCHANGED <<store, lease, receipts, artifacts, held, lost, task, stop, history>>

-----------------------------------------------------------------------------
(* ReconcileLeased, after the lease was validated: rebuild and choose.     *)

Begin(w, command, fault, l) ==
  /\ Goto(w, l)
  /\ task' = [task EXCEPT ![w] = [NoTask EXCEPT !.view = st, !.ver = Len(log),
                                                !.cmd = command, !.fault = fault]]

PendingCommand(s) == [type |-> s.pendType, act |-> s.pend, aid |-> s.pendAid]

IsPaused(s) == s.desired = "Paused" \/ s.observed = "Paused"

DecideNoop(w) ==
  /\ At(w, "load") /\ st.pend = NoAction
  /\ Decide(st).type = "Noop"
  /\ Leave(w, AfterNoop(st))
  /\ UNCHANGED <<store, lease, receipts, artifacts, held, lost, stop, history>>

(* Fault: the action is executed before its intent is durable.             *)
DecideCommand_ExecutesFirst(w) ==
  /\ At(w, "load") /\ st.pend = NoAction
  /\ Decide(st).type # "Noop"
  /\ Begin(w, Decide(st), "", "exec")
  /\ UNCHANGED <<store, lease, receipts, artifacts, held, lost, stop, history>>

DecideCommand(w) ==
  /\ At(w, "load") /\ st.pend = NoAction
  /\ Decide(st).type # "Noop"
  /\ Begin(w, Decide(st), "", "plan")
  /\ UNCHANGED <<store, lease, receipts, artifacts, held, lost, stop, history>>

RecoverPaused(w) ==
  /\ At(w, "load") /\ st.pend # NoAction
  /\ IsPaused(st)
  /\ Leave(w, AfterNoop(st))
  /\ UNCHANGED <<store, lease, receipts, artifacts, held, lost, stop, history>>

RecoverCancelled(w) ==
  /\ At(w, "load") /\ st.pend # NoAction
  /\ ~IsPaused(st) /\ st.desired = "Cancelled"
  /\ Begin(w, PendingCommand(st), "superseded", "fail")
  /\ UNCHANGED <<store, lease, receipts, artifacts, held, lost, stop, history>>

RecoverPending(w) ==
  /\ At(w, "load") /\ st.pend # NoAction
  /\ ~IsPaused(st) /\ st.desired # "Cancelled"
  /\ Begin(w, PendingCommand(st), "", "lookup")
  /\ UNCHANGED <<store, lease, receipts, artifacts, held, lost, stop, history>>

(* Fault: receipts of earlier sessions are not found.                      *)
ReceiptOf_OwnToken(act) == {r \in receipts : r.act = act /\ r.token = lease.token}

(* The stored receipt of a pending action, if any, decides its recovery.   *)
ReceiptOf(act) == {r \in receipts : r.act = act}

Draft(r) == [act |-> r.act, scope |-> r.scope, aid |-> r.aid, tool |-> r.tool,
             reason |-> r.reason]

LookupReceipt(w) ==
  LET found == ReceiptOf(task[w].cmd.act)
  IN  /\ At(w, "lookup")
      /\ \/ /\ found # {}
            /\ \E r \in found : task' = [task EXCEPT ![w].made = Draft(r)]
            /\ Goto(w, "verify")
         \/ /\ found = {} /\ task[w].view.pendScope # "scoped-idempotent"
            /\ task' = [task EXCEPT ![w].fault = "no_receipt"]
            /\ Goto(w, "fail")
         \/ /\ found = {} /\ task[w].view.pendScope = "scoped-idempotent"
            /\ Goto(w, "exec") /\ UNCHANGED task
      /\ UNCHANGED <<store, lease, receipts, artifacts, held, lost, stop, history>>

-----------------------------------------------------------------------------
(* Plan, execute, record, complete.                                        *)

(* Fault: every action is declared safe to repeat.                         *)
Safety_AlwaysScoped(command) == "scoped-idempotent"

Safety(command) ==
  IF command.type \in UnsafeTypes THEN "unsafe" ELSE "scoped-idempotent"

PlannedEvent(w) ==
  [Event("ActionPlanned", <<task[w].cmd.act, "action-planned", 0>>, w, held[w])
     EXCEPT !.act = task[w].cmd.act, !.aid = task[w].cmd.aid,
            !.scope = Safety(task[w].cmd)]

CompletedEvent(w) ==
  LET r == task[w].made
  IN  [Event("ActionCompleted", <<r.act, "action-completed", 0>>, w, held[w])
         EXCEPT !.act = r.act, !.aid = r.aid, !.scope = r.scope,
                !.tool = r.tool, !.reason = r.reason]

OutcomeOf(fault) == IF fault \in {"superseded", "executor"} THEN "failed" ELSE "ambiguous"

FailedEvent(w) ==
  LET outcome == OutcomeOf(task[w].fault)
  IN  [Event("ActionFailed", <<task[w].cmd.act, outcome, 0>>, w, held[w])
         EXCEPT !.act = task[w].cmd.act, !.reason = task[w].fault,
                !.outcome = outcome]

(* A version conflict here is not retried: the decision may be stale, so   *)
(* the worker goes back to the loop with the current state.                *)
PlanAction(w) ==
  LET e == PlannedEvent(w)
      outcome == AppendOutcome(e, task[w].ver)
  IN  /\ At(w, "plan")
      /\ Commit(e, outcome)
      /\ \/ /\ outcome \in {"appended", "replayed"}
            /\ task' = [task EXCEPT ![w].ver = Len(log')]
            /\ Goto(w, "reload") /\ UNCHANGED stop
         \/ /\ outcome = "version_conflict"
            /\ Leave(w, AfterNoop(st)) /\ UNCHANGED stop
         \/ /\ outcome \notin {"appended", "replayed", "version_conflict"}
            /\ Exit(w, outcome)
      /\ UNCHANGED <<lease, receipts, artifacts, held, lost, history>>

(* GetRun after the plan: the state the executor is given.                 *)
ReloadPlanned(w) ==
  /\ At(w, "reload")
  /\ task' = [task EXCEPT ![w].view = st]
  /\ Goto(w, "exec")
  /\ UNCHANGED <<store, lease, receipts, artifacts, held, lost, stop, history>>

Ran(act) ==
  /\ executed' = executed \cup {act}
  /\ repeated' = IF act \in executed THEN repeated \cup {act} ELSE repeated

(* The external effect.  It needs no authority and does not look at the    *)
(* session's context, so a stalled worker may perform it at any time.      *)
Execute(w) ==
  LET command == task[w].cmd
      answers == IF command.type = "RunReasoner" THEN Outputs ELSE {""}
  IN  /\ pc[w] = "exec"
      /\ \E answer \in answers :
           task' = [task EXCEPT ![w].made =
             [act |-> command.act, scope |-> task[w].view.pendScope,
              aid |-> IF command.type = "StartAttempt" THEN command.aid ELSE 0,
              tool |-> answer,
              reason |-> IF command.type = "FailRun" THEN task[w].view.failure ELSE ""]]
      /\ artifacts' = IF command.type = "ApplyPatch"
                      THEN artifacts \cup {command.act} ELSE artifacts
      /\ Ran(command.act)
      /\ Goto(w, "record")
      /\ UNCHANGED <<store, lease, receipts, held, lost, stop>>

ExecuteFails(w) ==
  /\ pc[w] = "exec" /\ task[w].cmd.type \in FailingTypes
  /\ task' = [task EXCEPT ![w].fault = "executor"]
  /\ Ran(task[w].cmd.act)
  /\ Goto(w, "fail")
  /\ UNCHANGED <<store, lease, receipts, artifacts, held, lost, stop>>

(* RecordReceipt, in the order of its checks.                              *)
RecordOutcome(w) ==
  LET r == task[w].made
  IN  IF r.scope \notin IdempotencyScopes THEN "invalid_receipt"
      ELSE IF ~Authority(w, held[w]) THEN "lease_lost"
      ELSE IF ReceiptOf(r.act) # {}
      THEN IF \A old \in ReceiptOf(r.act) : Draft(old) = r
           THEN "recorded" ELSE "receipt_conflict"
      ELSE IF PlansOf(r) = {} \/ Resolved(r.act) THEN "receipt_without_plan"
      ELSE IF \A i \in PlansOf(r) : ~ValidateManagedActionOutput(r, log[i].aid)
      THEN "invalid_receipt"
      ELSE "recorded"

StoredReceipt(w) ==
  LET r == task[w].made
  IN  [act |-> r.act, scope |-> r.scope, aid |-> r.aid, tool |-> r.tool,
       reason |-> r.reason, worker |-> w, token |-> held[w]]

RecordReceipt(w) ==
  LET outcome == RecordOutcome(w)
  IN  /\ At(w, "record")
      /\ receipts' = IF outcome = "recorded" /\ ReceiptOf(task[w].made.act) = {}
                     THEN receipts \cup {StoredReceipt(w)} ELSE receipts
      /\ \/ outcome = "recorded" /\ Goto(w, "verify") /\ UNCHANGED <<task, stop>>
         \/ outcome = "lease_lost" /\ Leave(w, "acquire") /\ UNCHANGED stop
         \/ outcome \notin {"recorded", "lease_lost"} /\ Exit(w, outcome)
      /\ UNCHANGED <<store, lease, artifacts, held, lost, history>>

(* validateReceiptEvidence: against the state this call loaded.            *)
VerifyEvidence(w) ==
  LET good == /\ ValidateManagedActionOutput(task[w].made, task[w].view.pendAid)
              /\ ApplyActionCompleted(task[w].view, CompletedEvent(w)).exists
              /\ ArtifactIntact(task[w].made.act)
  IN  /\ At(w, "verify")
      /\ Goto(w, IF good THEN "complete" ELSE "fail")
      /\ task' = IF good THEN task ELSE [task EXCEPT ![w].fault = "evidence"]
      /\ UNCHANGED <<store, lease, receipts, artifacts, held, lost, stop, history>>

(* Append a result; one retry with the current version on a conflict.      *)
AppendResult(w, e) ==
  LET outcome == AppendOutcome(e, task[w].ver)
  IN  /\ Commit(e, outcome)
      /\ \/ /\ outcome \in {"appended", "replayed"}
            /\ Leave(w, "finish") /\ UNCHANGED stop
         \/ /\ outcome = "version_conflict" /\ ~task[w].again
            /\ task' = [task EXCEPT ![w].ver = Len(log), ![w].again = TRUE]
            /\ UNCHANGED <<pc, stop>>
         \/ /\ outcome \notin {"appended", "replayed"}
            /\ outcome = "version_conflict" => task[w].again
            /\ Exit(w, outcome)
      /\ UNCHANGED <<lease, receipts, artifacts, held, lost, history>>

CompleteAction(w) == At(w, "complete") /\ AppendResult(w, CompletedEvent(w))

FailAction(w) == At(w, "fail") /\ AppendResult(w, FailedEvent(w))

(* GetRun of the result, and the loop's convergence test.                  *)
Finish(w) ==
  /\ At(w, "finish")
  /\ Goto(w, IF Settled(st) THEN "done" ELSE "validate")
  /\ UNCHANGED <<store, lease, receipts, artifacts, held, lost, task, stop, history>>

WorkerStep(w) ==
  \/ Register(w) \/ Acquire(w) \/ Validate(w) \/ Poll(w) \/ SessionLost(w)
  \/ DecideNoop(w) \/ DecideCommand(w)
  \/ RecoverPaused(w) \/ RecoverCancelled(w) \/ RecoverPending(w)
  \/ LookupReceipt(w) \/ PlanAction(w) \/ ReloadPlanned(w)
  \/ Execute(w) \/ ExecuteFails(w) \/ RecordReceipt(w) \/ VerifyEvidence(w)
  \/ CompleteAction(w) \/ FailAction(w) \/ Finish(w)

-----------------------------------------------------------------------------
(* The operator and the environment.                                       *)

DesiredEvent(d) ==
  [Event("DesiredStateChanged", <<NoAction, d, Len(log)>>, NoWorker, 0)
     EXCEPT !.desired = d]

IntentCount == Cardinality({i \in DOMAIN log : log[i].type = "DesiredStateChanged"})

(* SetDesiredState reads, appends at the version it read and retries on a  *)
(* conflict, so it takes effect as one step on the state it appends to.    *)
SetDesiredState(d) ==
  LET e == DesiredEvent(d)
      outcome == AppendOutcome(e, Len(log))
  IN  /\ IntentCount < MaxIntents
      /\ ~Terminal(st.observed) /\ st.desired # d
      /\ outcome = "appended"
      /\ Commit(e, outcome)
      /\ UNCHANGED <<lease, receipts, artifacts, pc, held, lost, task, stop, history>>

(* The TTL of the lease runs out: its holder no longer renews it, or is    *)
(* stalled beyond it.                                                      *)
Expire ==
  /\ lease.live
  /\ \/ pc[lease.worker] \in Stopped
     \/ lease.token <= MaxStalls
  /\ lease' = [lease EXCEPT !.live = FALSE]
  /\ UNCHANGED <<store, receipts, artifacts, pc, held, lost, task, stop, history>>

Crash(w) ==
  /\ pc[w] \notin Stopped \cup {"off"}
  /\ Cardinality({v \in Workers : pc[v] = "crashed"}) < MaxCrashes
  /\ Leave(w, "crashed")
  /\ lost' = [lost EXCEPT ![w] = FALSE]
  /\ UNCHANGED <<store, lease, receipts, artifacts, held, stop, history>>

LoseArtifact(act) ==
  /\ Vanish
  /\ artifacts' = artifacts \ {act}
  /\ UNCHANGED <<store, lease, receipts, pc, held, lost, task, stop, history>>

Next ==
  \/ \E w \in Workers : WorkerStep(w) \/ RenewFails(w) \/ Crash(w)
  \/ \E d \in Intents : SetDesiredState(d)
  \/ Expire
  \/ \E act \in artifacts : LoseArtifact(act)

Spec == Init /\ [][Next]_vars

(* A worker that runs keeps taking its steps; a lease nobody renews does   *)
(* expire.  Nothing forces a crash, a stall or an operator's intent.       *)
FairSpec ==
  /\ Spec
  /\ \A w \in Workers : WF_vars(WorkerStep(w)) /\ WF_vars(RenewFails(w))
  /\ WF_vars(Expire /\ pc[lease.worker] \in Stopped)

-----------------------------------------------------------------------------
(* Types.                                                                  *)

ActionIds == (CommandTypes \cup {""}) \X Nat \X Nat
Scopes == IdempotencyScopes \cup {""}
Faults == {"", "superseded", "executor", "evidence", "no_receipt"}
Tools == Outputs \cup {""}

RunStates ==
  [exists : BOOLEAN, desired : DesiredStates \cup {""}, observed : Statuses \cup {""},
   resume : Statuses \cup {""}, attempt : Nat, aid : Nat, pend : ActionIds,
   pendType : CommandTypes \cup {""}, pendAid : Nat, pendScope : Scopes,
   done : ActionIds, tool : Tools, patch : BOOLEAN, verified : BOOLEAN,
   failure : Faults]

EventTypes == {"RunCreated", "DesiredStateChanged", "ActionPlanned",
               "ActionCompleted", "ActionFailed"}

KeyTags == {"run-created", "action-planned", "action-completed"}
             \cup ActionOutcomes \cup DesiredStates

Events ==
  [type : EventTypes, key : ActionIds \X KeyTags \X Nat, act : ActionIds, aid : Nat,
   scope : Scopes, outcome : ActionOutcomes \cup {""}, desired : DesiredStates \cup {""},
   tool : Tools, reason : Faults, worker : Workers \cup {NoWorker}, token : Nat]

Commands == [type : CommandTypes \cup {"", "Noop"}, act : ActionIds, aid : Nat]

Drafts == [act : ActionIds, scope : Scopes, aid : Nat, tool : Tools, reason : Faults]

Receipts == [act : ActionIds, scope : Scopes, aid : Nat, tool : Tools,
             reason : Faults, worker : Workers, token : Nat]

Tasks == [view : RunStates, ver : Nat, again : BOOLEAN, cmd : Commands,
          made : Drafts, fault : Faults]

StopReasons ==
  {"", "context_cancelled", "lease_lost", "stale_fencing_token", "replayed",
   "idempotency_conflict", "version_conflict", "receipt_mismatch", "not_reducible",
   "appended", "recorded", "invalid_receipt", "receipt_conflict", "receipt_without_plan"}

(* Every variable has the shape the code gives it; in particular st is     *)
(* always a Run that exists, since Append discards an event that does not  *)
(* reduce.                                                                 *)
TypeOK ==
  /\ log \in Seq(Events)
  /\ st \in RunStates /\ st.exists
  /\ lease \in [worker : Workers \cup {NoWorker}, token : Nat, live : BOOLEAN]
  /\ receipts \subseteq Receipts
  /\ artifacts \subseteq ActionIds
  /\ pc \in [Workers -> InSession \cup Stopped \cup {"off", "acquire"}]
  /\ held \in [Workers -> Nat]
  /\ lost \in [Workers -> BOOLEAN]
  /\ task \in [Workers -> Tasks]
  /\ stop \in [Workers -> StopReasons]
  /\ executed \subseteq ActionIds /\ repeated \subseteq executed

-----------------------------------------------------------------------------
(* Safety.                                                                 *)

IsResult(e) == e.type \in {"ActionCompleted", "ActionFailed"}

(* Fencing.  Whatever stalls, dies or takes over, the log reads as if one  *)
(* worker at a time had written it: the tokens of worker events never go   *)
(* back, and one token always names one worker.  No receipt or event       *)
(* carries a token newer than the lease row's.                             *)
FencedLog ==
  /\ \A i \in DOMAIN log : log[i].token <= lease.token
  /\ \A r \in receipts : r.token <= lease.token
  /\ \A i, j \in DOMAIN log :
       i < j /\ log[i].token > 0 /\ log[j].token > 0 =>
         /\ log[i].token <= log[j].token
         /\ log[i].token = log[j].token => log[i].worker = log[j].worker

(* The external effect follows its intent: every action that was executed, *)
(* by a live or by a fenced-out worker, has a durable ActionPlanned event. *)
ExecutedWasPlanned ==
  \A act \in executed :
    \E i \in DOMAIN log : log[i].type = "ActionPlanned" /\ log[i].act = act

(* An action gets at most one result, and gets it after its plan.          *)
OneResultPerPlan ==
  \A j \in DOMAIN log : IsResult(log[j]) =>
    /\ \A i \in DOMAIN log : IsResult(log[i]) /\ log[i].act = log[j].act => i = j
    /\ \E i \in 1 .. j - 1 : log[i].type = "ActionPlanned" /\ log[i].act = log[j].act

(* At any time at most one plan is open, and it is the pending action of   *)
(* the projection: no crash or takeover leaves a plan behind that recovery *)
(* would not find.                                                         *)
OpenPlanIsPending ==
  \A i \in DOMAIN log :
    log[i].type = "ActionPlanned" /\ ~Resolved(log[i].act) => st.pend = log[i].act

(* A completion rests on the one durable receipt of its action: it repeats *)
(* that receipt's output, and the receipt was written under a token no     *)
(* newer than the completion's and no older than the plan's.               *)
CompletionHasReceipt ==
  /\ \A r1, r2 \in receipts : r1.act = r2.act => r1 = r2
  /\ \A j \in DOMAIN log : log[j].type = "ActionCompleted" =>
       \E r \in receipts :
         /\ r.act = log[j].act /\ r.scope = log[j].scope /\ r.aid = log[j].aid
         /\ r.tool = log[j].tool /\ r.reason = log[j].reason
         /\ r.token <= log[j].token
         /\ \E i \in 1 .. j - 1 : /\ log[i].type = "ActionPlanned"
                                  /\ log[i].act = r.act /\ log[i].token <= r.token

Completed(type, act) ==
  {i \in DOMAIN log : /\ log[i].type = "ActionCompleted"
                      /\ log[i].act = <<type, act[2], act[3]>>}

(* Success is earned: a Run that is, or will resume as, Succeeded has      *)
(* completed ApplyPatch, Verify and SucceedRun of one attempt, in order.   *)
SuccessIsEarned ==
  LogicalState(st) = "Succeeded" =>
    \E i \in Completed("ApplyPatch", st.done) :
    \E j \in Completed("Verify", st.done) :
    \E k \in Completed("SucceedRun", st.done) : i < j /\ j < k

(* An action declared unsafe is executed at most once, across any number   *)
(* of crashes, stalls and takeovers.  CancelRun is the exception: see      *)
(* CompletedNotRerun.                                                      *)
UnsafeAtMostOnce ==
  \A act \in repeated :
    ActionType(act) \in UnsafeTypes => ActionType(act) = "CancelRun"

(* Cancel wins: once the operator's cancel is durable, the Run can no      *)
(* longer end as Succeeded or Failed, whatever was in flight.              *)
CancelIsFinal ==
  st.desired = "Cancelled" => st.observed \notin {"Succeeded", "Failed"}

(* The rightful owner never trips over recovery: until a cancel, a worker  *)
(* that holds the live lease only stops because the operator raced its     *)
(* append twice, or because the bytes of this action's evidence vanished   *)
(* after it verified them; never on a receipt that another session wrote,  *)
(* on a conflict between its retry and what is stored, on a receipt        *)
(* without a plan, or on an event that does not reduce.                    *)
OwnerStopsOnlyOnRace ==
  [][\A w \in Workers :
       stop'[w] # stop[w] /\ Authority(w, held[w]) /\ st.desired # "Cancelled" =>
         \/ stop'[w] = "version_conflict"
         \/ stop'[w] = "receipt_mismatch" /\ ~ArtifactIntact(task[w].made.act)]_vars

(* Intent is obeyed at once: no step after a durable Pause plans anything, *)
(* no step after a durable Cancel plans anything but CancelRun, and pause, *)
(* resume and cancel themselves never move the Run from where it was.      *)
IntentIsObeyed ==
  [][log' # log =>
       LET e == log'[Len(log')]
       IN  /\ e.type = "ActionPlanned" =>
                \/ st.desired = "Running"
                \/ st.desired = "Cancelled" /\ ActionType(e.act) = "CancelRun"
           /\ e.type = "DesiredStateChanged" => LogicalState(st') = LogicalState(st)]_vars

(* Completion is authoritative: a worker that holds the live lease never   *)
(* executes an action whose ActionCompleted is in the log.                 *)
CompletedNotRerun ==
  [][\A w \in Workers :
       pc[w] = "exec" /\ pc'[w] = "record" /\ Authority(w, held[w]) =>
         \A i \in DOMAIN log :
           log[i].type = "ActionCompleted" => log[i].act # task[w].cmd.act]_vars
-----------------------------------------------------------------------------
(* The contract.                                                           *)

Lifecycle ==
  INSTANCE RunLifecycle WITH
    desired <- st.desired, paused <- st.observed = "Paused",
    stage <- LogicalState(st), open <- st.pend # NoAction,
    verified <- st.verified, failing <- st.failure # ""

(* Crashes, stalls, takeovers and races are invisible to the observer: the *)
(* leased path moves a Run only as the documented lifecycle allows.        *)
ImplementsLifecycle == Lifecycle!LifecycleSpec

-----------------------------------------------------------------------------
(* Liveness, under FairSpec and with more workers than can crash or exit.  *)

(* A cancel that cannot end: recovery failed CancelRun itself, or the Run  *)
(* was paused when it was cancelled (runs cancel_crash and cancel_paused). *)
CancelStuck ==
  /\ st.desired = "Cancelled"
  /\ \/ st.observed = "Paused"
     \/ \E i \in DOMAIN log :
          log[i].type = "ActionFailed" /\ ActionType(log[i].act) = "CancelRun"

(* The Run reaches a terminal state or hands itself to the operator        *)
(* (WaitingApproval), unless the operator leaves it paused or its cancel   *)
(* is stuck: no crash, stall, lost race, pause or resume can wedge it.     *)
Converges == <>[](Settled(st) \/ st.desired = "Paused" \/ CancelStuck)

(* "Cancel persists intent first, stops planning work, attempts bounded    *)
(* cleanup, and converges to Cancelled" (docs/state-machine.md).           *)
CancelConverges == (st.desired = "Cancelled") ~> (st.observed = "Cancelled")

(* "Cancel clears an older pending action with an auditable failed result  *)
(* and then converges through the stable CancelRun action"                 *)
(* (docs/state-machine.md): an action of another type that is pending when *)
(* the cancel becomes durable does not stay pending.                       *)
CancelClearsOlderPending ==
  \A type \in CommandTypes \ {"CancelRun"} :
    (st.desired = "Cancelled" /\ st.pendType = type) ~> (st.pendType # type)
=============================================================================
