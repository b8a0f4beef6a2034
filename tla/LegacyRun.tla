------------------------------ MODULE LegacyRun ------------------------------
(***************************************************************************)
(* One Run executed without a lease: concurrent callers of                 *)
(* Controller.Reconcile ("agentdock run step", "run cancel", the demo) over*)
(* one event store, an operator, and a worker that may switch the Run to   *)
(* leased execution by acquiring its first lease.                          *)
(*                                                                         *)
(* Callers share nothing but the store.  Each load, each append and the    *)
(* reasoner call is one action.  Behaviours in which no worker polls are   *)
(* those of the memory store.  What a worker does after the switch is      *)
(* ManagedRun.                                                             *)
(***************************************************************************)
EXTENDS RunDomain, FiniteSets

CONSTANTS
  Callers,     \* processes that call Reconcile
  NoCaller,    \* worker_id of an unleased event: no fencing authority
  Outputs,     \* tool calls the reasoner may answer with
  MayFail,     \* may the reasoner return an error or an invalid result?
  Intents,     \* desired states the operator may ask for
  MaxIntents,  \* bound: operator events
  MaxCrashes   \* bound: callers that die

ASSUME LegacyAssumption ==
  /\ "" \notin Outputs
  /\ MayFail \in BOOLEAN
  /\ Intents \subseteq DesiredStates
  /\ MaxIntents \in Nat /\ MaxCrashes \in Nat

VARIABLES
  log,       \* events rows, ordered by seq
  st,        \* the projection of log
  polling,   \* a worker process was started for the Run
  managed,   \* a leases row exists for the Run
  switched,  \* history: length of log when that row was inserted
  pc,        \* where each caller is
  task       \* locals of each caller's Reconcile call

store == <<log, st>>
mode == <<polling, managed, switched>>
vars == <<log, st, polling, managed, switched, pc, task>>

(* view and ver: the state and version loaded; again: appendEvent already  *)
(* retried; to: where the caller goes on after it refreshed its version.   *)
NoTask == [view |-> InitialState, ver |-> 0, cmd |-> Noop, again |-> FALSE,
           to |-> "", tool |-> "", fault |-> ""]

RunCreatedEvent == Event("RunCreated", <<NoAction, "run-created", 0>>, NoCaller, 0)

Init ==
  /\ log = <<RunCreatedEvent>>
  /\ st = ApplyEvent(InitialState, RunCreatedEvent)
  /\ polling \in BOOLEAN /\ managed = FALSE /\ switched = 0
  /\ pc = [c \in Callers |-> "idle"]
  /\ task = [c \in Callers |-> NoTask]

-----------------------------------------------------------------------------
(* The event store, for an event without fencing authority.                *)

(* Fault: the store trusts the caller's own check of the mode.             *)
AppendOutcome_TrustsCaller(e, expectedVersion) ==
  IF \E i \in DOMAIN log : log[i].key = e.key THEN "replayed"
  ELSE IF Len(log) # expectedVersion THEN "version_conflict"
  ELSE IF ApplyEvent(st, e).exists THEN "appended" ELSE "not_reducible"

AppendOutcome(e, expectedVersion) ==
  LET existing == {i \in DOMAIN log : log[i].key = e.key}
  IN  IF managed /\ e.type # "DesiredStateChanged" THEN "fencing_token_required"
      ELSE IF existing # {}
      THEN IF \A i \in existing : log[i] = e THEN "replayed" ELSE "idempotency_conflict"
      ELSE IF Len(log) # expectedVersion THEN "version_conflict"
      ELSE IF ~ApplyEvent(st, e).exists THEN "not_reducible"
      ELSE "appended"

Commit(e, outcome) ==
  IF outcome = "appended"
  THEN log' = Append(log, e) /\ st' = ApplyEvent(st, e)
  ELSE UNCHANGED store

(* What resolves a planned legacy action: its result, or the end of the    *)
(* Run.                                                                    *)

(* Fault: the query forgets that a failed tool call resolves its plan.     *)
Resolves_ForgetsFailure(e, plan) ==
  \/ e.type = "RunFailed" \/ e.type = "RunCancelled"
  \/ e.act = plan.act /\ plan.type = "ReasoningPlanned" /\ e.type = "ReasoningCompleted"
  \/ e.act = plan.act /\ plan.type = "VerificationPlanned" /\ e.type = "VerificationPassed"

Resolves(e, plan) ==
  \/ e.type = "RunFailed" \/ e.type = "RunCancelled"
  \/ /\ e.act = plan.act
     /\ \/ /\ plan.type = "ReasoningPlanned"
           /\ e.type \in {"ReasoningCompleted", "ToolCallFailed"}
        \/ /\ plan.type = "VerificationPlanned"
           /\ e.type \in {"VerificationPassed", "VerificationFailed"}

IsPlan(e) == e.type \in {"ReasoningPlanned", "VerificationPlanned"}

UnresolvedLegacyAction ==
  \E i \in DOMAIN log :
    /\ IsPlan(log[i])
    /\ \A j \in i + 1 .. Len(log) : ~Resolves(log[j], log[i])

-----------------------------------------------------------------------------
(* Reconcile.                                                              *)

Goto(c, l) == pc' = [pc EXCEPT ![c] = l]

(* The call returns, with a result or with an error.                       *)
Return(c) == Goto(c, "idle") /\ task' = [task EXCEPT ![c] = NoTask]

PlansFirst(type) == type \in {"RunReasoner", "Verify"}

(* After the plan of an action is in the log.                              *)
AfterPlan(command) == IF command.type = "RunReasoner" THEN "reason" ELSE "result"

FirstStep(s, command) ==
  IF ~PlansFirst(command.type) THEN "result"
  ELSE IF s.pend = NoAction THEN "plan" ELSE AfterPlan(command)

(* Fault: an action another caller planned is left to that caller.         *)
Load_RefusesPending(c) ==
  /\ pc[c] = "idle"
  /\ st.pend = NoAction
  /\ task' = [task EXCEPT ![c] = [NoTask EXCEPT !.view = st, !.ver = Len(log)]]
  /\ Goto(c, "inspect")
  /\ UNCHANGED <<store, mode>>

Load(c) ==
  /\ pc[c] = "idle"
  /\ st.pendType = ""
  /\ task' = [task EXCEPT ![c] = [NoTask EXCEPT !.view = st, !.ver = Len(log)]]
  /\ Goto(c, "inspect")
  /\ UNCHANGED <<store, mode>>

(* IsManagedRun, a transaction of its own, then Decide on what was loaded. *)
Inspect(c) ==
  LET command == Decide(task[c].view)
  IN  /\ pc[c] = "inspect"
      /\ \/ /\ managed \/ command.type = "Noop"
            /\ Return(c)
         \/ /\ ~managed /\ command.type # "Noop"
            /\ task' = [task EXCEPT ![c].cmd = command]
            /\ Goto(c, FirstStep(task[c].view, command))
      /\ UNCHANGED <<store, mode>>

LegacyEvent(c, type) ==
  [Event(type, <<task[c].cmd.act, type, 0>>, NoCaller, 0) EXCEPT !.act = task[c].cmd.act]

PlanEvent(c) ==
  LegacyEvent(c, IF task[c].cmd.type = "Verify"
                 THEN "VerificationPlanned" ELSE "ReasoningPlanned")

ResultEvent(c) ==
  LET type == task[c].cmd.type
      Fact(t) == LegacyEvent(c, t)
  IN  CASE type = "StartAttempt"       -> [Fact("AttemptStarted")
                                             EXCEPT !.aid = task[c].cmd.aid]
        [] type = "ProvisionWorkspace" -> Fact("WorkspaceProvisioned")
        [] type = "RunReasoner"        ->
             IF task[c].fault # ""
             THEN [Fact("ToolCallFailed") EXCEPT !.reason = task[c].fault]
             ELSE [Fact("ReasoningCompleted") EXCEPT !.tool = task[c].tool]
        [] type = "ApplyPatch"         -> Fact("PatchProduced")
        [] type = "Verify"             -> Fact("VerificationPassed")
        [] type = "SucceedRun"         -> Fact("RunSucceeded")
        [] type = "FailRun"            -> [Fact("RunFailed")
                                             EXCEPT !.reason = task[c].view.failure]
        [] type = "CancelRun"          -> Fact("RunCancelled")

(* appendEvent: the version comes from this call's last load or append.  A *)
(* conflict is retried once, at the version loaded afterwards; a replay    *)
(* also reloads the version.  Any other error ends the call.               *)
AppendEvent(c, e, next) ==
  LET outcome == AppendOutcome(e, task[c].ver)
  IN  /\ Commit(e, outcome)
      /\ \/ /\ outcome = "appended" /\ next # "idle"
            /\ task' = [task EXCEPT ![c].ver = Len(log'), ![c].again = FALSE]
            /\ Goto(c, next)
         \/ /\ outcome = "replayed" /\ next # "idle"
            /\ task' = [task EXCEPT ![c].to = next, ![c].again = FALSE]
            /\ Goto(c, "refresh")
         \/ /\ outcome = "version_conflict" /\ ~task[c].again
            /\ task' = [task EXCEPT ![c].to = pc[c], ![c].again = TRUE]
            /\ Goto(c, "refresh")
         \/ /\ outcome \in {"appended", "replayed"} => next = "idle"
            /\ outcome = "version_conflict" => task[c].again
            /\ Return(c)
      /\ UNCHANGED mode

Plan(c) ==
  pc[c] = "plan" /\ AppendEvent(c, PlanEvent(c), AfterPlan(task[c].cmd))

Refresh(c) ==
  /\ pc[c] = "refresh"
  /\ task' = [task EXCEPT ![c].ver = Len(log)]
  /\ Goto(c, task[c].to)
  /\ UNCHANGED <<store, mode>>

(* The reasoner answers with a tool call, or the call fails.               *)
Reason(c) ==
  /\ pc[c] = "reason"
  /\ \/ \E tool \in Outputs : task' = [task EXCEPT ![c].tool = tool]
     \/ MayFail /\ task' = [task EXCEPT ![c].fault = "reasoner"]
  /\ Goto(c, "result")
  /\ UNCHANGED <<store, mode>>

Result(c) == pc[c] = "result" /\ AppendEvent(c, ResultEvent(c), "idle")

CallerStep(c) ==
  Load(c) \/ Inspect(c) \/ Plan(c) \/ Refresh(c) \/ Reason(c) \/ Result(c)

-----------------------------------------------------------------------------
(* The operator, a crash, and the switch to leased execution.              *)

DesiredEvent(d) ==
  [Event("DesiredStateChanged", <<NoAction, d, Len(log)>>, NoCaller, 0)
     EXCEPT !.desired = d]

IntentCount == Cardinality({i \in DOMAIN log : log[i].type = "DesiredStateChanged"})

SetDesiredState(d) ==
  LET e == DesiredEvent(d)
      outcome == AppendOutcome(e, Len(log))
  IN  /\ IntentCount < MaxIntents
      /\ ~Terminal(st.observed) /\ st.desired # d
      /\ outcome = "appended"
      /\ Commit(e, outcome)
      /\ UNCHANGED <<mode, pc, task>>

Crash(c) ==
  /\ pc[c] # "crashed"
  /\ Cardinality({b \in Callers : pc[b] = "crashed"}) < MaxCrashes
  /\ Goto(c, "crashed") /\ task' = [task EXCEPT ![c] = NoTask]
  /\ UNCHANGED <<store, mode>>

(* The first lease of the Run.  While a legacy action is unresolved it is  *)
(* refused as held and the worker polls.  The advisory lock excludes it    *)
(* from running inside an append.                                          *)
Acquire ==
  /\ polling /\ ~managed
  /\ ~UnresolvedLegacyAction
  /\ managed' = TRUE /\ switched' = Len(log)
  /\ UNCHANGED <<store, polling, pc, task>>

Next ==
  \/ \E c \in Callers : CallerStep(c) \/ Crash(c)
  \/ \E d \in Intents : SetDesiredState(d)
  \/ Acquire

Spec == Init /\ [][Next]_vars

(* Somebody keeps calling Reconcile, a call in progress goes on, and a     *)
(* worker keeps polling for the lease.                                     *)
FairSpec ==
  /\ Spec
  /\ \A c \in Callers : WF_vars(CallerStep(c))
  /\ WF_vars(Acquire)
-----------------------------------------------------------------------------
(* Safety.                                                                 *)

(* The query of Acquire and the projection agree on whether an unleased    *)
(* action is in progress, though one reads events and the other folds      *)
(* them: a worker is neither let in over a pending action nor kept out     *)
(* after it was resolved.                                                  *)
QueryMatchesProjection == UnresolvedLegacyAction <=> st.pend # NoAction

(* The modes never mix: a Run under a lease has no unleased action open,   *)
(* and nothing but operator intent was appended without a token after the  *)
(* switch, even by a caller that inspected the Run before it.              *)
ModesNeverMix ==
  managed =>
    /\ st.pend = NoAction
    /\ \A i \in switched + 1 .. Len(log) : log[i].type = "DesiredStateChanged"

(* Callers that run the reasoner for one plan at the same time, and get    *)
(* different answers, leave one result of it in the log.                   *)
OneResultPerPlan ==
  \A i, j \in DOMAIN log :
    /\ log[i].act = log[j].act
    /\ log[i].type \in {"ReasoningCompleted", "ToolCallFailed"}
    /\ log[j].type \in {"ReasoningCompleted", "ToolCallFailed"}
    => i = j /\ \E k \in 1 .. i - 1 : IsPlan(log[k]) /\ log[k].act = log[i].act

Lifecycle ==
  INSTANCE RunLifecycle WITH
    desired <- st.desired, paused <- st.observed = "Paused",
    stage <- LogicalState(st), open <- st.pend # NoAction,
    verified <- st.verified, failing <- st.failure # ""

(* Decisions on stale loads, retries at a newer version and races with the *)
(* operator are invisible: the unleased path, too, moves a Run only as the *)
(* documented lifecycle allows.                                            *)
ImplementsLifecycle == Lifecycle!LifecycleSpec

-----------------------------------------------------------------------------
(* Liveness, under FairSpec and with more callers than can crash.          *)

(* Callers that race and die still finish the Run, or a polling worker is  *)
(* let in, unless the operator leaves the Run paused: a conflict ends a    *)
(* call, never the Run, and an action whose caller died does not keep the  *)
(* Run unleased for good.                                                  *)
Converges ==
  <>[](\/ managed
       \/ ~polling /\ Terminal(st.observed)
       \/ st.desired = "Paused" /\ (polling => st.pend # NoAction))

(* "Cancel persists intent first, stops planning work, attempts bounded    *)
(* cleanup, and converges to Cancelled" (docs/state-machine.md), also from *)
(* Paused and over an action in progress.                                  *)
CancelConverges ==
  (st.desired = "Cancelled") ~> (st.observed = "Cancelled" \/ managed)
=============================================================================
