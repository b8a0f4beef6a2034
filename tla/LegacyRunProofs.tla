--------------------------- MODULE LegacyRunProofs ---------------------------
(***************************************************************************)
(* The properties of LegacyRun for any number of callers, crashes and      *)
(* faults: what one event does to an unleased Run, what a step may append  *)
(* and what a caller knows when it appends it, one inductive invariant     *)
(* that relates the plans in the log to the pending action of the          *)
(* projection, and the lifecycle contract that every step keeps.           *)
(***************************************************************************)
EXTENDS LegacyRun, TLAPS

-----------------------------------------------------------------------------
(* Types.                                                                  *)

Optional(S) == S \cup {""}

ActionIds == Optional(CommandTypes) \X Nat \X Nat

RunStates ==
  [exists : BOOLEAN, desired : Optional(DesiredStates), observed : Optional(Statuses),
   resume : Optional(Statuses), attempt : Nat, aid : Nat, pend : ActionIds,
   pendType : Optional({}), pendAid : Nat, pendScope : Optional({}), done : ActionIds,
   tool : Optional(Outputs), patch : BOOLEAN, verified : BOOLEAN,
   failure : Optional({"reasoner"})]

EventTypes == {"RunCreated", "DesiredStateChanged"} \cup LegacyLifecycleResultEvents

Events ==
  [type : EventTypes,
   key : ActionIds \X (EventTypes \cup DesiredStates \cup {"run-created"}) \X Nat,
   act : ActionIds, aid : Nat, scope : Optional({}), outcome : Optional({}),
   desired : Optional(DesiredStates), tool : Optional(Outputs),
   reason : Optional({"reasoner"}), worker : {NoCaller}, token : {0}]

Commands == [type : CommandTypes \cup {"Noop"}, act : ActionIds, aid : Nat]

Places == {"idle", "inspect", "plan", "reason", "result", "refresh", "crashed"}

Tasks ==
  [view : RunStates, ver : Nat, cmd : Commands, again : BOOLEAN, to : Optional(Places),
   tool : Optional(Outputs), fault : Optional({"reasoner"})]

TypeOK ==
  /\ log \in Seq(Events) /\ st \in RunStates
  /\ managed \in BOOLEAN /\ switched \in Nat
  /\ pc \in [Callers -> Places] /\ task \in [Callers -> Tasks]

-----------------------------------------------------------------------------
(* The inductive invariant.                                                *)

Failing(s) == s.failure # ""

(* No leased action is ever pending.                                       *)
Unleased(s) == s.pendType = ""

(* The command whose action may be pending at a stage.                     *)
OpenAt(stage) == IF stage = "Reasoning" THEN "RunReasoner" ELSE "Verify"

(* What an unleased Run looks like.                                        *)
RunInv(s) ==
  /\ s \in RunStates /\ s.exists /\ Unleased(s)
  /\ s.desired = "Running" => s.observed # "Paused"
  /\ s.observed = "Paused" => s.resume # "Paused" /\ ~Terminal(s.resume)
  /\ s.pend # NoAction => /\ LogicalState(s) \in {"Reasoning", "Verifying"}
                          /\ ActionType(s.pend) = OpenAt(LogicalState(s))

(* A caller decides on a view that an unleased Run can have, and acts on a *)
(* command that its action id names.                                       *)
Prepared(place, t) ==
  /\ place = "inspect" => RunInv(t.view)
  /\ place \in {"plan", "reason", "result", "refresh"} =>
       t.cmd.type \in CommandTypes /\ ActionType(t.cmd.act) = t.cmd.type
  /\ place = "plan" \/ (place = "refresh" /\ t.to = "plan") => PlansFirst(t.cmd.type)
  /\ place = "refresh" => t.to \in {"plan", "reason", "result"}

CallersPrepared ==
  \A c \in Callers : /\ Prepared(pc[c], task[c])
                     /\ Failing(task[c].view) => Failing(st)

IsToolResult(e) == e.type \in {"ReasoningCompleted", "ToolCallFailed"}

(* Plans are named by their action.                                        *)
PlansNamed ==
  \A i \in DOMAIN log :
    IsPlan(log[i]) =>
      /\ ActionType(log[i].act) = IF log[i].type = "ReasoningPlanned"
                                  THEN "RunReasoner" ELSE "Verify"
      /\ log[i].key = <<log[i].act, log[i].type, 0>>

(* A plan is pending or was resolved.                                      *)
PlansClosed ==
  \A i \in DOMAIN log :
    IsPlan(log[i]) =>
      log[i].act = st.pend \/ \E j \in i + 1 .. Len(log) : Resolves(log[j], log[i])

(* What is pending was planned and not resolved.                           *)
PendingPlanned ==
  st.pend # NoAction =>
    /\ \E i \in DOMAIN log :
         /\ IsPlan(log[i]) /\ log[i].act = st.pend
         /\ \A j \in i + 1 .. Len(log) : ~Resolves(log[j], log[i])
    /\ \A i \in DOMAIN log : IsToolResult(log[i]) => log[i].act # st.pend

(* What callers and the Run look like, and what the log says of them.      *)
ShapeInv == TypeOK /\ RunInv(st) /\ CallersPrepared

LegacyInv ==
  /\ ShapeInv /\ PlansNamed /\ PlansClosed /\ PendingPlanned
  /\ OneResultPerPlan /\ ModesNeverMix /\ (managed => switched <= Len(log))

-----------------------------------------------------------------------------
(* What one event does to an unleased Run.                                 *)

OperatorEvents == {"DesiredStateChanged"}

LEMMA OptionalMember ==
  ASSUME NEW S
  PROVE  \A x \in S : x \in Optional(S)
  BY DEF Optional

LEMMA StatusNames == \A x \in Statuses : x \in Optional(Statuses)
  BY OptionalMember

LEMMA Dispatch ==
  ASSUME NEW s, NEW e, RunInv(s), ApplyEvent(s, e).exists,
         e.type \in LegacyLifecycleResultEvents \cup OperatorEvents
  PROVE  /\ ~Rejected.exists /\ ~Terminal(s.observed)
         /\ e.type \in LegacyLifecycleResultEvents => ApplyEvent(s, e) = ApplyLegacyEvent(s, e)
         /\ e.type \in OperatorEvents => ApplyEvent(s, e) = ApplyDesiredState(s, e.desired)
  <1>1. ~Rejected.exists
    BY DEF Rejected, InitialState
  <1>2. s.exists /\ Unleased(s)
    BY DEF RunInv
  <1>3. ~Terminal(s.observed)
    BY <1>1, <1>2 DEF ApplyEvent
  <1>4. CASE e.type \in OperatorEvents
    <2>1. /\ e.type = "DesiredStateChanged"
          /\ e.type \notin LegacyLifecycleResultEvents \cup LeaseEvents
      BY <1>4 DEF OperatorEvents, LegacyLifecycleResultEvents, LeaseEvents
    <2>2. ApplyEvent(s, e) = ApplyDesiredState(s, e.desired)
      BY <1>3, <2>1 DEF ApplyEvent
    <2>. QED
      BY <1>1, <1>3, <2>1, <2>2
  <1>5. CASE e.type \in LegacyLifecycleResultEvents
    <2>1. e.type \notin {"RunCreated", "DesiredStateChanged", "ActionPlanned",
                         "ActionCompleted", "ActionFailed"} \cup LeaseEvents
      BY <1>5 DEF LegacyLifecycleResultEvents, LeaseEvents
    <2>2. ApplyEvent(s, e) = IF s.pendType # "" THEN Rejected ELSE ApplyLegacyEvent(s, e)
      BY <1>3, <1>5, <2>1 DEF ApplyEvent
    <2>. QED
      BY <1>1, <1>2, <1>3, <2>1, <2>2 DEF Unleased, OperatorEvents
  <1>. QED
    BY <1>4, <1>5

(* Fields that most events leave alone.                                    *)
Same(s, r) ==
  /\ r \in RunStates /\ r.exists = s.exists /\ r.pendType = s.pendType
  /\ r.desired = s.desired

LEMMA SameFailing ==
  ASSUME NEW s, NEW r, r.failure = s.failure
  PROVE  Failing(r) <=> Failing(s)
  BY DEF Failing

LEMMA StillUnleased ==
  ASSUME NEW s, NEW r, Unleased(s), r.pendType = s.pendType
  PROVE  Unleased(r)
  BY DEF Unleased

Step(from, to) ==
  \/ from = "Queued" /\ to = "Provisioning"
  \/ from = "Provisioning" /\ to = "Reasoning"
  \/ from = "Reasoning" /\ to = "Acting"
  \/ from = "Acting" /\ to = "Verifying"
  \/ from = "Verifying" /\ to = "Succeeded"

(* The facts that a call of Reconcile appends without planning them.       *)
Advanced(s, r) ==
  /\ s.desired = "Running" /\ r.desired = s.desired
  /\ s.observed # "Paused" /\ r.observed # "Paused" /\ Step(s.observed, r.observed)
  /\ r.observed = "Succeeded" => s.verified
  /\ s.pend = NoAction /\ r.pend = NoAction
  /\ r.verified = s.verified /\ r.failure = s.failure

LEMMA AdvanceEffect ==
  ASSUME NEW s, NEW e \in Events, RunInv(s), ApplyEvent(s, e).exists,
         e.type \in {"AttemptStarted", "WorkspaceProvisioned", "PatchProduced", "RunSucceeded"}
  PROVE  RunInv(ApplyEvent(s, e)) /\ Advanced(s, ApplyEvent(s, e))
  <1>. DEFINE r == ApplyEvent(s, e)
  <1>1. /\ ~Rejected.exists /\ s \in RunStates /\ s.exists /\ Unleased(s)
        /\ r = ApplyLegacyEvent(s, e)
        /\ s.observed \notin {"Reasoning", "Verifying", "Paused"} => s.pend = NoAction
    BY Dispatch DEF LegacyLifecycleResultEvents, RunInv, LogicalState
  <1>2. ASSUME e.type = "AttemptStarted" PROVE Same(s, r) /\ Advanced(s, r)
    <2>1. /\ s.desired = "Running" /\ s.observed = "Queued" /\ e.aid \in Nat
          /\ "Provisioning" \in Optional(Statuses)
          /\ r = [s EXCEPT !.observed = "Provisioning", !.attempt = s.attempt + 1, !.aid = e.aid]
      BY <1>1, <1>2, StatusNames
      DEF ApplyLegacyEvent, ApplyAttemptStarted, RequireActiveState, Events, Statuses
    <2>2. s.attempt + 1 \in Nat
      BY <1>1 DEF RunStates
    <2>. HIDE DEF r
    <2>. QED
      BY <1>1, <2>1, <2>2, ZenonT(30) DEF Same, Step, Advanced, RunStates
  <1>3. ASSUME e.type = "WorkspaceProvisioned" PROVE Same(s, r) /\ Advanced(s, r)
    <2>1. /\ s.desired = "Running" /\ s.observed = "Provisioning"
          /\ "Reasoning" \in Optional(Statuses)
          /\ r = [s EXCEPT !.observed = "Reasoning"]
      BY <1>1, <1>3, StatusNames
      DEF ApplyLegacyEvent, ApplyWorkspaceProvisioned, RequireActiveState, Statuses
    <2>. HIDE DEF r
    <2>. QED
      BY <1>1, <2>1, Zenon DEF Same, Step, Advanced, RunStates
  <1>4. ASSUME e.type = "PatchProduced" PROVE Same(s, r) /\ Advanced(s, r)
    <2>1. /\ s.desired = "Running" /\ s.observed = "Acting"
          /\ "Verifying" \in Optional(Statuses)
          /\ r = [s EXCEPT !.observed = "Verifying", !.patch = TRUE]
      BY <1>1, <1>4, StatusNames
      DEF ApplyLegacyEvent, ApplyPatchProduced, RequireActiveState, Statuses
    <2>. HIDE DEF r
    <2>. QED
      BY <1>1, <2>1, ZenonT(30) DEF Same, Step, Advanced, RunStates
  <1>5. ASSUME e.type = "RunSucceeded" PROVE Same(s, r) /\ Advanced(s, r)
    <2>1. /\ s.desired = "Running" /\ s.observed = "Verifying"
          /\ s.verified /\ s.pend = NoAction
          /\ "Succeeded" \in Optional(Statuses)
          /\ r = [s EXCEPT !.observed = "Succeeded"]
      BY <1>1, <1>5, StatusNames
      DEF ApplyLegacyEvent, ApplyRunSucceeded, RequireActiveState, Statuses
    <2>. HIDE DEF r
    <2>. QED
      BY <1>1, <2>1, Zenon DEF Same, Step, Advanced, RunStates
  <1>6. Same(s, r) /\ Advanced(s, r)
    BY <1>2, <1>3, <1>4, <1>5
  <1>7. Unleased(r)
    BY <1>1, <1>6, StillUnleased DEF Same
  <1>. HIDE DEF r
  <1>8. RunInv(r)
    BY <1>1, <1>6, <1>7 DEF Same, Advanced, RunInv
  <1>. QED
    BY <1>6, <1>8 DEF r

(* An event about a planned action names the command of that action.       *)
Named(e) ==
  /\ e.type \in {"ReasoningPlanned", "ReasoningCompleted", "ToolCallFailed"} =>
       ActionType(e.act) = "RunReasoner"
  /\ e.type \in {"VerificationPlanned", "VerificationPassed"} => ActionType(e.act) = "Verify"

Opened(s, r, e) ==
  /\ s.desired = "Running" /\ r.desired = s.desired
  /\ s.observed # "Paused" /\ r.observed = s.observed
  /\ s.pend = NoAction /\ e.act # NoAction /\ r.pend = e.act
  /\ r.verified = s.verified /\ r.failure = s.failure

LEMMA PlanEffect ==
  ASSUME NEW s, NEW e \in Events, RunInv(s), ApplyEvent(s, e).exists,
         e.type \in {"ReasoningPlanned", "VerificationPlanned"}, Named(e)
  PROVE  RunInv(ApplyEvent(s, e)) /\ Opened(s, ApplyEvent(s, e), e)
  <1>. DEFINE r == ApplyEvent(s, e)
  <1>1. /\ ~Rejected.exists /\ s \in RunStates /\ s.exists /\ Unleased(s)
        /\ r = ApplyLegacyEvent(s, e) /\ e.act \in ActionIds
    BY Dispatch DEF LegacyLifecycleResultEvents, RunInv, Events
  <1>2. /\ s.desired = "Running" /\ e.act # NoAction /\ s.pend = NoAction
        /\ r = [s EXCEPT !.pend = e.act]
        /\ \/ s.observed = "Reasoning" /\ e.type = "ReasoningPlanned"
           \/ s.observed = "Verifying" /\ e.type = "VerificationPlanned"
    <2>1. CASE e.type = "ReasoningPlanned"
      BY <1>1, <2>1 DEF ApplyLegacyEvent, ApplyReasoningPlanned, RequireActiveState
    <2>2. CASE e.type = "VerificationPlanned"
      BY <1>1, <2>2 DEF ApplyLegacyEvent, ApplyVerificationPlanned, RequireActiveState
    <2>. QED
      BY <2>1, <2>2
  <1>. HIDE DEF r
  <1>3. Same(s, r) /\ Opened(s, r, e)
    BY <1>1, <1>2, Zenon DEF Same, Opened, RunStates
  <1>4. Unleased(r)
    BY <1>1, <1>3, StillUnleased DEF Same
  <1>5. RunInv(r)
    BY <1>1, <1>2, <1>3, <1>4 DEF Same, Opened, RunInv, Named, LogicalState, OpenAt
  <1>. QED
    BY <1>3, <1>5 DEF r

(* A result is delivered to the stage it was planned at, also while the    *)
(* Run is paused there.                                                    *)
Closed(s, r, e) ==
  /\ s.desired = "Running" \/ (s.desired = "Paused" /\ s.observed = "Paused")
  /\ r.desired = s.desired
  /\ r.observed = "Paused" <=> s.observed = "Paused"
  /\ s.pend = e.act /\ e.act # NoAction /\ r.pend = NoAction
  /\ \/ /\ e.type = "ReasoningCompleted"
        /\ LogicalState(s) = "Reasoning" /\ LogicalState(r) = "Acting"
        /\ r.verified = s.verified /\ r.failure = s.failure
     \/ /\ e.type = "ToolCallFailed"
        /\ LogicalState(s) = "Reasoning" /\ LogicalState(r) = "Reasoning"
        /\ r.verified = s.verified /\ Failing(r)
     \/ /\ e.type = "VerificationPassed"
        /\ LogicalState(s) = "Verifying" /\ LogicalState(r) = "Verifying"
        /\ r.verified /\ r.failure = s.failure

LEMMA ResultEffect ==
  ASSUME NEW s, NEW e \in Events, RunInv(s), ApplyEvent(s, e).exists,
         e.type \in {"ReasoningCompleted", "ToolCallFailed", "VerificationPassed"}
  PROVE  RunInv(ApplyEvent(s, e)) /\ Closed(s, ApplyEvent(s, e), e)
  <1>. DEFINE r == ApplyEvent(s, e)
  <1>1. /\ ~Rejected.exists /\ s \in RunStates /\ s.exists /\ Unleased(s)
        /\ r = ApplyLegacyEvent(s, e) /\ e.act \in ActionIds
        /\ s.desired = "Running" => s.observed # "Paused"
    BY Dispatch DEF LegacyLifecycleResultEvents, RunInv, Events
  <1>2. NoAction \in ActionIds /\ "Acting" \in Optional(Statuses)
    <2>1. "" \in Optional(CommandTypes)
      BY DEF Optional
    <2>. QED
      BY <2>1, StatusNames DEF NoAction, ActionIds, Statuses
  <1>. DEFINE At(stage) ==
         \/ s.desired = "Running" /\ s.observed = stage
         \/ s.desired = "Paused" /\ s.observed = "Paused" /\ s.resume = stage
  <1>3. \A stage : RequirePlannedResultState(s, stage) => At(stage)
    BY DEF RequirePlannedResultState, RequireActiveState
  <1>4. ASSUME e.type = "ReasoningCompleted"
        PROVE  /\ Same(s, r) /\ Closed(s, r, e)
               /\ r.observed = "Paused" => r.resume = "Acting"
    <2>. DEFINE a == AdvanceManagedState(s, "Acting")
    <2>1. /\ At("Reasoning") /\ s.pend = e.act /\ e.act # NoAction
          /\ r = [a EXCEPT !.pend = NoAction, !.tool = e.tool]
      BY <1>1, <1>3, <1>4
      DEF ApplyLegacyEvent, ApplyReasoningCompleted, RequirePendingAction
    <2>2. [Rejected EXCEPT !.pend = NoAction, !.tool = e.tool].exists = FALSE
      BY DEF Rejected, InitialState
    <2>3. a # Rejected
      BY <2>1, <2>2
    <2>4. /\ s.observed = "Paused" => a = [s EXCEPT !.resume = "Acting"]
          /\ s.observed # "Paused" => a = [s EXCEPT !.observed = "Acting"]
      BY <2>3 DEF AdvanceManagedState, Transition
    <2>. HIDE DEF a
    <2>5. /\ a \in RunStates /\ a.exists = s.exists /\ a.pendType = s.pendType
          /\ a.desired = s.desired /\ a.verified = s.verified /\ a.failure = s.failure
          /\ s.observed = "Paused" => a.observed = "Paused" /\ a.resume = "Acting"
          /\ s.observed # "Paused" => a.observed = "Acting"
      <3>1. CASE s.observed = "Paused"
        BY <1>1, <1>2, <2>4, <3>1, Zenon DEF RunStates
      <3>2. CASE s.observed # "Paused"
        BY <1>1, <1>2, <2>4, <3>2, Zenon DEF RunStates
      <3>. QED
        BY <3>1, <3>2
    <2>6. e.tool \in Optional(Outputs)
      BY DEF Events
    <2>. HIDE DEF r
    <2>7. /\ r \in RunStates /\ r.exists = a.exists /\ r.pendType = a.pendType
          /\ r.desired = a.desired /\ r.verified = a.verified /\ r.failure = a.failure
          /\ r.observed = a.observed /\ r.resume = a.resume /\ r.pend = NoAction
      BY <1>2, <2>1, <2>5, <2>6, Zenon DEF RunStates
    <2>8. LogicalState(s) = "Reasoning" /\ LogicalState(r) = "Acting"
      BY <2>1, <2>5, <2>7 DEF LogicalState
    <2>. QED
      BY <1>1, <1>4, <2>1, <2>5, <2>7, <2>8, ZenonT(30) DEF Same, Closed
  <1>5. ASSUME e.type = "ToolCallFailed"
        PROVE  /\ Same(s, r) /\ Closed(s, r, e) /\ r.observed = s.observed
               /\ r.observed = "Paused" => r.resume = "Reasoning"
    <2>1. /\ At("Reasoning") /\ s.pend = e.act /\ e.act # NoAction
          /\ r = [s EXCEPT !.pend = NoAction, !.failure = e.reason]
          /\ e.reason # ""
      BY <1>1, <1>3, <1>5
      DEF ApplyLegacyEvent, ApplyToolCallFailed, RequirePendingAction
    <2>2. e.reason \in Optional({"reasoner"})
      BY DEF Events
    <2>. HIDE DEF r
    <2>3. /\ r \in RunStates /\ r.exists = s.exists /\ r.pendType = s.pendType
          /\ r.desired = s.desired /\ r.verified = s.verified /\ r.failure = e.reason
          /\ r.observed = s.observed /\ r.resume = s.resume /\ r.pend = NoAction
      BY <1>1, <1>2, <2>1, <2>2 DEF RunStates
    <2>4. Failing(r)
      BY <2>1, <2>3 DEF Failing
    <2>5. LogicalState(s) = "Reasoning" /\ LogicalState(r) = "Reasoning"
      BY <2>1, <2>3 DEF LogicalState
    <2>6. Same(s, r)
      BY <2>3 DEF Same
    <2>. QED
      BY <1>5, <2>1, <2>3, <2>4, <2>5, <2>6 DEF Closed
  <1>6. ASSUME e.type = "VerificationPassed"
        PROVE  /\ Same(s, r) /\ Closed(s, r, e) /\ r.observed = s.observed
               /\ r.observed = "Paused" => r.resume = "Verifying"
    <2>1. /\ At("Verifying") /\ s.pend = e.act /\ e.act # NoAction
          /\ r = [s EXCEPT !.pend = NoAction, !.verified = TRUE]
      BY <1>1, <1>3, <1>6
      DEF ApplyLegacyEvent, ApplyVerificationPassed, RequirePendingAction
    <2>. HIDE DEF r
    <2>2. /\ r \in RunStates /\ r.exists = s.exists /\ r.pendType = s.pendType
          /\ r.desired = s.desired /\ r.verified /\ r.failure = s.failure
          /\ r.observed = s.observed /\ r.resume = s.resume /\ r.pend = NoAction
      BY <1>1, <1>2, <2>1, ZenonT(30) DEF RunStates
    <2>3. LogicalState(s) = "Verifying" /\ LogicalState(r) = "Verifying"
      BY <2>1, <2>2 DEF LogicalState
    <2>. QED
      BY <1>6, <2>1, <2>2, <2>3 DEF Same, Closed
  <1>7. /\ Same(s, r) /\ Closed(s, r, e)
        /\ r.observed = "Paused" => r.resume \in {"Acting", "Reasoning", "Verifying"}
    BY <1>4, <1>5, <1>6
  <1>8. Unleased(r)
    BY <1>1, <1>7, StillUnleased DEF Same
  <1>. HIDE DEF r
  <1>9. RunInv(r)
    BY <1>1, <1>7, <1>8 DEF Same, Closed, RunInv, Terminal
  <1>. QED
    BY <1>7, <1>9 DEF r

(* The end of the Run drops whatever was pending.                          *)
LEMMA FailEffect ==
  ASSUME NEW s, NEW e \in Events, RunInv(s), ApplyEvent(s, e).exists,
         e.type = "RunFailed", e.reason # "" => Failing(s)
  PROVE  LET r == ApplyEvent(s, e)
         IN  /\ RunInv(r) /\ s.desired = "Running" /\ r.desired = s.desired
             /\ s.observed # "Paused" /\ ~Terminal(s.observed)
             /\ r.observed = "Failed" /\ r.pend = NoAction
             /\ Failing(s) /\ Failing(r) /\ r.verified = s.verified
  <1>. DEFINE r == ApplyEvent(s, e)
              reason == IF e.reason # "" THEN e.reason ELSE s.failure
  <1>1. /\ ~Rejected.exists /\ s \in RunStates /\ s.exists /\ Unleased(s)
        /\ r = ApplyLegacyEvent(s, e) /\ ~Terminal(s.observed)
        /\ s.desired = "Running" => s.observed # "Paused"
    BY Dispatch DEF LegacyLifecycleResultEvents, RunInv
  <1>2. NoAction \in ActionIds /\ "Failed" \in Optional(Statuses)
    <2>1. "" \in Optional(CommandTypes)
      BY DEF Optional
    <2>. QED
      BY <2>1, StatusNames DEF NoAction, ActionIds, Statuses
  <1>3. /\ s.desired = "Running" /\ reason # ""
        /\ r = [s EXCEPT !.observed = "Failed", !.failure = reason, !.pend = NoAction]
    BY <1>1 DEF ApplyLegacyEvent, ApplyRunFailed
  <1>4. Failing(s) /\ reason \in Optional({"reasoner"})
    BY <1>1, <1>3 DEF Failing, Events, RunStates
  <1>. HIDE DEF r, reason
  <1>5. /\ Same(s, r) /\ r.observed = "Failed" /\ r.pend = NoAction
        /\ r.verified = s.verified /\ r.failure = reason
    BY <1>1, <1>2, <1>3, <1>4 DEF Same, RunStates
  <1>6. Unleased(r) /\ Failing(r)
    BY <1>1, <1>3, <1>5, StillUnleased DEF Same, Failing
  <1>7. RunInv(r)
    BY <1>1, <1>5, <1>6 DEF Same, RunInv
  <1>. QED
    BY <1>1, <1>3, <1>4, <1>5, <1>6, <1>7 DEF Same, r

LEMMA CancelEffect ==
  ASSUME NEW s, NEW e \in Events, RunInv(s), ApplyEvent(s, e).exists,
         e.type = "RunCancelled"
  PROVE  LET r == ApplyEvent(s, e)
         IN  /\ RunInv(r) /\ s.desired = "Cancelled" /\ r.desired = s.desired
             /\ ~Terminal(LogicalState(s))
             /\ r.observed = "Cancelled" /\ r.pend = NoAction
             /\ r.failure = s.failure /\ r.verified = s.verified
  <1>. DEFINE r == ApplyEvent(s, e)
  <1>1. /\ ~Rejected.exists /\ s \in RunStates /\ s.exists /\ Unleased(s)
        /\ r = ApplyLegacyEvent(s, e) /\ ~Terminal(LogicalState(s))
    BY Dispatch DEF LegacyLifecycleResultEvents, RunInv, LogicalState
  <1>2. NoAction \in ActionIds /\ "Cancelled" \in Optional(Statuses)
    <2>1. "" \in Optional(CommandTypes)
      BY DEF Optional
    <2>. QED
      BY <2>1, StatusNames DEF NoAction, ActionIds, Statuses
  <1>3. /\ s.desired = "Cancelled"
        /\ r = [s EXCEPT !.observed = "Cancelled", !.pend = NoAction]
    BY <1>1 DEF ApplyLegacyEvent, ApplyRunCancelled
  <1>. HIDE DEF r
  <1>4. /\ Same(s, r) /\ r.observed = "Cancelled" /\ r.pend = NoAction
        /\ r.verified = s.verified /\ r.failure = s.failure
    BY <1>1, <1>2, <1>3, Zenon DEF Same, RunStates
  <1>5. Unleased(r)
    BY <1>1, <1>4, StillUnleased DEF Same
  <1>6. RunInv(r)
    BY <1>1, <1>4, <1>5 DEF Same, RunInv
  <1>. QED
    BY <1>1, <1>3, <1>4, <1>6 DEF Same, r

(* An intent moves no work.                                                *)
Intended(s, r) ==
  /\ LogicalState(r) = LogicalState(s)
  /\ r.pend = s.pend /\ r.verified = s.verified /\ r.failure = s.failure
  /\ \/ /\ s.desired = "Running" /\ r.desired = "Paused"
        /\ s.observed # "Paused" /\ r.observed = "Paused"
     \/ /\ s.desired = "Paused" /\ r.desired = "Running"
        /\ s.observed = "Paused" /\ r.observed # "Paused"
     \/ /\ s.desired # "Cancelled" /\ r.desired = "Cancelled"
        /\ r.observed = s.observed

LEMMA IntentEffect ==
  ASSUME NEW s, NEW e \in Events, RunInv(s), ApplyEvent(s, e).exists,
         e.type = "DesiredStateChanged"
  PROVE  RunInv(ApplyEvent(s, e)) /\ Intended(s, ApplyEvent(s, e))
  <1>. DEFINE r == ApplyEvent(s, e)
  <1>1. /\ ~Rejected.exists /\ s \in RunStates /\ s.exists /\ Unleased(s)
        /\ r = ApplyDesiredState(s, e.desired) /\ ~Terminal(s.observed)
    BY Dispatch DEF OperatorEvents, RunInv
  <1>2. r \in {PauseIntent(s), ResumeIntent(s), CancelIntent(s)} \ {Rejected}
    BY <1>1 DEF ApplyDesiredState
  <1>3. /\ "Paused" \in Optional(Statuses) /\ "" \in Optional(Statuses)
        /\ \A d \in DesiredStates : d \in Optional(DesiredStates)
    BY StatusNames, OptionalMember DEF Statuses, Optional
  <1>. DEFINE Kept == /\ r \in RunStates /\ r.exists = s.exists /\ r.pendType = s.pendType
                      /\ r.pend = s.pend /\ r.verified = s.verified /\ r.failure = s.failure
  <1>. SUFFICES RunInv(r) /\ Intended(s, r)
    OBVIOUS
  <1>4. ASSUME Unleased(r), Kept, Intended(s, r),
               r.desired = "Running" => r.observed # "Paused",
               r.observed = "Paused" => r.resume # "Paused" /\ ~Terminal(r.resume)
        PROVE  RunInv(r) /\ Intended(s, r)
    BY <1>1, <1>4 DEF RunInv, Intended
  <1>5. CASE r = PauseIntent(s)
    <2>1. /\ s.desired = "Running" /\ ValidateTransition(s.observed, "Paused")
          /\ r = [s EXCEPT !.resume = s.observed, !.observed = "Paused", !.desired = "Paused"]
      BY <1>2, <1>5 DEF PauseIntent
    <2>2. s.observed # "Paused"
      BY <2>1 DEF ValidateTransition, Successors
    <2>3. "Paused" \in Optional(DesiredStates)
      BY <1>3 DEF DesiredStates
    <2>. HIDE DEF r
    <2>4. Kept /\ r.observed = "Paused" /\ r.resume = s.observed /\ r.desired = "Paused"
      BY <1>1, <1>3, <2>1, <2>3 DEF RunStates
    <2>5. Unleased(r)
      BY <1>1, <2>4, StillUnleased
    <2>6. LogicalState(r) = LogicalState(s)
      BY <2>2, <2>4 DEF LogicalState
    <2>7. Intended(s, r)
      BY <2>1, <2>2, <2>4, <2>6 DEF Intended
    <2>. QED
      BY <1>1, <1>4, <2>2, <2>4, <2>5, <2>7
  <1>6. CASE r = ResumeIntent(s)
    <2>1. /\ s.desired = "Paused" /\ s.observed = "Paused"
          /\ r = [s EXCEPT !.observed = s.resume, !.resume = "", !.desired = "Running"]
      BY <1>2, <1>6 DEF ResumeIntent
    <2>2. s.resume # "Paused"
      BY <2>1 DEF RunInv
    <2>3. "Running" \in Optional(DesiredStates)
      BY <1>3 DEF DesiredStates
    <2>. HIDE DEF r
    <2>4. Kept /\ r.observed = s.resume /\ r.desired = "Running"
      BY <1>1, <1>3, <2>1, <2>3 DEF RunStates
    <2>5. Unleased(r)
      BY <1>1, <2>4, StillUnleased
    <2>6. LogicalState(r) = LogicalState(s)
      BY <2>1, <2>2, <2>4 DEF LogicalState
    <2>7. Intended(s, r)
      BY <2>1, <2>2, <2>4, <2>6 DEF Intended
    <2>. QED
      BY <1>4, <2>2, <2>4, <2>5, <2>7
  <1>7. CASE r = CancelIntent(s)
    <2>1. s.desired # "Cancelled" /\ r = [s EXCEPT !.desired = "Cancelled"]
      BY <1>2, <1>7 DEF CancelIntent
    <2>2. "Cancelled" \in Optional(DesiredStates)
      BY <1>3 DEF DesiredStates
    <2>. HIDE DEF r
    <2>3. Kept /\ r.observed = s.observed /\ r.resume = s.resume /\ r.desired = "Cancelled"
      BY <1>1, <2>1, <2>2, Zenon DEF RunStates
    <2>4. Unleased(r)
      BY <1>1, <2>3, StillUnleased
    <2>5. LogicalState(r) = LogicalState(s)
      BY <2>3 DEF LogicalState
    <2>6. Intended(s, r)
      BY <2>1, <2>3, <2>5 DEF Intended
    <2>. QED
      BY <1>4, <2>3, <2>4, <2>6 DEF RunInv
  <1>. QED
    BY <1>2, <1>5, <1>6, <1>7

-----------------------------------------------------------------------------
(* What a caller appends.                                                  *)

LEMMA CommandShape ==
  ASSUME NEW s \in RunStates, NEW type \in CommandTypes
  PROVE  /\ CommandFor(s, type) \in Commands
         /\ CommandFor(s, type).type = type
         /\ ActionType(CommandFor(s, type).act) = type
  <1>1. type \in Optional(CommandTypes) /\ s.attempt \in Nat /\ s.aid \in Nat
    BY OptionalMember DEF RunStates
  <1>2. <<type, s.attempt, s.aid>> \in ActionIds /\ ActionType(<<type, s.attempt, s.aid>>) = type
    BY <1>1 DEF ActionIds, ActionType
  <1>3. CommandFor(s, type) = [type |-> type, act |-> <<type, s.attempt, s.aid>>, aid |-> s.aid]
    BY DEF CommandFor
  <1>. DEFINE act == <<type, s.attempt, s.aid>>
  <1>4. CommandFor(s, type) = [type |-> type, act |-> act, aid |-> s.aid]
    BY <1>3
  <1>5. act \in ActionIds /\ ActionType(act) = type
    BY <1>2
  <1>. HIDE DEF act
  <1>. QED
    BY <1>1, <1>4, <1>5 DEF Commands

(* Decide names every command by its action, pending actions included.     *)
LEMMA DecideShape ==
  ASSUME NEW s, RunInv(s)
  PROVE  /\ Decide(s) \in Commands
         /\ Decide(s).type # "Noop" =>
              Decide(s).type \in CommandTypes /\ ActionType(Decide(s).act) = Decide(s).type
  <1>. DEFINE Good(command) ==
         /\ command \in Commands
         /\ command.type # "Noop" =>
              command.type \in CommandTypes /\ ActionType(command.act) = command.type
  <1>1. s \in RunStates /\ s.attempt \in Nat /\ s.pend \in ActionIds
    BY DEF RunInv, RunStates
  <1>2. \A type \in CommandTypes : Good(CommandFor(s, type))
    BY <1>1, CommandShape
  <1>3. Good(Noop)
    <2>1. NoAction \in ActionIds
      <3>1. "" \in Optional(CommandTypes)
        BY DEF Optional
      <3>. QED
        BY <3>1 DEF NoAction, ActionIds
    <2>. QED
      BY <2>1 DEF Noop, Commands
  <1>4. Good([CommandFor(s, "StartAttempt") EXCEPT !.aid = s.attempt + 1])
    <2>. DEFINE command == CommandFor(s, "StartAttempt")
    <2>1. /\ command \in Commands /\ command.type = "StartAttempt"
          /\ ActionType(command.act) = "StartAttempt"
          /\ "StartAttempt" \in CommandTypes /\ s.attempt + 1 \in Nat
      BY <1>1, CommandShape DEF CommandTypes
    <2>. HIDE DEF command
    <2>2. /\ [command EXCEPT !.aid = s.attempt + 1] \in Commands
          /\ [command EXCEPT !.aid = s.attempt + 1].type = command.type
          /\ [command EXCEPT !.aid = s.attempt + 1].act = command.act
      BY <2>1 DEF Commands
    <2>3. Good([command EXCEPT !.aid = s.attempt + 1])
      BY <2>1, <2>2
    <2>. QED
      BY <2>3 DEF command
  <1>5. ASSUME NEW stage \in {"Reasoning", "Verifying"}, s.observed = stage
        PROVE  Good(SameIfPending(s, CommandFor(s, OpenAt(stage))))
    <2>. DEFINE command == CommandFor(s, OpenAt(stage))
    <2>1. OpenAt(stage) \in CommandTypes
      BY DEF OpenAt, CommandTypes
    <2>2. command \in Commands /\ command.type = OpenAt(stage) /\ Good(command)
      BY <1>1, <1>2, <2>1, CommandShape
    <2>3. s.pend # NoAction => ActionType(s.pend) = OpenAt(stage)
      BY <1>5 DEF RunInv, LogicalState
    <2>. HIDE DEF command
    <2>4. /\ [command EXCEPT !.act = s.pend] \in Commands
          /\ [command EXCEPT !.act = s.pend].type = command.type
          /\ [command EXCEPT !.act = s.pend].act = s.pend
      BY <1>1, <2>2 DEF Commands
    <2>5. Good(SameIfPending(s, command))
      <3>1. CASE s.pend = NoAction
        BY <2>2, <3>1 DEF SameIfPending
      <3>2. CASE s.pend # NoAction
        <4>1. SameIfPending(s, command) = [command EXCEPT !.act = s.pend]
          BY <3>2 DEF SameIfPending
        <4>2. Good([command EXCEPT !.act = s.pend])
          BY <2>1, <2>2, <2>3, <2>4, <3>2
        <4>. QED
          BY <4>1, <4>2
      <3>. QED
        BY <3>1, <3>2
    <2>. QED
      BY <2>5 DEF command
  <1>6. Good(DecideByStatus(s))
    <2>. HIDE DEF Good
    <2>1. CASE s.observed = "Queued"
      BY <1>4, <2>1 DEF DecideByStatus
    <2>2. CASE s.observed = "Provisioning"
      BY <1>2, <2>2 DEF DecideByStatus, CommandTypes
    <2>3. CASE s.observed = "Reasoning"
      BY <1>5, <2>3 DEF DecideByStatus, OpenAt
    <2>4. CASE s.observed = "Acting"
      BY <1>2, <2>4 DEF DecideByStatus, CommandTypes
    <2>5. CASE s.observed = "Verifying"
      BY <1>2, <1>5, <2>5 DEF DecideByStatus, CommandTypes, OpenAt
    <2>6. CASE s.observed \notin {"Queued", "Provisioning", "Reasoning", "Acting", "Verifying"}
      BY <1>3, <2>6 DEF DecideByStatus
    <2>. QED
      BY <2>1, <2>2, <2>3, <2>4, <2>5, <2>6
  <1>7. Good(Decide(s))
    <2>. HIDE DEF Good
    <2>. QED
      BY <1>2, <1>3, <1>6 DEF Decide, CommandTypes
  <1>. QED
    BY <1>7

Keys == ActionIds \X (EventTypes \cup DesiredStates \cup {"run-created"}) \X Nat

LEMMA EventShape ==
  ASSUME NEW type \in EventTypes, NEW key \in Keys
  PROVE  LET e == Event(type, key, NoCaller, 0)
         IN  /\ e \in Events /\ e.type = type /\ e.key = key
             /\ e.reason = "" /\ e.act = NoAction
  <1>1. \A S : "" \in Optional(S)
    BY DEF Optional
  <1>2. NoAction \in ActionIds
    BY <1>1 DEF NoAction, ActionIds
  <1>3. 0 \in Nat
    OBVIOUS
  <1>4. Event(type, key, NoCaller, 0) \in Events
    BY <1>1, <1>2, <1>3 DEF Event, Events, Keys
  <1>. QED
    BY <1>4 DEF Event

(* The events of caller c are typed and named by its command.              *)
Fact(e, c, type) ==
  /\ e \in Events /\ e.type = type /\ e.act = task[c].cmd.act
  /\ e.key = <<task[c].cmd.act, type, 0>>

LEMMA FactShape ==
  ASSUME NEW c, task[c] \in Tasks, NEW type \in LegacyLifecycleResultEvents
  PROVE  Fact(LegacyEvent(c, type), c, type) /\ LegacyEvent(c, type).reason = ""
  <1>. DEFINE act == task[c].cmd.act
              key == <<act, type, 0>>
              e == Event(type, key, NoCaller, 0)
  <1>1. act \in ActionIds
    BY DEF Tasks, Commands
  <1>2. type \in EventTypes
    BY DEF EventTypes
  <1>3. key \in Keys
    BY <1>1, <1>2 DEF Keys
  <1>4. e \in Events /\ e.type = type /\ e.key = key /\ e.reason = ""
    BY <1>2, <1>3, EventShape
  <1>5. LegacyEvent(c, type) = [e EXCEPT !.act = act]
    BY DEF LegacyEvent
  <1>. DEFINE f == [e EXCEPT !.act = act]
  <1>. HIDE DEF e, act, key
  <1>6. f \in Events /\ f.type = type /\ f.key = key /\ f.act = act /\ f.reason = e.reason
    BY <1>1, <1>4 DEF Events
  <1>. HIDE DEF f
  <1>7. f \in Events /\ f.type = type /\ f.key = key /\ f.act = act /\ f.reason = ""
    BY <1>4, <1>6
  <1>. QED
    BY <1>5, <1>7 DEF Fact, f, act, key

(* What Append is given.                                                   *)
ReasonKnown(e) == e.reason # "" => Failing(st)

GoodEvent(e) ==
  /\ e \in Events /\ Named(e)
  /\ e.type \in LegacyLifecycleResultEvents \cup OperatorEvents
  /\ e.type \in LegacyLifecycleResultEvents => e.key = <<e.act, e.type, 0>>
  /\ e.type = "RunFailed" => ReasonKnown(e)

LEMMA PlanEventShape ==
  ASSUME NEW c \in Callers, TypeOK, CallersPrepared, pc[c] = "plan"
  PROVE  GoodEvent(PlanEvent(c)) /\ IsPlan(PlanEvent(c))
  <1>1. /\ task[c] \in Tasks /\ task[c].cmd.type \in {"RunReasoner", "Verify"}
        /\ ActionType(task[c].cmd.act) = task[c].cmd.type
    BY DEF TypeOK, CallersPrepared, Prepared, PlansFirst
  <1>2. CASE task[c].cmd.type = "Verify"
    <2>1. PlanEvent(c) = LegacyEvent(c, "VerificationPlanned")
      BY <1>2 DEF PlanEvent
    <2>2. "VerificationPlanned" \in LegacyLifecycleResultEvents
      BY DEF LegacyLifecycleResultEvents
    <2>3. Fact(PlanEvent(c), c, "VerificationPlanned")
      BY <1>1, <2>1, <2>2, FactShape
    <2>. QED
      BY <1>1, <1>2, <2>2, <2>3 DEF Fact, GoodEvent, Named, IsPlan
  <1>3. CASE task[c].cmd.type = "RunReasoner"
    <2>1. PlanEvent(c) = LegacyEvent(c, "ReasoningPlanned")
      BY <1>3 DEF PlanEvent
    <2>2. "ReasoningPlanned" \in LegacyLifecycleResultEvents
      BY DEF LegacyLifecycleResultEvents
    <2>3. Fact(PlanEvent(c), c, "ReasoningPlanned")
      BY <1>1, <2>1, <2>2, FactShape
    <2>. QED
      BY <1>1, <1>3, <2>2, <2>3 DEF Fact, GoodEvent, Named, IsPlan
  <1>. QED
    BY <1>1, <1>2, <1>3

LEMMA ResultEventShape ==
  ASSUME NEW c \in Callers, TypeOK, CallersPrepared, pc[c] = "result"
  PROVE  GoodEvent(ResultEvent(c))
  <1>. DEFINE type == task[c].cmd.type
              e == ResultEvent(c)
  <1>1. /\ task[c] \in Tasks /\ type \in CommandTypes
        /\ ActionType(task[c].cmd.act) = type
        /\ Failing(task[c].view) => Failing(st)
    BY DEF TypeOK, CallersPrepared, Prepared
  <1>2. /\ task[c].cmd.aid \in Nat /\ task[c].tool \in Optional(Outputs)
        /\ task[c].fault \in Optional({"reasoner"})
        /\ task[c].view.failure \in Optional({"reasoner"})
    BY <1>1 DEF Tasks, Commands, RunStates
  <1>3. \A t \in LegacyLifecycleResultEvents : Fact(LegacyEvent(c, t), c, t)
    BY <1>1, FactShape
  <1>4. ASSUME NEW t \in LegacyLifecycleResultEvents, Fact(e, c, t),
               t \in {"ReasoningPlanned", "ReasoningCompleted", "ToolCallFailed"} =>
                 type = "RunReasoner",
               t \in {"VerificationPlanned", "VerificationPassed"} => type = "Verify",
               t = "RunFailed" => ReasonKnown(e)
        PROVE  GoodEvent(e)
    BY <1>1, <1>4 DEF Fact, GoodEvent, Named
  <1>5. ASSUME NEW f \in Events, NEW t, Fact(f, c, t)
        PROVE  /\ \A n \in Nat : Fact([f EXCEPT !.aid = n], c, t)
               /\ \A x \in Optional(Outputs) : Fact([f EXCEPT !.tool = x], c, t)
               /\ \A x \in Optional({"reasoner"}) :
                    Fact([f EXCEPT !.reason = x], c, t) /\ [f EXCEPT !.reason = x].reason = x
    <2>1. \A n \in Nat : /\ [f EXCEPT !.aid = n] \in Events
                         /\ [f EXCEPT !.aid = n].type = f.type
                         /\ [f EXCEPT !.aid = n].act = f.act
                         /\ [f EXCEPT !.aid = n].key = f.key
      BY <1>5 DEF Events
    <2>2. \A x \in Optional(Outputs) : /\ [f EXCEPT !.tool = x] \in Events
                                       /\ [f EXCEPT !.tool = x].type = f.type
                                       /\ [f EXCEPT !.tool = x].act = f.act
                                       /\ [f EXCEPT !.tool = x].key = f.key
      BY <1>5 DEF Events
    <2>3. \A x \in Optional({"reasoner"}) : /\ [f EXCEPT !.reason = x] \in Events
                                            /\ [f EXCEPT !.reason = x].type = f.type
                                            /\ [f EXCEPT !.reason = x].act = f.act
                                            /\ [f EXCEPT !.reason = x].key = f.key
                                            /\ [f EXCEPT !.reason = x].reason = x
      BY <1>5 DEF Events
    <2>. QED
      BY <1>5, <2>1, <2>2, <2>3 DEF Fact
  <1>6. \A t \in LegacyLifecycleResultEvents : LegacyEvent(c, t) \in Events
    BY <1>3 DEF Fact
  <1>. DEFINE Legacy == LegacyLifecycleResultEvents
  <1>7. CASE type = "StartAttempt"
    <2>1. e = [LegacyEvent(c, "AttemptStarted") EXCEPT !.aid = task[c].cmd.aid]
      BY <1>7 DEF ResultEvent
    <2>2. "AttemptStarted" \in Legacy
      BY DEF LegacyLifecycleResultEvents
    <2>3. Fact(e, c, "AttemptStarted")
      BY <1>2, <1>3, <1>5, <1>6, <2>1, <2>2
    <2>. QED
      BY <1>4, <2>2, <2>3
  <1>8. CASE type = "ProvisionWorkspace"
    <2>1. e = LegacyEvent(c, "WorkspaceProvisioned") /\ "WorkspaceProvisioned" \in Legacy
      BY <1>8 DEF ResultEvent, LegacyLifecycleResultEvents
    <2>. QED
      BY <1>3, <1>4, <2>1
  <1>9. CASE type = "RunReasoner"
    <2>1. \/ e = [LegacyEvent(c, "ToolCallFailed") EXCEPT !.reason = task[c].fault]
          \/ e = [LegacyEvent(c, "ReasoningCompleted") EXCEPT !.tool = task[c].tool]
      BY <1>9 DEF ResultEvent
    <2>2. "ToolCallFailed" \in Legacy /\ "ReasoningCompleted" \in Legacy
      BY DEF LegacyLifecycleResultEvents
    <2>3. Fact(e, c, "ToolCallFailed") \/ Fact(e, c, "ReasoningCompleted")
      BY <1>2, <1>3, <1>5, <1>6, <2>1, <2>2
    <2>. QED
      BY <1>4, <1>9, <2>2, <2>3
  <1>10. CASE type = "ApplyPatch"
    <2>1. e = LegacyEvent(c, "PatchProduced") /\ "PatchProduced" \in Legacy
      BY <1>10 DEF ResultEvent, LegacyLifecycleResultEvents
    <2>. QED
      BY <1>3, <1>4, <2>1
  <1>11. CASE type = "Verify"
    <2>1. e = LegacyEvent(c, "VerificationPassed") /\ "VerificationPassed" \in Legacy
      BY <1>11 DEF ResultEvent, LegacyLifecycleResultEvents
    <2>. QED
      BY <1>3, <1>4, <1>11, <2>1
  <1>12. CASE type = "SucceedRun"
    <2>1. e = LegacyEvent(c, "RunSucceeded") /\ "RunSucceeded" \in Legacy
      BY <1>12 DEF ResultEvent, LegacyLifecycleResultEvents
    <2>. QED
      BY <1>3, <1>4, <2>1
  <1>13. CASE type = "FailRun"
    <2>1. e = [LegacyEvent(c, "RunFailed") EXCEPT !.reason = task[c].view.failure]
      BY <1>13 DEF ResultEvent
    <2>2. "RunFailed" \in Legacy
      BY DEF LegacyLifecycleResultEvents
    <2>3. Fact(e, c, "RunFailed") /\ e.reason = task[c].view.failure
      BY <1>2, <1>3, <1>5, <1>6, <2>1, <2>2
    <2>4. ReasonKnown(e)
      BY <1>1, <2>3 DEF ReasonKnown, Failing
    <2>. QED
      BY <1>4, <2>2, <2>3, <2>4
  <1>14. CASE type = "CancelRun"
    <2>1. e = LegacyEvent(c, "RunCancelled") /\ "RunCancelled" \in Legacy
      BY <1>14 DEF ResultEvent, LegacyLifecycleResultEvents
    <2>. QED
      BY <1>3, <1>4, <2>1
  <1>. QED
    BY <1>1, <1>7, <1>8, <1>9, <1>10, <1>11, <1>12, <1>13, <1>14 DEF CommandTypes

LEMMA DesiredEventShape ==
  ASSUME TypeOK, NEW d \in Intents
  PROVE  GoodEvent(DesiredEvent(d)) /\ DesiredEvent(d).type = "DesiredStateChanged"
  <1>. DEFINE key == <<NoAction, d, Len(log)>>
              e == Event("DesiredStateChanged", key, NoCaller, 0)
  <1>1. d \in DesiredStates /\ Len(log) \in Nat
    <2>1. d \in DesiredStates
      BY LegacyAssumption
    <2>2. Len(log) \in Nat
      BY DEF TypeOK
    <2>. QED
      BY <2>1, <2>2
  <1>2. NoAction \in ActionIds
    <2>1. "" \in Optional(CommandTypes)
      BY DEF Optional
    <2>. QED
      BY <2>1 DEF NoAction, ActionIds
  <1>3. key \in Keys /\ "DesiredStateChanged" \in EventTypes
    BY <1>1, <1>2 DEF Keys, EventTypes
  <1>4. e \in Events /\ e.type = "DesiredStateChanged"
    BY <1>3, EventShape
  <1>5. d \in Optional(DesiredStates)
    BY <1>1, OptionalMember
  <1>6. DesiredEvent(d) = [e EXCEPT !.desired = d]
    BY DEF DesiredEvent
  <1>. DEFINE f == [e EXCEPT !.desired = d]
  <1>. HIDE DEF e
  <1>7. f \in Events /\ f.type = "DesiredStateChanged"
    BY <1>4, <1>5 DEF Events
  <1>. HIDE DEF f
  <1>8. GoodEvent(f)
    BY <1>7 DEF GoodEvent, Named, OperatorEvents, LegacyLifecycleResultEvents
  <1>. QED
    BY <1>6, <1>7, <1>8 DEF f

-----------------------------------------------------------------------------
(* What a step does to the store.                                          *)

Appends(e) ==
  /\ GoodEvent(e)
  /\ log' = Append(log, e)
  /\ st' = ApplyEvent(st, e) /\ ApplyEvent(st, e).exists
  /\ \A i \in DOMAIN log : log[i].key # e.key
  /\ managed => e.type \in OperatorEvents

LEMMA CommitStep ==
  ASSUME NEW e, GoodEvent(e), NEW version, Commit(e, AppendOutcome(e, version))
  PROVE  UNCHANGED store \/ Appends(e)
  <1>1. CASE AppendOutcome(e, version) # "appended"
    BY <1>1 DEF Commit
  <1>2. CASE AppendOutcome(e, version) = "appended"
    <2>1. log' = Append(log, e) /\ st' = ApplyEvent(st, e)
      BY <1>2 DEF Commit
    <2>2. /\ ApplyEvent(st, e).exists
          /\ \A i \in DOMAIN log : log[i].key # e.key
          /\ managed => e.type = "DesiredStateChanged"
      BY <1>2 DEF AppendOutcome
    <2>. QED
      BY <2>1, <2>2 DEF Appends, OperatorEvents
  <1>. QED
    BY <1>1, <1>2

LEMMA StoreStep ==
  ASSUME TypeOK, CallersPrepared, [Next]_vars
  PROVE  UNCHANGED store \/ \E e : Appends(e)
  <1>1. ASSUME NEW c \in Callers, Plan(c) PROVE UNCHANGED store \/ \E e : Appends(e)
    <2>1. GoodEvent(PlanEvent(c))
      BY <1>1, PlanEventShape DEF Plan
    <2>2. Commit(PlanEvent(c), AppendOutcome(PlanEvent(c), task[c].ver))
      BY <1>1 DEF Plan, AppendEvent
    <2>. QED
      BY <2>1, <2>2, CommitStep
  <1>2. ASSUME NEW c \in Callers, Result(c) PROVE UNCHANGED store \/ \E e : Appends(e)
    <2>1. GoodEvent(ResultEvent(c))
      BY <1>2, ResultEventShape DEF Result
    <2>2. Commit(ResultEvent(c), AppendOutcome(ResultEvent(c), task[c].ver))
      BY <1>2 DEF Result, AppendEvent
    <2>. QED
      BY <2>1, <2>2, CommitStep
  <1>3. ASSUME NEW d \in Intents, SetDesiredState(d)
        PROVE  UNCHANGED store \/ \E e : Appends(e)
    <2>1. GoodEvent(DesiredEvent(d))
      BY DesiredEventShape
    <2>2. Commit(DesiredEvent(d), AppendOutcome(DesiredEvent(d), Len(log)))
      BY <1>3 DEF SetDesiredState
    <2>. QED
      BY <2>1, <2>2, CommitStep
  <1>4. ASSUME NEW c \in Callers,
               Load(c) \/ Inspect(c) \/ Refresh(c) \/ Reason(c) \/ Crash(c)
        PROVE  UNCHANGED store
    BY <1>4 DEF Load, Inspect, Refresh, Reason, Crash, store
  <1>5. CASE Acquire \/ UNCHANGED vars
    BY <1>5 DEF Acquire, vars, store
  <1>. QED
    BY <1>1, <1>2, <1>3, <1>4, <1>5 DEF Next, CallerStep

LEMMA AppendedLog ==
  ASSUME log \in Seq(Events), NEW e \in Events, log' = Append(log, e)
  PROVE  /\ log' \in Seq(Events)
         /\ Len(log') = Len(log) + 1 /\ Len(log) \in Nat
         /\ DOMAIN log = 1 .. Len(log) /\ DOMAIN log' = 1 .. Len(log) + 1
         /\ \A i \in DOMAIN log : log'[i] = log[i]
         /\ log'[Len(log) + 1] = e
  OBVIOUS

(* The effect of the appended event on the projection.                     *)
LEMMA EventKeeps ==
  ASSUME NEW e, Appends(e), RunInv(st)
  PROVE  RunInv(st') /\ (Failing(st) => Failing(st'))
  <1>1. /\ e \in Events /\ Named(e) /\ st' = ApplyEvent(st, e) /\ ApplyEvent(st, e).exists
        /\ e.type \in LegacyLifecycleResultEvents \cup OperatorEvents
        /\ e.type = "RunFailed" => ReasonKnown(e)
    BY DEF Appends, GoodEvent
  <1>2. CASE e.type \in {"AttemptStarted", "WorkspaceProvisioned", "PatchProduced", "RunSucceeded"}
    BY <1>1, <1>2, AdvanceEffect, SameFailing DEF Advanced
  <1>3. CASE e.type \in {"ReasoningPlanned", "VerificationPlanned"}
    BY <1>1, <1>3, PlanEffect, SameFailing DEF Opened
  <1>4. CASE e.type \in {"ReasoningCompleted", "ToolCallFailed", "VerificationPassed"}
    BY <1>1, <1>4, ResultEffect, SameFailing DEF Closed
  <1>5. CASE e.type = "RunFailed"
    BY <1>1, <1>5, FailEffect DEF ReasonKnown
  <1>6. CASE e.type = "RunCancelled"
    BY <1>1, <1>6, CancelEffect, SameFailing
  <1>7. CASE e.type = "DesiredStateChanged"
    BY <1>1, <1>7, IntentEffect, SameFailing DEF Intended
  <1>. QED
    BY <1>1, <1>2, <1>3, <1>4, <1>5, <1>6, <1>7
    DEF LegacyLifecycleResultEvents, OperatorEvents

-----------------------------------------------------------------------------
(* What a step does to the callers.                                        *)

LEMMA InitialStateType == InitialState \in RunStates /\ ~Failing(InitialState)
  <1>1. \A S : "" \in Optional(S)
    BY DEF Optional
  <1>2. NoAction \in ActionIds
    BY <1>1 DEF NoAction, ActionIds
  <1>3. 0 \in Nat
    OBVIOUS
  <1>4. InitialState \in RunStates
    BY <1>1, <1>2, <1>3 DEF InitialState, RunStates
  <1>. QED
    BY <1>4 DEF InitialState, Failing

LEMMA NoTaskType ==
  NoTask \in Tasks /\ NoTask.view = InitialState
  <1>1. \A S : "" \in Optional(S)
    BY DEF Optional
  <1>2. NoAction \in ActionIds
    BY <1>1 DEF NoAction, ActionIds
  <1>3. 0 \in Nat
    OBVIOUS
  <1>4. Noop \in Commands
    BY <1>2, <1>3 DEF Noop, Commands
  <1>5. NoTask \in Tasks
    BY <1>1, <1>3, <1>4, InitialStateType DEF NoTask, Tasks
  <1>. QED
    BY <1>5 DEF NoTask

CallersOK ==
  pc' \in [Callers -> Places] /\ task' \in [Callers -> Tasks] /\ CallersPrepared'

LEMMA MovesTo ==
  ASSUME TypeOK, CallersPrepared, Failing(st) => Failing(st'),
         NEW c \in Callers, NEW place \in Places, NEW t \in Tasks,
         pc' = [pc EXCEPT ![c] = place], task' = [task EXCEPT ![c] = t],
         Prepared(place, t), Failing(t.view) => Failing(st')
  PROVE  CallersOK
  <1>1. pc \in [Callers -> Places] /\ task \in [Callers -> Tasks]
    BY DEF TypeOK
  <1>2. pc' \in [Callers -> Places] /\ task' \in [Callers -> Tasks]
    BY <1>1
  <1>3. ASSUME NEW b \in Callers
        PROVE  Prepared(pc'[b], task'[b]) /\ (Failing(task'[b].view) => Failing(st'))
    <2>1. CASE b = c
      BY <1>1, <2>1
    <2>2. CASE b # c
      <3>1. pc'[b] = pc[b] /\ task'[b] = task[b]
        BY <1>1, <2>2
      <3>2. Prepared(pc[b], task[b]) /\ (Failing(task[b].view) => Failing(st))
        BY DEF CallersPrepared
      <3>. QED
        BY <3>1, <3>2
    <2>. QED
      BY <2>1, <2>2
  <1>. QED
    BY <1>2, <1>3 DEF CallersOK, CallersPrepared

LEMMA Returns ==
  ASSUME TypeOK, CallersPrepared, Failing(st) => Failing(st'), NEW c \in Callers,
         NEW place \in {"idle", "crashed"},
         pc' = [pc EXCEPT ![c] = place], task' = [task EXCEPT ![c] = NoTask]
  PROVE  CallersOK
  <1>1. NoTask \in Tasks /\ ~Failing(NoTask.view)
    BY NoTaskType, InitialStateType
  <1>2. place \in Places /\ Prepared(place, NoTask)
    BY DEF Places, Prepared
  <1>. QED
    BY <1>1, <1>2, MovesTo, Zenon

LEMMA AppendMoves ==
  ASSUME TypeOK, CallersPrepared, Failing(st) => Failing(st'), log' \in Seq(Events),
         NEW c \in Callers, pc[c] \in {"plan", "result"},
         NEW e, NEW next \in {"idle", "reason", "result"}, AppendEvent(c, e, next)
  PROVE  CallersOK
  <1>. DEFINE outcome == AppendOutcome(e, task[c].ver)
              t == task[c]
  <1>1. /\ t \in Tasks /\ Prepared(pc[c], t) /\ (Failing(t.view) => Failing(st'))
        /\ t.cmd.type \in CommandTypes /\ ActionType(t.cmd.act) = t.cmd.type
        /\ pc[c] = "plan" => PlansFirst(t.cmd.type)
        /\ pc \in [Callers -> Places] /\ task \in [Callers -> Tasks]
    BY DEF TypeOK, CallersPrepared, Prepared
  <1>2. Len(log') \in Nat /\ {"plan", "result", "reason", "refresh"} \subseteq Places
    BY DEF Places
  <1>3. \A x \in Places : x \in Optional(Places)
    BY OptionalMember
  <1>. HIDE DEF outcome
  <1>4. ASSUME NEW place \in {"reason", "result"},
               task' = [task EXCEPT ![c].ver = Len(log'), ![c].again = FALSE],
               pc' = [pc EXCEPT ![c] = place]
        PROVE  CallersOK
    <2>. DEFINE u == [t EXCEPT !.ver = Len(log'), !.again = FALSE]
    <2>1. task' = [task EXCEPT ![c] = u]
      BY <1>1, <1>4, Zenon
    <2>. HIDE DEF t
    <2>2. u \in Tasks /\ u.view = t.view /\ u.cmd = t.cmd
      BY <1>1, <1>2, Zenon DEF Tasks
    <2>. HIDE DEF u
    <2>3. Prepared(place, u)
      BY <1>1, <1>4, <2>2 DEF Prepared
    <2>4. place \in Places /\ (Failing(u.view) => Failing(st'))
      BY <1>1, <1>2, <1>4, <2>2
    <2>. QED
      BY <1>4, <2>1, <2>2, <2>3, <2>4, MovesTo, ZenonT(30)
  <1>5. ASSUME NEW to \in {"plan", "reason", "result"}, NEW again \in BOOLEAN,
               to = "plan" => pc[c] = "plan",
               task' = [task EXCEPT ![c].to = to, ![c].again = again],
               pc' = [pc EXCEPT ![c] = "refresh"]
        PROVE  CallersOK
    <2>. DEFINE u == [t EXCEPT !.to = to, !.again = again]
    <2>1. task' = [task EXCEPT ![c] = u]
      BY <1>1, <1>5, Zenon
    <2>2. to \in Optional(Places)
      BY <1>2, <1>3, <1>5
    <2>. HIDE DEF t
    <2>3. u \in Tasks /\ u.view = t.view /\ u.cmd = t.cmd /\ u.to = to
      BY <1>1, <1>5, <2>2, Zenon DEF Tasks
    <2>. HIDE DEF u
    <2>4. Prepared("refresh", u)
      BY <1>1, <1>5, <2>3 DEF Prepared
    <2>. QED
      BY <1>1, <1>2, <1>5, <2>1, <2>3, <2>4, MovesTo, Zenon
  <1>6. \/ /\ next # "idle"
           /\ task' = [task EXCEPT ![c].ver = Len(log'), ![c].again = FALSE]
           /\ Goto(c, next)
        \/ /\ next # "idle"
           /\ task' = [task EXCEPT ![c].to = next, ![c].again = FALSE]
           /\ Goto(c, "refresh")
        \/ /\ task' = [task EXCEPT ![c].to = pc[c], ![c].again = TRUE]
           /\ Goto(c, "refresh")
        \/ Return(c)
    BY DEF AppendEvent
  <1>. HIDE DEF t
  <1>7. CASE Return(c)
    BY <1>7, Returns, Zenon DEF Return, Goto
  <1>8. CASE /\ next # "idle"
             /\ task' = [task EXCEPT ![c].ver = Len(log'), ![c].again = FALSE]
             /\ Goto(c, next)
    BY <1>4, <1>8, Zenon DEF Goto
  <1>9. CASE /\ next # "idle"
             /\ task' = [task EXCEPT ![c].to = next, ![c].again = FALSE]
             /\ Goto(c, "refresh")
    BY <1>5, <1>9, Zenon DEF Goto
  <1>10. CASE /\ task' = [task EXCEPT ![c].to = pc[c], ![c].again = TRUE]
              /\ Goto(c, "refresh")
    BY <1>5, <1>10, Zenon DEF Goto
  <1>. QED
    BY <1>6, <1>7, <1>8, <1>9, <1>10

LEMMA CallersStep ==
  ASSUME TypeOK, RunInv(st), CallersPrepared, [Next]_vars,
         Failing(st) => Failing(st'), log' \in Seq(Events)
  PROVE  CallersOK
  <1>1. /\ pc \in [Callers -> Places] /\ task \in [Callers -> Tasks]
        /\ \A c \in Callers : /\ task[c] \in Tasks /\ Prepared(pc[c], task[c])
                              /\ Failing(task[c].view) => Failing(st')
        /\ log \in Seq(Events) /\ Len(log) \in Nat
    BY DEF TypeOK, CallersPrepared
  <1>2. ASSUME NEW c \in Callers, Load(c) PROVE CallersOK
    <2>. DEFINE t == [NoTask EXCEPT !.view = st, !.ver = Len(log)]
    <2>1. t \in Tasks /\ t.view = st
      BY <1>1, NoTaskType, Zenon DEF Tasks, RunInv
    <2>2. task' = [task EXCEPT ![c] = t] /\ pc' = [pc EXCEPT ![c] = "inspect"]
      BY <1>2 DEF Load, Goto
    <2>. HIDE DEF t
    <2>3. "inspect" \in Places /\ Prepared("inspect", t)
      BY <2>1 DEF Places, Prepared
    <2>. QED
      BY <2>1, <2>2, <2>3, MovesTo, Zenon
  <1>3. ASSUME NEW c \in Callers, Inspect(c) PROVE CallersOK
    <2>. DEFINE command == Decide(task[c].view)
                place == FirstStep(task[c].view, command)
                t == [task[c] EXCEPT !.cmd = command]
    <2>1. CASE Return(c)
      BY <2>1, Returns, Zenon DEF Return, Goto
    <2>2. CASE /\ command.type # "Noop"
               /\ task' = [task EXCEPT ![c].cmd = command]
               /\ Goto(c, place)
      <3>1. RunInv(task[c].view)
        BY <1>1, <1>3 DEF Inspect, Prepared
      <3>2. /\ command \in Commands /\ command.type \in CommandTypes
            /\ ActionType(command.act) = command.type
        BY <2>2, <3>1, DecideShape
      <3>. HIDE DEF command
      <3>3. /\ place \in {"plan", "reason", "result"}
            /\ place = "plan" => PlansFirst(command.type)
        BY DEF FirstStep, AfterPlan
      <3>4. t \in Tasks /\ t.view = task[c].view /\ t.cmd = command
        BY <1>1, <3>2, Zenon DEF Tasks
      <3>5. task' = [task EXCEPT ![c] = t] /\ pc' = [pc EXCEPT ![c] = place]
        BY <2>2 DEF Goto
      <3>. HIDE DEF t, place
      <3>6. place \in Places /\ Prepared(place, t)
        BY <3>2, <3>3, <3>4 DEF Places, Prepared
      <3>. QED
        BY <1>1, <3>4, <3>5, <3>6, MovesTo, Zenon
    <2>. QED
      BY <1>3, <2>1, <2>2 DEF Inspect
  <1>4. ASSUME NEW c \in Callers, Plan(c) PROVE CallersOK
    <2>1. AfterPlan(task[c].cmd) \in {"reason", "result"}
      BY DEF AfterPlan
    <2>. QED
      BY <1>4, <2>1, AppendMoves DEF Plan
  <1>5. ASSUME NEW c \in Callers, Result(c) PROVE CallersOK
    BY <1>5, AppendMoves DEF Result
  <1>6. ASSUME NEW c \in Callers, Refresh(c) PROVE CallersOK
    <2>. DEFINE t == [task[c] EXCEPT !.ver = Len(log)]
    <2>1. t \in Tasks /\ t.view = task[c].view /\ t.cmd = task[c].cmd
      BY <1>1, Zenon DEF Tasks
    <2>2. task' = [task EXCEPT ![c] = t] /\ pc' = [pc EXCEPT ![c] = task[c].to]
      BY <1>6 DEF Refresh, Goto
    <2>3. pc[c] = "refresh" /\ Prepared("refresh", task[c])
      BY <1>1, <1>6 DEF Refresh
    <2>. HIDE DEF t
    <2>4. task[c].to \in Places /\ Prepared(task[c].to, t)
      BY <2>1, <2>3 DEF Places, Prepared
    <2>. QED
      BY <1>1, <2>1, <2>2, <2>4, MovesTo, Zenon
  <1>7. ASSUME NEW c \in Callers, Reason(c) PROVE CallersOK
    <2>1. pc' = [pc EXCEPT ![c] = "result"] /\ Prepared("reason", task[c])
      BY <1>1, <1>7 DEF Reason, Goto
    <2>2. /\ \A x \in Outputs : x \in Optional(Outputs)
          /\ "reasoner" \in Optional({"reasoner"})
      BY OptionalMember
    <2>3. PICK t \in Tasks : /\ task' = [task EXCEPT ![c] = t]
                             /\ t.view = task[c].view /\ t.cmd = task[c].cmd
      <3>1. ASSUME NEW x \in Outputs, task' = [task EXCEPT ![c].tool = x]
            PROVE  \E t \in Tasks : /\ task' = [task EXCEPT ![c] = t]
                                    /\ t.view = task[c].view /\ t.cmd = task[c].cmd
        <4>. DEFINE t == [task[c] EXCEPT !.tool = x]
        <4>1. t \in Tasks /\ t.view = task[c].view /\ t.cmd = task[c].cmd
          BY <1>1, <2>2 DEF Tasks
        <4>2. task' = [task EXCEPT ![c] = t]
          BY <3>1
        <4>. HIDE DEF t
        <4>. QED
          BY <4>1, <4>2, Zenon
      <3>2. ASSUME task' = [task EXCEPT ![c].fault = "reasoner"]
            PROVE  \E t \in Tasks : /\ task' = [task EXCEPT ![c] = t]
                                    /\ t.view = task[c].view /\ t.cmd = task[c].cmd
        <4>. DEFINE t == [task[c] EXCEPT !.fault = "reasoner"]
        <4>1. t \in Tasks /\ t.view = task[c].view /\ t.cmd = task[c].cmd
          BY <1>1, <2>2, Zenon DEF Tasks
        <4>2. task' = [task EXCEPT ![c] = t]
          BY <3>2
        <4>. HIDE DEF t
        <4>. QED
          BY <4>1, <4>2, Zenon
      <3>. QED
        BY <1>7, <3>1, <3>2 DEF Reason
    <2>4. "result" \in Places /\ Prepared("result", t)
      BY <2>1, <2>3 DEF Places, Prepared
    <2>. QED
      BY <1>1, <2>1, <2>3, <2>4, MovesTo, Zenon
  <1>8. ASSUME NEW c \in Callers, Crash(c) PROVE CallersOK
    BY <1>8, Returns, Zenon DEF Crash, Goto
  <1>9. CASE (\E d \in Intents : SetDesiredState(d)) \/ Acquire \/ UNCHANGED vars
    <2>1. pc' = pc /\ task' = task
      BY <1>9 DEF SetDesiredState, Acquire, vars
    <2>. QED
      BY <1>1, <2>1 DEF CallersOK, CallersPrepared
  <1>. QED
    BY <1>2, <1>3, <1>4, <1>5, <1>6, <1>7, <1>8, <1>9 DEF Next, CallerStep

ModeStep ==
  \/ UNCHANGED <<managed, switched>>
  \/ /\ ~managed /\ ~UnresolvedLegacyAction
     /\ managed' = TRUE /\ switched' = Len(log) /\ UNCHANGED store

LEMMA ModeSteps ==
  ASSUME [Next]_vars
  PROVE  ModeStep
  BY ZenonT(30)
  DEF Next, CallerStep, Load, Inspect, Plan, Refresh, Reason, Result, AppendEvent, Crash,
         SetDesiredState, Acquire, vars, mode, store, ModeStep

LEMMA ShapeStep ==
  ASSUME ShapeInv, [Next]_vars
  PROVE  ShapeInv'
  <1>1. TypeOK /\ RunInv(st) /\ CallersPrepared /\ log \in Seq(Events)
    BY DEF ShapeInv, TypeOK
  <1>2. RunInv(st') /\ (Failing(st) => Failing(st')) /\ log' \in Seq(Events)
    <2>1. CASE UNCHANGED store
      BY <1>1, <2>1 DEF store
    <2>2. ASSUME NEW e, Appends(e)
          PROVE  RunInv(st') /\ (Failing(st) => Failing(st')) /\ log' \in Seq(Events)
      <3>1. e \in Events /\ log' = Append(log, e)
        BY <2>2 DEF Appends, GoodEvent
      <3>. QED
        BY <1>1, <2>2, <3>1, EventKeeps, AppendedLog
    <2>. QED
      BY <1>1, <2>1, <2>2, StoreStep
  <1>3. CallersOK
    BY <1>1, <1>2, CallersStep
  <1>4. managed' \in BOOLEAN /\ switched' \in Nat
    <2>1. managed \in BOOLEAN /\ switched \in Nat /\ Len(log) \in Nat
      BY <1>1 DEF TypeOK
    <2>2. CASE managed' = managed /\ switched' = switched
      BY <2>1, <2>2
    <2>3. CASE managed' = TRUE /\ switched' = Len(log)
      BY <2>1, <2>3
    <2>. QED
      BY <2>2, <2>3, ModeSteps, Zenon DEF ModeStep
  <1>5. st' \in RunStates
    BY <1>2 DEF RunInv
  <1>. QED
    BY <1>2, <1>3, <1>4, <1>5 DEF ShapeInv, TypeOK, CallersOK

-----------------------------------------------------------------------------
(* What the appended event does to the pending action.                     *)

Opens(e) == IsPlan(e) /\ st.pend = NoAction /\ e.act # NoAction /\ st'.pend = e.act

Closes(e) ==
  /\ e.type \in {"ReasoningCompleted", "ToolCallFailed", "VerificationPassed"}
  /\ st.pend = e.act /\ e.act # NoAction /\ st'.pend = NoAction

Ends(e) == e.type \in {"RunFailed", "RunCancelled"} /\ st'.pend = NoAction

Passes(e) ==
  /\ e.type \in {"AttemptStarted", "WorkspaceProvisioned", "PatchProduced", "RunSucceeded",
                 "DesiredStateChanged"}
  /\ st'.pend = st.pend

LEMMA PendEffect ==
  ASSUME NEW e, Appends(e), RunInv(st)
  PROVE  Opens(e) \/ Closes(e) \/ Ends(e) \/ Passes(e)
  <1>1. /\ e \in Events /\ Named(e) /\ st' = ApplyEvent(st, e) /\ ApplyEvent(st, e).exists
        /\ e.type \in LegacyLifecycleResultEvents \cup OperatorEvents
        /\ e.type = "RunFailed" => ReasonKnown(e)
    BY DEF Appends, GoodEvent
  <1>2. CASE e.type \in {"AttemptStarted", "WorkspaceProvisioned", "PatchProduced", "RunSucceeded"}
    BY <1>1, <1>2, AdvanceEffect DEF Advanced, Passes
  <1>3. CASE e.type \in {"ReasoningPlanned", "VerificationPlanned"}
    BY <1>1, <1>3, PlanEffect DEF Opened, Opens, IsPlan
  <1>4. CASE e.type \in {"ReasoningCompleted", "ToolCallFailed", "VerificationPassed"}
    BY <1>1, <1>4, ResultEffect DEF Closed, Closes
  <1>5. CASE e.type = "RunFailed"
    BY <1>1, <1>5, FailEffect DEF ReasonKnown, Ends
  <1>6. CASE e.type = "RunCancelled"
    BY <1>1, <1>6, CancelEffect DEF Ends
  <1>7. CASE e.type = "DesiredStateChanged"
    BY <1>1, <1>7, IntentEffect DEF Intended, Passes
  <1>. QED
    BY <1>1, <1>2, <1>3, <1>4, <1>5, <1>6, <1>7
    DEF LegacyLifecycleResultEvents, OperatorEvents

-----------------------------------------------------------------------------
(* What a step does to the invariants of the log.                          *)

LEMMA NoActionHasNoType == ActionType(NoAction) \notin {"RunReasoner", "Verify"}
  BY DEF ActionType, NoAction

PlanName(e) == IF e.type = "ReasoningPlanned" THEN "RunReasoner" ELSE "Verify"

Extends(e) ==
  /\ Len(log) \in Nat /\ Len(log') = Len(log) + 1
  /\ DOMAIN log = 1 .. Len(log) /\ DOMAIN log' = 1 .. Len(log) + 1
  /\ \A i \in DOMAIN log : log'[i] = log[i]
  /\ log'[Len(log) + 1] = e

LEMMA Extension ==
  ASSUME ShapeInv, NEW e, Appends(e)
  PROVE  Extends(e)
  <1>1. e \in Events /\ log' = Append(log, e) /\ log \in Seq(Events)
    BY DEF ShapeInv, TypeOK, Appends, GoodEvent
  <1>. QED
    BY <1>1, AppendedLog DEF Extends

LEMMA PlansNamedStep ==
  ASSUME ShapeInv, PlansNamed, NEW e, Appends(e)
  PROVE  PlansNamed'
  <1>1. Extends(e)
    BY Extension
  <1>2. IsPlan(e) => /\ ActionType(e.act) = PlanName(e)
                     /\ e.key = <<e.act, e.type, 0>>
    BY DEF Appends, GoodEvent, Named, IsPlan, PlanName, LegacyLifecycleResultEvents
  <1>3. ASSUME NEW i \in DOMAIN log', IsPlan(log'[i])
        PROVE  /\ ActionType(log'[i].act) = PlanName(log'[i])
               /\ log'[i].key = <<log'[i].act, log'[i].type, 0>>
    <2>1. CASE i \in DOMAIN log
      <3>1. log'[i] = log[i]
        BY <1>1, <2>1 DEF Extends
      <3>. QED
        BY <1>3, <2>1, <3>1 DEF PlansNamed, PlanName
    <2>2. CASE i = Len(log) + 1
      <3>1. log'[i] = e
        BY <1>1, <2>2 DEF Extends
      <3>. QED
        BY <1>2, <1>3, <3>1
    <2>. QED
      BY <1>1, <2>1, <2>2 DEF Extends
  <1>. QED
    BY <1>3 DEF PlansNamed, PlanName

LEMMA PlansClosedStep ==
  ASSUME ShapeInv, PlansNamed, PlansClosed, NEW e, Appends(e)
  PROVE  PlansClosed'
  <1>1. Extends(e) /\ RunInv(st) /\ Named(e)
    BY Extension DEF ShapeInv, Appends, GoodEvent
  <1>2. ASSUME NEW i \in DOMAIN log', IsPlan(log'[i])
        PROVE  \/ log'[i].act = st'.pend
               \/ \E j \in i + 1 .. Len(log') : Resolves(log'[j], log'[i])
    <2>1. CASE i = Len(log) + 1
      <3>1. log'[i] = e
        BY <1>1, <2>1 DEF Extends
      <3>. QED
        BY <1>1, <1>2, <3>1, PendEffect DEF Opens, Closes, Ends, Passes, IsPlan
    <2>2. CASE i \in DOMAIN log
      <3>1. log'[i] = log[i] /\ i \in 1 .. Len(log)
        BY <1>1, <2>2 DEF Extends
      <3>2. ASSUME NEW j \in i + 1 .. Len(log), Resolves(log[j], log[i])
            PROVE  \E k \in i + 1 .. Len(log') : Resolves(log'[k], log'[i])
        <4>1. j \in DOMAIN log /\ j \in i + 1 .. Len(log')
          BY <1>1, <3>1 DEF Extends
        <4>2. log'[j] = log[j]
          BY <1>1, <4>1 DEF Extends
        <4>. QED
          BY <3>1, <3>2, <4>1, <4>2
      <3>3. CASE log[i].act = st.pend
        <4>1. ActionType(st.pend) = PlanName(log[i]) /\ IsPlan(log[i])
          BY <1>2, <2>2, <3>1, <3>3 DEF PlansNamed, PlanName
        <4>2. st.pend # NoAction
          BY <4>1, NoActionHasNoType DEF PlanName
        <4>3. CASE Closes(e) \/ Ends(e)
          <5>1. Resolves(e, log[i])
            BY <1>1, <3>3, <4>1, <4>3 DEF Closes, Ends, Resolves, Named, PlanName, IsPlan
          <5>2. Len(log) + 1 \in i + 1 .. Len(log') /\ log'[Len(log) + 1] = e
            BY <1>1, <3>1 DEF Extends
          <5>. QED
            BY <3>1, <5>1, <5>2
        <4>. QED
          BY <1>1, <3>1, <3>3, <4>2, <4>3, PendEffect DEF Opens, Passes
      <3>. QED
        BY <1>2, <2>2, <3>1, <3>2, <3>3 DEF PlansClosed
    <2>. QED
      BY <1>1, <2>1, <2>2 DEF Extends
  <1>. QED
    BY <1>2 DEF PlansClosed

LEMMA PendingPlannedStep ==
  ASSUME ShapeInv, PlansNamed, PendingPlanned, OneResultPerPlan, NEW e, Appends(e)
  PROVE  PendingPlanned'
  <1>1. Extends(e) /\ RunInv(st) /\ Named(e) /\ PlansNamed'
    BY Extension, PlansNamedStep DEF ShapeInv, Appends, GoodEvent
  <1>2. CASE Opens(e)
    <2>1. e.act = st'.pend /\ IsPlan(e) /\ ~IsToolResult(e)
      BY <1>2 DEF Opens, IsPlan, IsToolResult
    <2>2. \E i \in DOMAIN log' :
            /\ IsPlan(log'[i]) /\ log'[i].act = st'.pend
            /\ \A j \in i + 1 .. Len(log') : ~Resolves(log'[j], log'[i])
      <3>1. Len(log) + 1 \in DOMAIN log' /\ log'[Len(log) + 1] = e
            /\ Len(log) + 1 + 1 .. Len(log') = {}
        BY <1>1 DEF Extends
      <3>. QED
        BY <2>1, <3>1
    <2>3. ASSUME NEW i \in DOMAIN log, IsToolResult(log[i]), log[i].act = e.act
          PROVE  FALSE
      <3>1. PICK k \in 1 .. i - 1 : IsPlan(log[k]) /\ log[k].act = e.act
        BY <2>3 DEF OneResultPerPlan, IsToolResult
      <3>2. k \in DOMAIN log
        BY <1>1, <2>3, <3>1 DEF Extends
      <3>3. /\ log[k].key = <<e.act, log[k].type, 0>>
            /\ ActionType(e.act) = PlanName(log[k])
        BY <3>1, <3>2 DEF PlansNamed, PlanName
      <3>4. e.key = <<e.act, e.type, 0>> /\ ActionType(e.act) = PlanName(e)
            /\ log[k].key # e.key
        BY <2>1, <3>2
        DEF Appends, GoodEvent, Named, IsPlan, PlanName, LegacyLifecycleResultEvents
      <3>5. log[k].type = e.type
        BY <2>1, <3>1, <3>3, <3>4 DEF IsPlan, PlanName
      <3>. QED
        BY <3>3, <3>4, <3>5
    <2>4. ASSUME NEW i \in DOMAIN log', IsToolResult(log'[i]) PROVE log'[i].act # st'.pend
      BY <1>1, <2>1, <2>3, <2>4 DEF Extends
    <2>. QED
      BY <2>2, <2>4 DEF PendingPlanned
  <1>3. CASE Passes(e)
    <2>. SUFFICES ASSUME st'.pend # NoAction PROVE PendingPlanned'
      BY DEF PendingPlanned
    <2>1. PICK i \in DOMAIN log :
            /\ IsPlan(log[i]) /\ log[i].act = st.pend
            /\ \A j \in i + 1 .. Len(log) : ~Resolves(log[j], log[i])
      BY <1>3 DEF Passes, PendingPlanned
    <2>2. log'[i] = log[i] /\ i \in DOMAIN log' /\ i \in Nat
      BY <1>1 DEF Extends
    <2>3. ~Resolves(e, log[i]) /\ ~IsToolResult(e)
      BY <1>3 DEF Passes, Resolves, IsToolResult
    <2>4. ASSUME NEW j \in i + 1 .. Len(log') PROVE ~Resolves(log'[j], log'[i])
      <3>1. CASE j = Len(log) + 1
        BY <1>1, <2>2, <2>3, <3>1 DEF Extends
      <3>2. CASE j # Len(log) + 1
        <4>1. j \in i + 1 .. Len(log) /\ j \in DOMAIN log
          BY <1>1, <2>2, <3>2 DEF Extends
        <4>. QED
          BY <1>1, <2>1, <2>2, <4>1 DEF Extends
      <3>. QED
        BY <3>1, <3>2
    <2>5. ASSUME NEW k \in DOMAIN log', IsToolResult(log'[k]) PROVE log'[k].act # st'.pend
      <3>1. k \in DOMAIN log /\ log'[k] = log[k]
        BY <1>1, <2>3, <2>5 DEF Extends
      <3>. QED
        BY <1>3, <2>5, <3>1 DEF Passes, PendingPlanned
    <2>6. log'[i].act = st'.pend /\ IsPlan(log'[i])
      BY <1>3, <2>1, <2>2 DEF Passes
    <2>. QED
      BY <2>2, <2>4, <2>5, <2>6 DEF PendingPlanned
  <1>. QED
    BY <1>1, <1>2, <1>3, PendEffect DEF Closes, Ends, PendingPlanned

LEMMA OneResultStep ==
  ASSUME ShapeInv, PendingPlanned, OneResultPerPlan, NEW e, Appends(e)
  PROVE  OneResultPerPlan'
  <1>1. Extends(e) /\ RunInv(st)
    BY Extension DEF ShapeInv
  <1>2. \A i \in DOMAIN log :
          IsToolResult(log[i]) => \E k \in 1 .. i - 1 : IsPlan(log[k]) /\ log[k].act = log[i].act
    BY DEF OneResultPerPlan, IsToolResult
  <1>3. \A i, j \in DOMAIN log :
          IsToolResult(log[i]) /\ IsToolResult(log[j]) /\ log[i].act = log[j].act => i = j
    BY DEF OneResultPerPlan, IsToolResult
  <1>4. IsToolResult(e) => st.pend = e.act /\ e.act # NoAction
    BY <1>1, PendEffect DEF IsToolResult, Opens, Closes, Ends, Passes, IsPlan
  <1>5. IsToolResult(e) =>
          /\ \E k \in DOMAIN log : IsPlan(log[k]) /\ log[k].act = e.act
          /\ \A i \in DOMAIN log : IsToolResult(log[i]) => log[i].act # e.act
    BY <1>4 DEF PendingPlanned
  <1>6. ASSUME NEW i \in DOMAIN log', NEW j \in DOMAIN log',
               IsToolResult(log'[i]), IsToolResult(log'[j]), log'[i].act = log'[j].act
        PROVE  i = j
    BY <1>1, <1>3, <1>5, <1>6 DEF Extends
  <1>7. ASSUME NEW i \in DOMAIN log', IsToolResult(log'[i])
        PROVE  \E k \in 1 .. i - 1 : IsPlan(log'[k]) /\ log'[k].act = log'[i].act
    <2>1. PICK k \in DOMAIN log : IsPlan(log[k]) /\ log[k].act = log'[i].act /\ k \in 1 .. i - 1
      <3>1. CASE i \in DOMAIN log
        <4>1. log'[i] = log[i] /\ i \in 1 .. Len(log)
          BY <1>1, <3>1 DEF Extends
        <4>2. PICK k \in 1 .. i - 1 : IsPlan(log[k]) /\ log[k].act = log[i].act
          BY <1>2, <1>7, <3>1, <4>1
        <4>3. k \in DOMAIN log
          BY <1>1, <4>1 DEF Extends
        <4>. QED
          BY <4>1, <4>2, <4>3
      <3>2. CASE i = Len(log) + 1
        <4>1. log'[i] = e
          BY <1>1, <3>2 DEF Extends
        <4>2. PICK k \in DOMAIN log : IsPlan(log[k]) /\ log[k].act = e.act
          BY <1>5, <1>7, <4>1
        <4>3. k \in 1 .. i - 1
          BY <1>1, <3>2 DEF Extends
        <4>. QED
          BY <4>1, <4>2, <4>3
      <3>. QED
        BY <1>1, <3>1, <3>2 DEF Extends
    <2>2. log'[k] = log[k]
      BY <1>1, <2>1 DEF Extends
    <2>. QED
      BY <2>1, <2>2
  <1>. QED
    BY <1>6, <1>7 DEF OneResultPerPlan, IsToolResult

LEMMA QueryIsRight ==
  ASSUME PlansNamed, PlansClosed, PendingPlanned
  PROVE  QueryMatchesProjection
  <1>1. ASSUME NEW i \in DOMAIN log, IsPlan(log[i]),
               \A j \in i + 1 .. Len(log) : ~Resolves(log[j], log[i])
        PROVE  st.pend # NoAction
    <2>1. log[i].act = st.pend
      BY <1>1 DEF PlansClosed
    <2>2. ActionType(log[i].act) \in {"RunReasoner", "Verify"}
      BY <1>1 DEF PlansNamed
    <2>. QED
      BY <2>1, <2>2, NoActionHasNoType
  <1>2. st.pend # NoAction => UnresolvedLegacyAction
    BY DEF PendingPlanned, UnresolvedLegacyAction
  <1>. QED
    BY <1>1, <1>2 DEF UnresolvedLegacyAction, QueryMatchesProjection

Modes == ModesNeverMix /\ (managed => switched <= Len(log))

LEMMA ModesStep ==
  ASSUME LegacyInv, [Next]_vars
  PROVE  Modes'
  <1>1. /\ ShapeInv /\ TypeOK /\ RunInv(st) /\ CallersPrepared /\ Modes
        /\ QueryMatchesProjection /\ log \in Seq(Events) /\ Len(log) \in Nat
        /\ managed \in BOOLEAN /\ switched \in Nat
    BY QueryIsRight DEF LegacyInv, ShapeInv, TypeOK, Modes
  <1>2. CASE UNCHANGED store /\ UNCHANGED <<managed, switched>>
    BY <1>1, <1>2 DEF store, Modes, ModesNeverMix
  <1>3. CASE /\ ~UnresolvedLegacyAction /\ switched' = Len(log) /\ UNCHANGED store
    <2>1. st'.pend = NoAction
      BY <1>1, <1>3 DEF QueryMatchesProjection, store
    <2>2. switched' = Len(log') /\ Len(log') \in Nat
      BY <1>1, <1>3 DEF store
    <2>. QED
      BY <2>1, <2>2 DEF Modes, ModesNeverMix
  <1>4. ASSUME NEW e, Appends(e), UNCHANGED <<managed, switched>> PROVE Modes'
    <2>. SUFFICES ASSUME managed PROVE Modes'
      BY <1>4 DEF Modes, ModesNeverMix
    <2>1. Extends(e) /\ e.type = "DesiredStateChanged"
      BY <1>1, <1>4, Extension DEF Appends, OperatorEvents
    <2>2. st'.pend = NoAction
      BY <1>1, <1>4, <2>1, PendEffect
      DEF Opens, Closes, Ends, Passes, IsPlan, Modes, ModesNeverMix
    <2>3. /\ switched' = switched /\ switched <= Len(log) /\ managed'
          /\ \A i \in switched + 1 .. Len(log) : log[i].type = "DesiredStateChanged"
      BY <1>1, <1>4 DEF Modes, ModesNeverMix
    <2>4. ASSUME NEW i \in switched' + 1 .. Len(log') PROVE log'[i].type = "DesiredStateChanged"
      <3>1. CASE i = Len(log) + 1
        BY <2>1, <3>1 DEF Extends
      <3>2. CASE i # Len(log) + 1
        <4>1. i \in switched + 1 .. Len(log) /\ i \in DOMAIN log
          BY <1>1, <2>1, <2>3, <3>2 DEF Extends
        <4>. QED
          BY <2>1, <2>3, <4>1 DEF Extends
      <3>. QED
        BY <3>1, <3>2
    <2>5. switched' <= Len(log')
      BY <1>1, <2>1, <2>3 DEF Extends
    <2>. QED
      BY <2>2, <2>4, <2>5 DEF Modes, ModesNeverMix
  <1>5. ASSUME NEW e, Appends(e), UNCHANGED store PROVE FALSE
    <2>1. Extends(e)
      BY <1>1, <1>5, Extension
    <2>. QED
      BY <1>5, <2>1 DEF Extends, store
  <1>. QED
    BY <1>1, <1>2, <1>3, <1>4, <1>5, StoreStep, ModeSteps, Zenon DEF ModeStep

LEMMA LegacyStep == LegacyInv /\ [Next]_vars => LegacyInv'
  <1>. SUFFICES ASSUME LegacyInv, [Next]_vars
                PROVE  PlansNamed' /\ PlansClosed' /\ PendingPlanned' /\ OneResultPerPlan'
    BY ShapeStep, ModesStep DEF LegacyInv, Modes
  <1>1. ShapeInv /\ PlansNamed /\ PlansClosed /\ PendingPlanned /\ OneResultPerPlan
    BY DEF LegacyInv
  <1>2. CASE UNCHANGED store
    BY <1>1, <1>2
    DEF store, PlansNamed, PlansClosed, PendingPlanned, OneResultPerPlan
  <1>3. ASSUME NEW e, Appends(e)
        PROVE  PlansNamed' /\ PlansClosed' /\ PendingPlanned' /\ OneResultPerPlan'
    BY <1>1, <1>3, PlansNamedStep, PlansClosedStep, PendingPlannedStep, OneResultStep
  <1>. QED
    BY <1>1, <1>2, <1>3, StoreStep DEF ShapeInv

LEMMA LegacyInit == Init => LegacyInv /\ Lifecycle!LifecycleInit
  <1>. SUFFICES ASSUME Init PROVE LegacyInv /\ Lifecycle!LifecycleInit
    OBVIOUS
  <1>1. RunCreatedEvent \in Events /\ RunCreatedEvent.type = "RunCreated"
    <2>1. NoAction \in ActionIds
      <3>1. "" \in Optional(CommandTypes)
        BY DEF Optional
      <3>. QED
        BY <3>1 DEF NoAction, ActionIds
    <2>2. <<NoAction, "run-created", 0>> \in Keys /\ "RunCreated" \in EventTypes
      BY <2>1 DEF Keys, EventTypes
    <2>. QED
      BY <2>2, EventShape DEF RunCreatedEvent
  <1>2. log = <<RunCreatedEvent>> /\ managed = FALSE /\ switched = 0
    BY DEF Init
  <1>3. log \in Seq(Events) /\ Len(log) = 1 /\ DOMAIN log = {1} /\ log[1].type = "RunCreated"
    BY <1>1, <1>2
  <1>4. st = [InitialState EXCEPT !.exists = TRUE, !.desired = "Running", !.observed = "Queued"]
    <2>1. ~InitialState.exists
      BY DEF InitialState
    <2>. QED
      BY <1>1, <2>1
      DEF Init, ApplyEvent, ApplyRunCreated, LegacyLifecycleResultEvents, LeaseEvents
  <1>5. /\ st.exists /\ st.desired = "Running" /\ st.observed = "Queued"
        /\ st.pend = NoAction /\ st.pendType = "" /\ st.verified = FALSE /\ st.failure = ""
    BY <1>4 DEF InitialState
  <1>6. st \in RunStates
    <2>1. "Running" \in Optional(DesiredStates) /\ "Queued" \in Optional(Statuses)
      BY OptionalMember DEF DesiredStates, Statuses
    <2>. QED
      BY <1>4, <2>1, InitialStateType, Zenon DEF RunStates
  <1>7. RunInv(st)
    BY <1>5, <1>6 DEF RunInv, Unleased
  <1>8. pc \in [Callers -> Places] /\ task \in [Callers -> Tasks] /\ CallersPrepared
    <2>1. pc = [c \in Callers |-> "idle"] /\ task = [c \in Callers |-> NoTask]
      BY DEF Init
    <2>2. "idle" \in Places /\ Prepared("idle", NoTask)
      BY DEF Places, Prepared
    <2>. QED
      BY <2>1, <2>2, NoTaskType, InitialStateType DEF CallersPrepared
  <1>9. ShapeInv
    <2>1. managed \in BOOLEAN /\ switched \in Nat
      BY <1>2, Zenon
    <2>. QED
      BY <1>3, <1>6, <1>7, <1>8, <2>1 DEF ShapeInv, TypeOK
  <1>10. PlansNamed /\ PlansClosed /\ PendingPlanned /\ OneResultPerPlan
    BY <1>3, <1>5 DEF PlansNamed, PlansClosed, PendingPlanned, OneResultPerPlan, IsPlan
  <1>11. ModesNeverMix /\ (managed => switched <= Len(log))
    BY <1>2 DEF ModesNeverMix
  <1>12. Lifecycle!LifecycleInit
    BY <1>5 DEF Lifecycle!LifecycleInit, LogicalState
  <1>. QED
    BY <1>9, <1>10, <1>11, <1>12 DEF LegacyInv

-----------------------------------------------------------------------------
(* The theorems.                                                           *)

(* What the lease query reads from the events and what the projection      *)
(* folds from them agree on whether an unleased action is in progress.     *)
THEOREM QueryAgrees == Spec => []QueryMatchesProjection
  <1>1. Init => LegacyInv
    BY LegacyInit
  <1>2. LegacyInv => QueryMatchesProjection
    BY QueryIsRight DEF LegacyInv
  <1>. QED
    BY <1>1, <1>2, LegacyStep, PTL DEF Spec

(* Under a lease no unleased action is open, and after the switch nothing  *)
(* but operator intent is appended without a token.                        *)
THEOREM ModesAreSeparate == Spec => []ModesNeverMix
  <1>1. Init => LegacyInv
    BY LegacyInit
  <1>2. LegacyInv => ModesNeverMix
    BY DEF LegacyInv
  <1>. QED
    BY <1>1, <1>2, LegacyStep, PTL DEF Spec

(* However many callers run the reasoner for one plan, the log holds one   *)
(* result of it, after its plan.                                           *)
THEOREM OneResult == Spec => []OneResultPerPlan
  <1>1. Init => LegacyInv
    BY LegacyInit
  <1>2. LegacyInv => OneResultPerPlan
    BY DEF LegacyInv
  <1>. QED
    BY <1>1, <1>2, LegacyStep, PTL DEF Spec

LEMMA PipelineStep ==
  ASSUME NEW from, NEW to, Step(from, to)
  PROVE  Lifecycle!PipelineNext(from) = to /\ Lifecycle!PipelineNext(from) # ""
  BY DEF Step, Lifecycle!PipelineNext

LEMMA LifecycleStep ==
  ASSUME ShapeInv, [Next]_vars
  PROVE  [Lifecycle!LifecycleNext]_Lifecycle!lifecycle
  <1>1. TypeOK /\ RunInv(st) /\ CallersPrepared
    BY DEF ShapeInv
  <1>2. \A status : Lifecycle!Terminal(status) <=> Terminal(status)
    BY DEF Lifecycle!Terminal, Terminal
  <1>3. CASE UNCHANGED store
    BY <1>3 DEF store, Lifecycle!lifecycle
  <1>4. ASSUME NEW e, Appends(e) PROVE Lifecycle!LifecycleNext
    <2>1. /\ e \in Events /\ Named(e) /\ st' = ApplyEvent(st, e) /\ ApplyEvent(st, e).exists
          /\ e.type \in LegacyLifecycleResultEvents \cup OperatorEvents
          /\ e.type = "RunFailed" => ReasonKnown(e)
      BY <1>4 DEF Appends, GoodEvent
    <2>2. ~Terminal(st.observed)
      BY <1>1, <2>1, Dispatch
    <2>3. ~Lifecycle!Ended
      BY <1>2, <2>2 DEF Lifecycle!Ended, LogicalState
    <2>4. CASE e.type \in {"AttemptStarted", "WorkspaceProvisioned", "PatchProduced",
                           "RunSucceeded"}
      <3>1. Advanced(st, st')
        BY <1>1, <2>1, <2>4, AdvanceEffect
      <3>2. /\ st.desired = "Running" /\ st'.desired = st.desired
            /\ st.observed # "Paused" /\ st'.observed # "Paused"
            /\ st'.observed = "Succeeded" => st.verified
            /\ st'.pend = NoAction /\ st'.verified = st.verified /\ st'.failure = st.failure
            /\ LogicalState(st) = st.observed /\ LogicalState(st') = st'.observed
            /\ Step(st.observed, st'.observed)
        BY <3>1 DEF Advanced, LogicalState
      <3>3. /\ Lifecycle!PipelineNext(LogicalState(st)) = LogicalState(st')
            /\ Lifecycle!PipelineNext(LogicalState(st)) # ""
        BY <3>2, PipelineStep
      <3>4. Lifecycle!Advance
        BY <3>2, <3>3 DEF Lifecycle!Advance, Lifecycle!MayDeliver
      <3>. QED
        BY <3>4 DEF Lifecycle!LifecycleNext
    <2>5. CASE e.type \in {"ReasoningPlanned", "VerificationPlanned"}
      <3>1. Opened(st, st', e)
        BY <1>1, <2>1, <2>5, PlanEffect
      <3>2. LogicalState(st') = LogicalState(st)
        BY <3>1 DEF Opened, LogicalState
      <3>3. Lifecycle!Plan
        BY <2>3, <3>1, <3>2 DEF Opened, Lifecycle!Plan
      <3>. QED
        BY <3>3 DEF Lifecycle!LifecycleNext
    <2>6. CASE e.type \in {"ReasoningCompleted", "ToolCallFailed", "VerificationPassed"}
      <3>1. Closed(st, st', e)
        BY <1>1, <2>1, <2>6, ResultEffect
      <3>2. /\ Lifecycle!MayDeliver /\ st.pend # NoAction /\ st'.pend = NoAction
            /\ st'.desired = st.desired
            /\ st'.observed = "Paused" <=> st.observed = "Paused"
        BY <3>1 DEF Closed, Lifecycle!MayDeliver
      <3>3. CASE e.type = "ReasoningCompleted"
        <4>1. /\ LogicalState(st) = "Reasoning" /\ LogicalState(st') = "Acting"
              /\ st'.verified = st.verified /\ st'.failure = st.failure
          BY <3>1, <3>3 DEF Closed
        <4>2. /\ Lifecycle!PipelineNext(LogicalState(st)) = LogicalState(st')
              /\ Lifecycle!PipelineNext(LogicalState(st)) # ""
          BY <4>1, PipelineStep DEF Step
        <4>3. Lifecycle!Advance
          BY <3>2, <4>1, <4>2 DEF Lifecycle!Advance
        <4>. QED
          BY <4>3 DEF Lifecycle!LifecycleNext
      <3>4. CASE e.type = "ToolCallFailed"
        <4>1. /\ LogicalState(st) = LogicalState(st')
              /\ st'.verified = st.verified /\ Failing(st')
          BY <3>1, <3>4 DEF Closed
        <4>2. Lifecycle!RecordFailure
          BY <3>2, <4>1 DEF Lifecycle!RecordFailure, Failing
        <4>. QED
          BY <4>2 DEF Lifecycle!LifecycleNext
      <3>5. CASE e.type = "VerificationPassed"
        <4>1. /\ LogicalState(st) = "Verifying" /\ LogicalState(st') = LogicalState(st)
              /\ st'.verified /\ st'.failure = st.failure
          BY <3>1, <3>5 DEF Closed
        <4>2. Lifecycle!RecordVerification
          BY <3>2, <4>1 DEF Lifecycle!RecordVerification
        <4>. QED
          BY <4>2 DEF Lifecycle!LifecycleNext
      <3>. QED
        BY <2>6, <3>3, <3>4, <3>5
    <2>7. CASE e.type = "RunFailed"
      <3>1. /\ st.desired = "Running" /\ st'.desired = st.desired
            /\ st.observed # "Paused" /\ ~Terminal(st.observed)
            /\ st'.observed = "Failed" /\ st'.pend = NoAction
            /\ Failing(st) /\ Failing(st') /\ st'.verified = st.verified
        BY <1>1, <2>1, <2>7, FailEffect DEF ReasonKnown
      <3>2. LogicalState(st) = st.observed /\ LogicalState(st') = "Failed"
        BY <3>1 DEF LogicalState
      <3>3. Lifecycle!Fail
        BY <1>2, <3>1, <3>2 DEF Lifecycle!Fail, Lifecycle!MayDeliver, Failing
      <3>. QED
        BY <3>3 DEF Lifecycle!LifecycleNext
    <2>8. CASE e.type = "RunCancelled"
      <3>1. /\ st.desired = "Cancelled" /\ st'.desired = st.desired
            /\ ~Terminal(LogicalState(st))
            /\ st'.observed = "Cancelled" /\ st'.pend = NoAction
            /\ st'.failure = st.failure /\ st'.verified = st.verified
        BY <1>1, <2>1, <2>8, CancelEffect
      <3>2. LogicalState(st') = "Cancelled" /\ st'.observed # "Paused"
        BY <3>1 DEF LogicalState
      <3>3. Lifecycle!Cancel
        BY <1>2, <3>1, <3>2, Zenon DEF Lifecycle!Cancel
      <3>. QED
        BY <3>3 DEF Lifecycle!LifecycleNext
    <2>9. CASE e.type = "DesiredStateChanged"
      <3>1. Intended(st, st')
        BY <1>1, <2>1, <2>9, IntentEffect
      <3>2. Lifecycle!ChangeDesired
        BY <2>3, <3>1 DEF Intended, Lifecycle!ChangeDesired
      <3>. QED
        BY <3>2 DEF Lifecycle!LifecycleNext
    <2>. QED
      BY <2>1, <2>4, <2>5, <2>6, <2>7, <2>8, <2>9
      DEF LegacyLifecycleResultEvents, OperatorEvents
  <1>. QED
    BY <1>1, <1>3, <1>4, StoreStep

(* Unleased execution implements the lifecycle contract, for any number of *)
(* callers, crashes, stale decisions and operator intents.                 *)
THEOREM UnleasedExecutionImplementsLifecycle == Spec => ImplementsLifecycle
  <1>1. Init => LegacyInv /\ Lifecycle!LifecycleInit
    BY LegacyInit
  <1>2. LegacyInv /\ [Next]_vars => [Lifecycle!LifecycleNext]_Lifecycle!lifecycle
    BY LifecycleStep DEF LegacyInv
  <1>. QED
    BY <1>1, <1>2, LegacyStep, PTL DEF Spec, ImplementsLifecycle, Lifecycle!LifecycleSpec

==============================================================================
