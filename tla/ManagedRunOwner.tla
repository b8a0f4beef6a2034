-------------------------- MODULE ManagedRunOwner ---------------------------
(***************************************************************************)
(* Proof that the rightful owner of a Run never trips over what its        *)
(* predecessors left behind: until a cancel, the worker that holds the     *)
(* live lease returns an error only when the operator raced its append     *)
(* twice or the bytes of its evidence vanished.                            *)
(*                                                                         *)
(* Each check of Append and RecordReceipt needs its own reason to pass.    *)
(* StoreInv has the reasons that are facts of the store, Relies those the  *)
(* worker whose token the lease row names may count on: nobody else writes *)
(* then (OwnerAlone), and an operator's event short of a cancel changes    *)
(* none of them (ReliesStays).                                             *)
(***************************************************************************)
EXTENDS ManagedRunOnce

-----------------------------------------------------------------------------
(* What the owner relies on.                                               *)

(* The lease row names the session of w, live or not.  While it does, only *)
(* w and the operator write.                                               *)
Owns(w) == lease.worker = w /\ lease.token = held[w]

OnDuty == {"reload", "lookup", "exec", "record", "verify", "complete", "fail"}

(* What the owner may rely on until a cancel: its plan is new, its action  *)
(* is the pending one, its view is current, what it is about to record has *)
(* no receipt and the output its plan asks for, and what it is about to    *)
(* complete has its receipt.                                               *)
Relies(w) ==
  Owns(w) /\ st.desired # "Cancelled" =>
    /\ pc[w] = "plan" => ~Planned(task[w].cmd.act)
    /\ pc[w] \in OnDuty => st.pend # NoAction /\ task[w].cmd = PendingCommand(st)
    /\ pc[w] \in {"lookup", "exec"} =>
         task[w].view.pendScope = st.pendScope /\ task[w].view.failure = st.failure
    /\ pc[w] \in {"reload", "exec", "record"} => ReceiptOf(task[w].cmd.act) = {}
    /\ pc[w] = "record" =>
         /\ task[w].made.act = st.pend /\ task[w].made.scope = st.pendScope
         /\ ValidateManagedActionOutput(task[w].made, st.pendAid)
    /\ pc[w] \in {"verify", "complete"} =>
         task[w].made.act = st.pend /\ \E r \in receipts : Draft(r) = task[w].made
    /\ pc[w] = "fail" => task[w].fault # ""

(* A plan at the version it was decided on is still what Decide picks.     *)
Current(w) ==
  pc[w] = "plan" =>
    /\ task[w].ver <= Len(log)
    /\ task[w].ver = Len(log) =>
         task[w].cmd = Decide(st) /\ st.pend = NoAction /\ Decide(st).type # "Noop"

(* A session whose context was cancelled has lost its lease for good.      *)
LostIsOver(w) == lost[w] => pc[w] \in InSession /\ ~Authority(w, held[w])

OwnerInv ==
  OnceInv /\ StoreInv /\ \A w \in Workers : Relies(w) /\ Current(w) /\ LostIsOver(w)

(* What one step may do to the locals of a worker.                         *)
Stays(v) ==
  /\ pc'[v] = pc[v] /\ held'[v] = held[v]
  /\ task'[v].cmd = task[v].cmd /\ task'[v].view = task[v].view
  /\ task'[v].made = task[v].made /\ task'[v].fault = task[v].fault
  /\ pc[v] = "plan" => task'[v] = task[v]

Moves(v) ==
  \/ DecideCommand(v) \/ RecoverCancelled(v) \/ RecoverPending(v) \/ LookupReceipt(v)
  \/ PlanAction(v) \/ ReloadPlanned(v) \/ Execute(v) \/ ExecuteFails(v)
  \/ RecordReceipt(v) \/ VerifyEvidence(v)

LEMMA StaysOrMoves ==
  ASSUME OnceInv, [Next]_vars, NEW v \in Workers
  PROVE  Stays(v) \/ pc'[v] \notin Working \/ Moves(v)
  <1>1. task \in [Workers -> Tasks]
    BY DEF OnceInv, ExecutionInv, PlanInv, TypeOK
  <1>2. ASSUME NEW w \in Workers, OnlyMoves(w), v # w PROVE Stays(v)
    BY <1>2 DEF OnlyMoves, Stays
  <1>3. ASSUME NEW w \in Workers,
               \/ Register(w) \/ Acquire(w) \/ Validate(w) \/ Poll(w) \/ SessionLost(w)
               \/ DecideNoop(w) \/ RecoverPaused(w) \/ Finish(w) \/ Crash(w)
        PROVE  Stays(v) \/ pc'[v] \notin Working
    BY <1>2, <1>3, LocalSteps
  <1>4. ASSUME NEW w \in Workers, Moves(w) PROVE Stays(v) \/ Moves(v)
    BY <1>2, <1>4, LoadSteps, LookupSteps, PlanSteps, WorkSteps DEF Moves, StepsWell
  <1>5. ASSUME NEW w \in Workers, RenewFails(w) PROVE Stays(v)
    BY <1>5 DEF RenewFails, Stays
  <1>6. ASSUME NEW w \in Workers, CompleteAction(w) \/ FailAction(w)
        PROVE  Stays(v) \/ pc'[v] \notin Working
    <2>1. CASE v # w
      BY <1>2, <1>6, <2>1, ResultSteps DEF StepsWell
    <2>2. CASE v = w
      <3>1. PICK e : AppendResult(v, e) /\ pc[v] \in {"complete", "fail"}
        BY <1>6, <2>2 DEF CompleteAction, FailAction, At
      <3>2. CASE pc'[v] \in {"finish", "exited"}
        BY <3>2 DEF Working
      <3>3. CASE pc'[v] \notin {"finish", "exited"}
        <4>1. /\ pc' = pc /\ held' = held
              /\ task' = [task EXCEPT ![v].ver = Len(log), ![v].again = TRUE]
          BY <3>1, <3>3 DEF AppendResult, Leave, Exit, Goto, OnceInv, ExecutionInv, PlanInv, TypeOK
        <4>. QED
          BY <1>1, <3>1, <4>1 DEF Stays, Tasks
      <3>. QED
        BY <3>2, <3>3
    <2>. QED
      BY <2>1, <2>2
  <1>7. ASSUME \/ \E d \in Intents : SetDesiredState(d)
               \/ Expire
               \/ \E act \in artifacts : LoseArtifact(act)
               \/ UNCHANGED vars
        PROVE  Stays(v)
    BY <1>7 DEF SetDesiredState, Expire, LoseArtifact, vars, Stays
  <1>. QED
    BY <1>3, <1>4, <1>5, <1>6, <1>7 DEF Next, WorkerStep, Moves

(* Under the lease of v, nobody but the operator writes while v waits.     *)
LEMMA OwnerAlone ==
  ASSUME OnceInv, [Next]_vars, NEW v \in Workers,
         pc'[v] = pc[v], held'[v] = held[v], Owns(v)'
  PROVE  /\ Owns(v) /\ receipts' = receipts
         /\ UNCHANGED store \/ \E d \in Intents : Appends(DesiredEvent(d))
  <1>1. /\ TypeOK /\ log \in Seq(Events)
        /\ pc \in [Workers -> InSession \cup Stopped \cup {"off", "acquire"}]
    BY DEF OnceInv, ExecutionInv, PlanInv, TypeOK
  <1>2. ~Acquire(v) /\ ~RecordReceipt(v) /\ ~PlanAction(v)
    <2>1. ~Acquire(v)
      BY <1>1 DEF Acquire, Goto
    <2>2. ~RecordReceipt(v)
      BY <1>1 DEF RecordReceipt, At, Leave, Exit, Goto
    <2>3. ~PlanAction(v)
      BY <1>1 DEF PlanAction, At, Leave, Exit, Goto, AfterNoop
    <2>. QED
      BY <2>1, <2>2, <2>3
  <1>3. Owns(v)
    BY <1>1, <1>2, OwnerStep DEF Owns
  <1>4. receipts' = receipts
    <2>1. ASSUME NEW w \in Workers, NewReceipt(w) PROVE FALSE
      <3>1. lease.worker = w
        BY <2>1 DEF NewReceipt, RecordOutcome, Authority
      <3>. QED
        BY <1>2, <1>3, <2>1, <3>1 DEF NewReceipt, Owns
    <2>. QED
      BY <1>1, <2>1, ReceiptStep
  <1>5. ASSUME NEW e, e.type \in WorkerEvents, Appends(e) PROVE e.worker = v
    BY <1>3, <1>5 DEF Appends, Authority, WorkerEvents, Owns
  <1>6. ASSUME NEW e \in Events, AppendResult(v, e), pc[v] \in {"complete", "fail"}, Appends(e)
        PROVE  FALSE
    <2>1. Len(log) \in Nat /\ Len(Append(log, e)) = Len(log) + 1 /\ log' = Append(log, e)
      BY <1>1, <1>6 DEF Appends
    <2>2. log' # log
      BY <2>1
    <2>3. AppendOutcome(e, task[v].ver) = "appended"
      BY <1>6, <2>2 DEF AppendResult, Commit, store
    <2>4. pc'[v] = "finish"
      BY <1>1, <1>6, <2>3 DEF AppendResult, Leave, Goto
    <2>. QED
      BY <1>6, <2>4
  <1>7. ASSUME NEW w \in Workers,
               \/ PlanAction(w) /\ Appends(PlannedEvent(w))
               \/ CompleteAction(w) /\ Appends(CompletedEvent(w))
               \/ FailAction(w) /\ Appends(FailedEvent(w))
        PROVE  FALSE
    <2>1. w = v
      BY <1>1, <1>5, <1>7, WorkerEventShape DEF WorkerEvents
    <2>2. CASE CompleteAction(v) /\ Appends(CompletedEvent(v))
      BY <1>6, <2>2 DEF CompleteAction, At, Appends
    <2>3. CASE FailAction(v) /\ Appends(FailedEvent(v))
      BY <1>6, <2>3 DEF FailAction, At, Appends
    <2>. QED
      BY <1>2, <1>7, <2>1, <2>2, <2>3
  <1>. QED
    BY <1>1, <1>3, <1>4, <1>7, StoreSteps DEF StoreStep

(* While a worker stays where it is, at most an operator's event comes in; *)
(* short of a cancel, that leaves all it relies on alone.                  *)
LEMMA ReliesStays ==
  ASSUME OwnerInv, [Next]_vars, NEW v \in Workers, Stays(v)
  PROVE  Relies(v)'
  <1>. SUFFICES ASSUME Owns(v)', st'.desired # "Cancelled" PROVE Relies(v)'
    BY DEF Relies
  <1>1. /\ OnceInv /\ TypeOK /\ RunInv(st) /\ st \in RunStates /\ st.exists
        /\ log \in Seq(Events) /\ Relies(v)
    BY DEF OwnerInv, OnceInv, ExecutionInv, PlanInv, TypeOK
  <1>2. /\ Owns(v) /\ receipts' = receipts
        /\ UNCHANGED store \/ \E d \in Intents : Appends(DesiredEvent(d))
    BY <1>1, OwnerAlone DEF Stays
  <1>3. st.desired # "Cancelled"
    BY <1>1, CancelStays
  <1>4. /\ PendingCommand(st') = PendingCommand(st) /\ st'.pend = st.pend
        /\ st'.pendScope = st.pendScope /\ st'.pendAid = st.pendAid
        /\ st'.failure = st.failure
        /\ \A act : Planned(act)' => Planned(act)
    <2>1. CASE UNCHANGED store
      BY <2>1 DEF store, Planned
    <2>2. ASSUME NEW d \in Intents, Appends(DesiredEvent(d)) PROVE <1>4!:
      <3>. DEFINE e == DesiredEvent(d)
      <3>1. /\ e \in Events /\ e.type = "DesiredStateChanged" /\ log' = Append(log, e)
            /\ st' = ApplyEvent(st, e) /\ ApplyEvent(st, e).exists
        BY <2>2 DEF Appends, DesiredEvent, Event
      <3>. HIDE DEF e
      <3>2. /\ st'.pendType = st.pendType /\ st'.pendScope = st.pendScope
            /\ st'.pendAid = st.pendAid
        BY <1>1, <3>1, DesiredIds, DesiredFields
      <3>3. st'.pend = st.pend /\ st'.failure = st.failure
        BY <1>1, <3>1, IntentEffect
      <3>4. \A i \in DOMAIN log' : (i \in DOMAIN log /\ log'[i] = log[i]) \/ log'[i] = e
        BY <1>1, <3>1, AppendedLog
      <3>5. \A act : Planned(act)' => Planned(act)
        BY <3>1, <3>4 DEF Planned
      <3>. QED
        BY <3>2, <3>3, <3>5 DEF PendingCommand
    <2>. QED
      BY <1>2, <2>1, <2>2
  <1>5. \A act : ReceiptOf(act)' = ReceiptOf(act)
    BY <1>2 DEF ReceiptOf
  <1>. QED
    BY <1>1, <1>2, <1>3, <1>4, <1>5 DEF Relies, Stays

LEMMA ReliesIdle ==
  ASSUME NEW w, pc'[w] \notin Working
  PROVE  Relies(w)'
  BY DEF Relies, Working, OnDuty

(* Rebuild, then Decide or recover.                                        *)
LEMMA ReliesLoad ==
  ASSUME OwnerInv, NEW w \in Workers,
         DecideCommand(w) \/ RecoverCancelled(w) \/ RecoverPending(w)
  PROVE  Relies(w)'
  <1>1. /\ TypeOK /\ st \in RunStates /\ st.exists /\ RunIds(st) /\ Past /\ PlansKeyed
    BY DEF OwnerInv, OnceInv, ExecutionInv, PlanInv, TypeOK
  <1>2. st' = st /\ log' = log
    BY DEF DecideCommand, RecoverCancelled, RecoverPending, store
  <1>3. CASE DecideCommand(w)
    <2>1. pc'[w] = "plan" /\ task'[w].cmd = Decide(st)
      <3>1. Begin(w, Decide(st), "", "plan")
        BY <1>3 DEF DecideCommand
      <3>. QED
        BY <1>1, <3>1, BegunTask
    <2>2. st.pend = NoAction /\ Decide(st).type # "Noop"
      BY <1>3 DEF DecideCommand
    <2>. DEFINE c == Decide(st)
    <2>3. /\ c.act = <<c.type, st.attempt, st.aid>>
          /\ st.desired # "Cancelled" => c.type \notin Behind(st)
      BY <1>1, <2>2, DecideShape
    <2>. HIDE DEF c
    <2>4. ActionType(c.act) = c.type
      BY <2>3 DEF ActionType
    <2>5. st.desired # "Cancelled" =>
            \A i \in DOMAIN log : log[i].type = "ActionPlanned" => log[i].act # c.act
      BY <1>1, <2>2, <2>3, <2>4 DEF Past, PlansKeyed
    <2>6. task'[w].cmd.act = c.act
      BY <2>1 DEF c
    <2>. QED
      BY <1>2, <2>1, <2>5, <2>6 DEF Relies, Planned, OnDuty
  <1>4. CASE RecoverCancelled(w)
    BY <1>2, <1>4 DEF RecoverCancelled, Relies
  <1>5. CASE RecoverPending(w)
    <2>1. pc'[w] = "lookup" /\ task'[w].cmd = PendingCommand(st) /\ task'[w].view = st
      <3>1. Begin(w, PendingCommand(st), "", "lookup")
        BY <1>5 DEF RecoverPending
      <3>. QED
        BY <1>1, <3>1, BegunTask
    <2>2. st.pend # NoAction
      BY <1>5 DEF RecoverPending
    <2>. QED
      BY <1>2, <2>1, <2>2 DEF Relies
  <1>. QED
    BY <1>3, <1>4, <1>5

(* What the worker knows when it acts as the owner.                        *)
LEMMA ReliesLookup ==
  ASSUME OwnerInv, NEW w \in Workers, LookupReceipt(w)
  PROVE  Relies(w)'
  <1>1. /\ pc \in [Workers -> InSession \cup Stopped \cup {"off", "acquire"}]
        /\ task \in [Workers -> Tasks] /\ Relies(w)
    BY DEF OwnerInv, OnceInv, ExecutionInv, PlanInv, TypeOK
  <1>2. /\ st' = st /\ log' = log /\ lease' = lease /\ held' = held /\ receipts' = receipts
        /\ pc[w] = "lookup"
    BY DEF LookupReceipt, store, At
  <1>. SUFFICES ASSUME Owns(w)', st'.desired # "Cancelled" PROVE Relies(w)'
    BY DEF Relies
  <1>3. /\ st.pend # NoAction /\ task[w].cmd = PendingCommand(st)
        /\ task[w].view.pendScope = st.pendScope /\ task[w].view.failure = st.failure
    BY <1>1, <1>2 DEF Relies, Owns, OnDuty
  <1>4. PendingCommand(st).act = st.pend
    BY PendingCommandAct
  <1>5. ASSUME NEW r \in ReceiptOf(task[w].cmd.act), task' = [task EXCEPT ![w].made = Draft(r)],
               Goto(w, "verify")
        PROVE  Relies(w)'
    <2>1. /\ pc'[w] = "verify" /\ task'[w].cmd = task[w].cmd /\ task'[w].made = Draft(r)
      BY <1>1, <1>5 DEF Goto, Tasks
    <2>2. r \in receipts /\ Draft(r).act = st.pend
      BY <1>3, <1>4, <1>5 DEF ReceiptOf, Draft
    <2>. QED
      BY <1>2, <1>3, <2>1, <2>2 DEF Relies
  <1>6. ASSUME task' = [task EXCEPT ![w].fault = "no_receipt"], Goto(w, "fail")
        PROVE  Relies(w)'
    <2>1. pc'[w] = "fail" /\ task'[w].cmd = task[w].cmd /\ task'[w].fault = "no_receipt"
      BY <1>1, <1>6 DEF Goto, Tasks
    <2>. QED
      BY <1>2, <1>3, <2>1 DEF Relies
  <1>7. ASSUME ReceiptOf(task[w].cmd.act) = {}, Goto(w, "exec"), task' = task
        PROVE  Relies(w)'
    <2>1. pc'[w] = "exec"
      BY <1>1, <1>7 DEF Goto
    <2>2. ReceiptOf(task[w].cmd.act)' = {}
      BY <1>2, <1>7 DEF ReceiptOf
    <2>. QED
      BY <1>2, <1>3, <1>7, <2>1, <2>2 DEF Relies
  <1>. QED
    BY <1>5, <1>6, <1>7 DEF LookupReceipt

(* A plan under the lease and before a cancel is appended or refused: it   *)
(* is new, so nothing can be replayed, and its action has no receipt.      *)
LEMMA ReliesPlan ==
  ASSUME OwnerInv, [Next]_vars, NEW w \in Workers, PlanAction(w)
  PROVE  Relies(w)'
  <1>. DEFINE e == PlannedEvent(w)
              outcome == AppendOutcome(e, task[w].ver)
              cmd == task[w].cmd
  <1>1. /\ pc \in [Workers -> InSession \cup Stopped \cup {"off", "acquire"}]
        /\ task \in [Workers -> Tasks] /\ TypeOK /\ RunInv(st) /\ log \in Seq(Events)
        /\ st \in RunStates /\ st.exists
        /\ Knows(w, pc[w], task[w], held[w], st, log, executed, lease)
        /\ Relies(w) /\ ReceiptsEarned
    BY DEF OwnerInv, OnceInv, ExecutionInv, PlanInv, TypeOK, AllKnow, StoreInv
  <1>2. lease' = lease /\ held' = held /\ receipts' = receipts /\ pc[w] = "plan"
    BY DEF PlanAction, At
  <1>3. /\ e.type = "ActionPlanned" /\ e.act = cmd.act /\ e.aid = cmd.aid /\ e \in Events
    BY <1>1, PlannedEventType, Zenon DEF PlannedEvent, Event
  <1>4. CASE outcome \notin {"appended", "replayed"}
    <2>1. pc'[w] \notin Working
      BY <1>1, <1>4 DEF PlanAction, Leave, Exit, Goto, AfterNoop, Working
    <2>. QED
      BY <2>1, ReliesIdle
  <1>5. CASE outcome \in {"appended", "replayed"}
    <2>. SUFFICES ASSUME Owns(w)', st'.desired # "Cancelled" PROVE Relies(w)'
      BY DEF Relies
    <2>1. pc'[w] = "reload" /\ task'[w].cmd = cmd
      BY <1>1, <1>5 DEF PlanAction, Goto, Tasks
    <2>2. Owns(w) /\ st.desired # "Cancelled"
      BY <1>1, <1>2, CancelStays DEF Owns
    <2>3. ~Planned(cmd.act)
      BY <1>1, <1>2, <2>2 DEF Relies
    <2>4. outcome = "appended"
      <3>. SUFFICES ASSUME outcome = "replayed" PROVE FALSE
        BY <1>5
      <3>1. \E i \in DOMAIN log : log[i] = e
        BY DEF AppendOutcome
      <3>. QED
        BY <1>3, <2>3, <3>1 DEF Planned
    <2>5. st' = ApplyEvent(st, e) /\ ApplyEvent(st, e).exists
      BY <2>4 DEF PlanAction, Commit, AppendOutcome
    <2>6. ActionType(cmd.act) = cmd.type /\ cmd \in Commands
      BY <1>1, <1>2 DEF Knows, Working, Tasks
    <2>. HIDE DEF e
    <2>7. /\ st'.pend = cmd.act /\ st'.pend # NoAction
          /\ st'.pendType = cmd.type /\ st'.pendAid = cmd.aid
      BY <1>1, <1>3, <2>5, <2>6, PlannedIds, PlannedFields, PendingEffect,
         SMTT(30)
    <2>8. cmd = PendingCommand(st')
      <3>1. cmd = [type |-> cmd.type, act |-> cmd.act, aid |-> cmd.aid]
        BY <2>6 DEF Commands
      <3>. QED
        BY <2>7, <3>1 DEF PendingCommand
    <2>9. ReceiptOf(cmd.act) = {}
      BY <1>1, <2>3 DEF ReceiptOf, ReceiptsEarned, PlansOf, Planned
    <2>10. ReceiptOf(task[w].cmd.act)' = {}
      BY <1>2, <2>1, <2>9 DEF ReceiptOf
    <2>. HIDE DEF cmd
    <2>. QED
      BY <2>1, <2>7, <2>8, <2>10 DEF Relies
  <1>. QED
    BY <1>4, <1>5

LEMMA ReliesReload ==
  ASSUME OwnerInv, NEW w \in Workers, ReloadPlanned(w)
  PROVE  Relies(w)'
  <1>1. /\ pc \in [Workers -> InSession \cup Stopped \cup {"off", "acquire"}]
        /\ task \in [Workers -> Tasks] /\ Relies(w)
    BY DEF OwnerInv, OnceInv, ExecutionInv, PlanInv, TypeOK
  <1>2. /\ st' = st /\ lease' = lease /\ held' = held /\ receipts' = receipts
        /\ pc[w] = "reload" /\ pc'[w] = "exec"
        /\ task'[w].cmd = task[w].cmd /\ task'[w].view = st
    BY <1>1 DEF ReloadPlanned, store, At, Goto, Tasks
  <1>3. Owns(w) /\ st.desired # "Cancelled" =>
          /\ st.pend # NoAction /\ task[w].cmd = PendingCommand(st)
          /\ ReceiptOf(task[w].cmd.act) = {}
    BY <1>1, <1>2 DEF Relies, OnDuty
  <1>4. ReceiptOf(task[w].cmd.act)' = ReceiptOf(task[w].cmd.act)
    BY <1>2 DEF ReceiptOf
  <1>5. Owns(w)' => Owns(w)
    BY <1>2 DEF Owns
  <1>. QED
    BY <1>2, <1>3, <1>4, <1>5 DEF Relies

(* The executor's output is the one that the plan asks for.                *)
LEMMA ReliesExecute ==
  ASSUME OwnerInv, NEW w \in Workers, Execute(w)
  PROVE  Relies(w)'
  <1>. DEFINE cmd == task[w].cmd
  <1>1. /\ pc \in [Workers -> InSession \cup Stopped \cup {"off", "acquire"}]
        /\ task \in [Workers -> Tasks] /\ Relies(w) /\ RunInv(st) /\ RunIds(st) /\ Fits(st)
    BY DEF OwnerInv, OnceInv, ExecutionInv, PlanInv, TypeOK, StoreInv
  <1>2. /\ st' = st /\ lease' = lease /\ held' = held /\ receipts' = receipts
        /\ pc[w] = "exec" /\ pc'[w] = "record"
    BY <1>1 DEF Execute, store, Goto
  <1>. DEFINE Made(answer) ==
         [act |-> cmd.act, scope |-> task[w].view.pendScope,
          aid |-> IF cmd.type = "StartAttempt" THEN cmd.aid ELSE 0,
          tool |-> answer,
          reason |-> IF cmd.type = "FailRun" THEN task[w].view.failure ELSE ""]
              answers == IF cmd.type = "RunReasoner" THEN Outputs ELSE {""}
  <1>3. PICK answer \in answers :
          task' = [task EXCEPT ![w].made = Made(answer)]
    BY DEF Execute
  <1>. DEFINE made == Made(answer)
  <1>4. /\ made.act = cmd.act /\ made.scope = task[w].view.pendScope
        /\ cmd.type = "StartAttempt" => made.aid = cmd.aid
        /\ cmd.type = "RunReasoner" => made.tool \in Outputs
        /\ cmd.type = "FailRun" => made.reason = task[w].view.failure
    BY <1>3, Zenon
  <1>. HIDE DEF Made, answers
  <1>5. task'[w].cmd = cmd /\ task'[w].made = made
    BY <1>1, <1>3 DEF Tasks
  <1>. HIDE DEF made
  <1>. SUFFICES ASSUME Owns(w)', st'.desired # "Cancelled" PROVE Relies(w)'
    BY DEF Relies
  <1>6. /\ st.pend # NoAction /\ cmd = PendingCommand(st)
        /\ task[w].view.pendScope = st.pendScope /\ task[w].view.failure = st.failure
        /\ ReceiptOf(cmd.act) = {}
    BY <1>1, <1>2 DEF Relies, OnDuty, Owns
  <1>7. cmd.type = st.pendType /\ cmd.act = st.pend /\ cmd.aid = st.pendAid
    BY <1>6 DEF PendingCommand
  <1>8. ActionType(made.act) = cmd.type
    BY <1>1, <1>4, <1>7 DEF RunIds
  <1>9. /\ cmd.type = "StartAttempt" => st.pendAid # 0
        /\ cmd.type = "FailRun" => st.failure # ""
    BY <1>1, <1>6, <1>7 DEF Fits, RunInv
  <1>10. \A tool \in Outputs : tool # ""
    BY ConstantsAssumption
  <1>11. ValidateManagedActionOutput(made, st.pendAid)
    BY <1>4, <1>6, <1>7, <1>8, <1>9, <1>10 DEF ValidateManagedActionOutput
  <1>12. ReceiptOf(task[w].cmd.act)' = {}
    BY <1>2, <1>5, <1>6 DEF ReceiptOf
  <1>. HIDE DEF cmd
  <1>. QED
    BY <1>2, <1>4, <1>5, <1>6, <1>7, <1>11, <1>12 DEF Relies

LEMMA ReliesExecuteFails ==
  ASSUME OwnerInv, NEW w \in Workers, ExecuteFails(w)
  PROVE  Relies(w)'
  <1>1. /\ pc \in [Workers -> InSession \cup Stopped \cup {"off", "acquire"}]
        /\ task \in [Workers -> Tasks] /\ Relies(w)
    BY DEF OwnerInv, OnceInv, ExecutionInv, PlanInv, TypeOK
  <1>2. /\ st' = st /\ lease' = lease /\ held' = held
        /\ pc[w] = "exec" /\ pc'[w] = "fail"
        /\ task'[w].cmd = task[w].cmd /\ task'[w].fault = "executor"
    BY <1>1 DEF ExecuteFails, store, Goto, Tasks
  <1>. QED
    BY <1>1, <1>2 DEF Relies, OnDuty, Owns

LEMMA ReliesRecord ==
  ASSUME OwnerInv, NEW w \in Workers, RecordReceipt(w)
  PROVE  Relies(w)'
  <1>. DEFINE made == task[w].made
              new == StoredReceipt(w)
  <1>1. /\ pc \in [Workers -> InSession \cup Stopped \cup {"off", "acquire"}]
        /\ task \in [Workers -> Tasks] /\ Relies(w)
    BY DEF OwnerInv, OnceInv, ExecutionInv, PlanInv, TypeOK
  <1>2. st' = st /\ lease' = lease /\ held' = held /\ pc[w] = "record"
    BY DEF RecordReceipt, store, At
  <1>3. CASE RecordOutcome(w) # "recorded"
    <2>1. pc'[w] \in {"acquire", "exited"}
      BY <1>1, <1>3 DEF RecordReceipt, Leave, Exit, Goto
    <2>. QED
      BY <2>1, ReliesIdle DEF Working
  <1>4. CASE RecordOutcome(w) = "recorded"
    <2>. SUFFICES ASSUME Owns(w)', st'.desired # "Cancelled" PROVE Relies(w)'
      BY DEF Relies
    <2>1. /\ st.pend # NoAction /\ task[w].cmd = PendingCommand(st)
          /\ ReceiptOf(task[w].cmd.act) = {} /\ made.act = st.pend
      BY <1>1, <1>2 DEF Relies, OnDuty, Owns
    <2>2. ReceiptOf(made.act) = {}
      BY <2>1, PendingCommandAct
    <2>3. /\ pc'[w] = "verify" /\ task' = task /\ receipts' = receipts \cup {new}
      BY <1>1, <1>4, <2>2 DEF RecordReceipt, Goto
    <2>4. Draft(new) = made
      <3>1. made \in Drafts
        BY <1>1 DEF Tasks
      <3>2. made = [act |-> made.act, scope |-> made.scope, aid |-> made.aid,
                    tool |-> made.tool, reason |-> made.reason]
        BY <3>1 DEF Drafts
      <3>. QED
        BY <3>2, Zenon DEF Draft, StoredReceipt
    <2>. HIDE DEF new
    <2>. QED
      BY <1>2, <2>1, <2>3, <2>4 DEF Relies
  <1>. QED
    BY <1>3, <1>4

LEMMA ReliesVerify ==
  ASSUME OwnerInv, NEW w \in Workers, VerifyEvidence(w)
  PROVE  Relies(w)'
  <1>1. /\ pc \in [Workers -> InSession \cup Stopped \cup {"off", "acquire"}]
        /\ task \in [Workers -> Tasks] /\ Relies(w)
    BY DEF OwnerInv, OnceInv, ExecutionInv, PlanInv, TypeOK
  <1>2. /\ st' = st /\ lease' = lease /\ held' = held /\ receipts' = receipts
        /\ pc[w] = "verify"
        /\ \/ Goto(w, "complete") /\ task' = task
           \/ Goto(w, "fail") /\ task' = [task EXCEPT ![w].fault = "evidence"]
    BY ZenonT(30) DEF VerifyEvidence, store, At
  <1>3. CASE Goto(w, "complete") /\ task' = task
    <2>1. pc'[w] = "complete"
      BY <1>1, <1>3 DEF Goto
    <2>. QED
      BY <1>1, <1>2, <1>3, <2>1 DEF Relies, OnDuty, Owns
  <1>4. CASE Goto(w, "fail") /\ task' = [task EXCEPT ![w].fault = "evidence"]
    <2>1. pc'[w] = "fail" /\ task'[w].cmd = task[w].cmd /\ task'[w].fault = "evidence"
      BY <1>1, <1>4 DEF Goto, Tasks
    <2>. QED
      BY <1>1, <1>2, <2>1 DEF Relies, OnDuty, Owns
  <1>. QED
    BY <1>2, <1>3, <1>4

LEMMA ReliesStep ==
  ASSUME OwnerInv, [Next]_vars, NEW w \in Workers
  PROVE  Relies(w)'
  <1>1. Stays(w) \/ pc'[w] \notin Working \/ Moves(w)
    BY StaysOrMoves DEF OwnerInv
  <1>. QED
    BY <1>1, ReliesStays, ReliesIdle, ReliesLoad, ReliesLookup, ReliesPlan, ReliesReload,
       ReliesExecute, ReliesExecuteFails, ReliesRecord, ReliesVerify DEF Moves

LEMMA CurrentStep ==
  ASSUME OwnerInv, [Next]_vars, NEW w \in Workers
  PROVE  Current(w)'
  <1>1. /\ OnceInv /\ TypeOK /\ log \in Seq(Events) /\ task \in [Workers -> Tasks]
        /\ pc \in [Workers -> InSession \cup Stopped \cup {"off", "acquire"}] /\ Current(w)
    BY DEF OwnerInv, OnceInv, ExecutionInv, PlanInv, TypeOK
  <1>. SUFFICES ASSUME pc'[w] = "plan" PROVE Current(w)'
    BY DEF Current
  <1>2. CASE Stays(w)
    <2>1. pc[w] = "plan" /\ task'[w] = task[w] /\ task[w].ver <= Len(log)
      BY <1>1, <1>2 DEF Stays, Current
    <2>2. CASE UNCHANGED store
      BY <1>1, <2>1, <2>2 DEF Current, store
    <2>3. ASSUME NEW e \in Events, Appends(e) PROVE Current(w)'
      <3>1. log' = Append(log, e) /\ Len(log) \in Nat /\ Len(Append(log, e)) = Len(log) + 1
        BY <1>1, <2>3 DEF Appends
      <3>2. task[w].ver \in Nat
        BY <1>1 DEF Tasks
      <3>3. task[w].ver <= Len(log') /\ task[w].ver # Len(log')
        BY <2>1, <3>1, <3>2
      <3>. QED
        BY <2>1, <3>3 DEF Current
    <2>. QED
      BY <1>1, <2>2, <2>3, LogStep
  <1>3. CASE Moves(w)
    <2>1. DecideCommand(w)
      <3>1. ~RecoverCancelled(w) /\ ~RecoverPending(w)
        BY <1>1 DEF RecoverCancelled, RecoverPending, Begin, Goto
      <3>2. ~LookupReceipt(w) /\ ~PlanAction(w) /\ ~ReloadPlanned(w)
        BY <1>1 DEF LookupReceipt, PlanAction, ReloadPlanned, Leave, Exit, AfterNoop, Goto
      <3>3. ~Execute(w) /\ ~ExecuteFails(w) /\ ~RecordReceipt(w) /\ ~VerifyEvidence(w)
        BY <1>1 DEF Execute, ExecuteFails, RecordReceipt, VerifyEvidence, Leave, Exit, Goto
      <3>. QED
        BY <1>3, <3>1, <3>2, <3>3 DEF Moves
    <2>2. log' = log /\ st' = st /\ st.pend = NoAction /\ Decide(st).type # "Noop"
      BY <2>1, Zenon DEF DecideCommand, store
    <2>3. task'[w].ver = Len(log) /\ task'[w].cmd = Decide(st)
      <3>1. Begin(w, Decide(st), "", "plan")
        BY <2>1, Zenon DEF DecideCommand
      <3>. QED
        BY <1>1, <3>1, BegunTask, Zenon
    <2>4. Len(log) \in Nat
      BY <1>1
    <2>. QED
      BY <2>2, <2>3, <2>4 DEF Current
  <1>. QED
    BY <1>1, <1>2, <1>3, StaysOrMoves DEF Working

(* Only the renewal goroutine of w gives its session up.                   *)
LEMMA LostChanges ==
  ASSUME [Next]_vars
  PROVE  lost' = lost \/ \E w \in Workers : RenewFails(w) \/ SessionLost(w) \/ Crash(w)
  <1>1. ASSUME NEW w \in Workers,
               \/ Register(w) \/ Acquire(w) \/ Validate(w) \/ Poll(w)
               \/ DecideNoop(w) \/ DecideCommand(w)
               \/ RecoverPaused(w) \/ RecoverCancelled(w) \/ RecoverPending(w)
               \/ LookupReceipt(w) \/ PlanAction(w) \/ ReloadPlanned(w)
               \/ Execute(w) \/ ExecuteFails(w) \/ RecordReceipt(w) \/ VerifyEvidence(w)
               \/ CompleteAction(w) \/ FailAction(w) \/ Finish(w)
        PROVE  lost' = lost
    BY <1>1, Zenon
    DEF Register, Acquire, Validate, Poll, DecideNoop, DecideCommand,
        RecoverPaused, RecoverCancelled, RecoverPending, LookupReceipt, PlanAction,
        ReloadPlanned, Execute, ExecuteFails, RecordReceipt, VerifyEvidence,
        CompleteAction, FailAction, AppendResult, Finish
  <1>2. ASSUME \/ \E d \in Intents : SetDesiredState(d)
               \/ Expire
               \/ \E act \in artifacts : LoseArtifact(act)
               \/ UNCHANGED vars
        PROVE  lost' = lost
    BY <1>2 DEF SetDesiredState, Expire, LoseArtifact, vars
  <1>. QED
    BY <1>1, <1>2 DEF Next, WorkerStep

(* A cancelled session can still finish an external effect, nothing else.  *)
LEMMA LostStays ==
  ASSUME OnceInv, [Next]_vars, NEW v \in Workers, lost[v], pc[v] \in InSession, lost'[v]
  PROVE  pc'[v] \in InSession /\ held'[v] = held[v] /\ ~Acquire(v)
  <1>1. /\ pc \in [Workers -> InSession \cup Stopped \cup {"off", "acquire"}]
        /\ lost \in [Workers -> BOOLEAN]
    BY DEF OnceInv, ExecutionInv, PlanInv, TypeOK
  <1>. DEFINE Good == pc'[v] \in InSession /\ held'[v] = held[v]
  <1>0. pc[v] \notin {"off", "acquire"}
    BY DEF InSession
  <1>2. ASSUME NEW w \in Workers, OnlyMoves(w), v # w PROVE Good
    BY <1>2 DEF OnlyMoves
  <1>3. ~SessionLost(v) /\ ~Crash(v)
    BY <1>1 DEF SessionLost, Crash
  <1>4. \A l : ~At(v, l)
    BY DEF At
  <1>5. ASSUME NEW w \in Workers,
               \/ Register(w) \/ Acquire(w) \/ Validate(w) \/ Poll(w) \/ SessionLost(w)
               \/ DecideNoop(w) \/ RecoverPaused(w) \/ Finish(w) \/ Crash(w)
        PROVE  Good
    <2>1. v # w
      BY <1>0, <1>3, <1>4, <1>5
      DEF Register, Acquire, Validate, Poll, DecideNoop, RecoverPaused, Finish
    <2>. QED
      BY <1>2, <1>5, <2>1, LocalSteps
  <1>6. ASSUME NEW w \in Workers,
               \/ DecideCommand(w) \/ RecoverCancelled(w) \/ RecoverPending(w)
               \/ LookupReceipt(w) \/ PlanAction(w) \/ ReloadPlanned(w)
               \/ RecordReceipt(w) \/ VerifyEvidence(w)
               \/ CompleteAction(w) \/ FailAction(w)
        PROVE  Good
    <2>1. v # w
      BY <1>4, <1>6
      DEF DecideCommand, RecoverCancelled, RecoverPending, LookupReceipt, PlanAction,
          ReloadPlanned, RecordReceipt, VerifyEvidence, CompleteAction, FailAction
    <2>2. OnlyMoves(w)
      BY <1>6, LoadSteps, LookupSteps, PlanSteps, WorkSteps, ResultSteps DEF StepsWell
    <2>. QED
      BY <1>2, <2>1, <2>2
  <1>7. ASSUME NEW w \in Workers, Execute(w) \/ ExecuteFails(w) PROVE Good
    <2>1. CASE v # w
      BY <1>2, <1>7, <2>1, WorkSteps DEF StepsWell
    <2>2. CASE v = w
      BY <1>1, <1>7, <2>2 DEF Execute, ExecuteFails, Goto, InSession
    <2>. QED
      BY <2>1, <2>2
  <1>8. ASSUME NEW w \in Workers, RenewFails(w) PROVE Good
    BY <1>8 DEF RenewFails
  <1>9. ASSUME \/ \E d \in Intents : SetDesiredState(d)
               \/ Expire
               \/ \E act \in artifacts : LoseArtifact(act)
               \/ UNCHANGED vars
        PROVE  Good
    BY <1>9 DEF SetDesiredState, Expire, LoseArtifact, vars
  <1>10. Good
    BY <1>5, <1>6, <1>7, <1>8, <1>9 DEF Next, WorkerStep
  <1>. QED
    BY <1>0, <1>10 DEF Acquire

LEMMA LostStep ==
  ASSUME OwnerInv, [Next]_vars, NEW v \in Workers
  PROVE  LostIsOver(v)'
  <1>1. /\ OnceInv /\ TypeOK /\ LostIsOver(v) /\ lost \in [Workers -> BOOLEAN]
        /\ lease \in [worker : Workers \cup {NoWorker}, token : Nat, live : BOOLEAN]
    BY DEF OwnerInv, OnceInv, ExecutionInv, PlanInv, TypeOK
  <1>. SUFFICES ASSUME lost'[v] PROVE LostIsOver(v)'
    BY DEF LostIsOver
  <1>2. CASE lost[v]
    <2>1. pc[v] \in InSession /\ ~Authority(v, held[v])
      BY <1>1, <1>2 DEF LostIsOver
    <2>2. pc'[v] \in InSession /\ held'[v] = held[v] /\ ~Acquire(v)
      BY <1>1, <1>2, <2>1, LostStays
    <2>3. ~Authority(v, held[v])'
      BY <1>1, <2>1, <2>2, OwnerStep DEF Authority
    <2>. QED
      BY <2>2, <2>3 DEF LostIsOver
  <1>3. CASE ~lost[v]
    <2>1. RenewFails(v)
      <3>1. ASSUME NEW w \in Workers, SessionLost(w) \/ Crash(w) PROVE FALSE
        BY <1>1, <1>3, <3>1 DEF SessionLost, Crash
      <3>2. ASSUME NEW w \in Workers, RenewFails(w) PROVE w = v
        BY <1>1, <1>3, <3>2 DEF RenewFails
      <3>. QED
        BY <1>3, <3>1, <3>2, LostChanges
    <2>. QED
      BY <2>1 DEF RenewFails, LostIsOver, Authority
  <1>. QED
    BY <1>2, <1>3

LEMMA OwnerInvStep == OwnerInv /\ [Next]_vars => OwnerInv'
  <1>. SUFFICES ASSUME OwnerInv, [Next]_vars PROVE OwnerInv'
    OBVIOUS
  <1>1. OnceInv /\ StoreInv /\ TypeOK /\ RunInv(st) /\ RunIds(st)
    BY DEF OwnerInv, OnceInv, ExecutionInv, PlanInv
  <1>2. OnceInv' /\ StoreInv'
    BY <1>1, OnceStep, StoreInvStep
  <1>3. \A w \in Workers : Relies(w)' /\ Current(w)' /\ LostIsOver(w)'
    BY ReliesStep, CurrentStep, LostStep
  <1>. QED
    BY <1>2, <1>3 DEF OwnerInv

LEMMA OwnerInvInit == Init => OwnerInv
  <1>. SUFFICES ASSUME Init PROVE OwnerInv
    OBVIOUS
  <1>1. \A w \in Workers : pc[w] = "off" /\ lost[w] = FALSE
    BY DEF Init
  <1>2. \A w \in Workers : Relies(w) /\ Current(w) /\ LostIsOver(w)
    BY <1>1 DEF Relies, Current, LostIsOver, OnDuty
  <1>. QED
    BY <1>2, OnceInit, StoreInvInit DEF OwnerInv

(* Only five steps of w can make it return an error.                       *)
LEMMA StopChanges ==
  ASSUME TypeOK, [Next]_vars, NEW v \in Workers, stop'[v] # stop[v]
  PROVE  \/ SessionLost(v) \/ PlanAction(v) \/ RecordReceipt(v)
         \/ CompleteAction(v) \/ FailAction(v)
  <1>1. stop \in [Workers -> StopReasons]
    BY DEF TypeOK
  <1>2. ASSUME NEW w \in Workers,
               \/ Register(w) \/ Acquire(w) \/ Validate(w) \/ Poll(w)
               \/ DecideNoop(w) \/ DecideCommand(w)
               \/ RecoverPaused(w) \/ RecoverCancelled(w) \/ RecoverPending(w)
               \/ LookupReceipt(w) \/ ReloadPlanned(w)
               \/ Execute(w) \/ ExecuteFails(w) \/ VerifyEvidence(w)
               \/ Finish(w) \/ RenewFails(w) \/ Crash(w)
        PROVE  stop' = stop
    BY <1>2, Zenon
    DEF Register, Acquire, Validate, Poll, DecideNoop, DecideCommand,
        RecoverPaused, RecoverCancelled, RecoverPending, LookupReceipt,
        ReloadPlanned, Execute, ExecuteFails, VerifyEvidence, Finish, RenewFails, Crash
  <1>3. ASSUME \/ \E d \in Intents : SetDesiredState(d)
               \/ Expire
               \/ \E act \in artifacts : LoseArtifact(act)
               \/ UNCHANGED vars
        PROVE  stop' = stop
    BY <1>3 DEF SetDesiredState, Expire, LoseArtifact, vars
  <1>4. ASSUME NEW w \in Workers, v # w,
               \/ SessionLost(w) \/ PlanAction(w) \/ RecordReceipt(w)
               \/ CompleteAction(w) \/ FailAction(w)
        PROVE  stop'[v] = stop[v]
    <2>1. stop' = stop \/ \E why : stop' = [stop EXCEPT ![w] = why]
      BY <1>4, ZenonT(30) DEF SessionLost, PlanAction, RecordReceipt, CompleteAction, FailAction,
                   AppendResult, Exit
    <2>. QED
      BY <1>1, <1>4, <2>1
  <1>. QED
    BY <1>2, <1>3, <1>4 DEF Next, WorkerStep

(* The owner's plan, before a cancel.                                      *)
LEMMA OwnerPlans ==
  ASSUME OwnerInv, NEW w \in Workers, PlanAction(w), Authority(w, held[w]),
         st.desired # "Cancelled"
  PROVE  stop' = stop
  <1>. DEFINE e == PlannedEvent(w)
              cmd == task[w].cmd
  <1>1. /\ TypeOK /\ st \in RunStates /\ st.exists /\ Keyed /\ Relies(w) /\ Current(w)
        /\ task \in [Workers -> Tasks]
    BY DEF OwnerInv, OnceInv, ExecutionInv, PlanInv, TypeOK, StoreInv
  <1>2. /\ e.type = "ActionPlanned" /\ e.act = cmd.act /\ e.aid = cmd.aid /\ e \in Events
        /\ e.worker = w /\ e.token = held[w] /\ e.scope = Safety(cmd)
        /\ e.key = <<cmd.act, "action-planned", 0>>
    BY <1>1, PlannedEventType, Zenon DEF PlannedEvent, Event
  <1>. HIDE DEF e
  <1>3. pc[w] = "plan" /\ Owns(w)
    BY DEF PlanAction, At, Authority, Owns
  <1>4. ~Planned(cmd.act)
    BY <1>1, <1>3 DEF Relies
  <1>5. {i \in DOMAIN log : log[i].key = e.key} = {}
    BY <1>1, <1>2, <1>4, PlanKeyFree
  <1>6. Len(log) = task[w].ver => ApplyEvent(st, e).exists
    <2>. SUFFICES ASSUME Len(log) = task[w].ver PROVE ApplyEvent(st, e).exists
      OBVIOUS
    <2>1. cmd = Decide(st) /\ st.pend = NoAction /\ Decide(st).type # "Noop"
      BY <1>1, <1>3 DEF Current
    <2>2. e.scope \in IdempotencyScopes
      BY <1>2 DEF Safety, IdempotencyScopes
    <2>. QED
      BY <1>1, <1>2, <2>1, <2>2, PlanAccepted
  <1>7. AppendOutcome(e, task[w].ver) \in {"appended", "version_conflict"}
    BY <1>2, <1>5, <1>6 DEF AppendOutcome
  <1>. QED
    BY <1>7 DEF PlanAction, e

(* The owner's receipt, before a cancel, is recorded.                      *)
LEMMA OwnerRecords ==
  ASSUME OwnerInv, NEW w \in Workers, RecordReceipt(w), Authority(w, held[w]),
         st.desired # "Cancelled"
  PROVE  stop' = stop
  <1>. DEFINE made == task[w].made
  <1>1. /\ PendingIsOpen /\ PendingPlan /\ Fits(st) /\ Relies(w)
    BY DEF OwnerInv, OnceInv, ExecutionInv, PlanInv, StoreInv
  <1>2. pc[w] = "record" /\ Owns(w)
    BY DEF RecordReceipt, At, Authority, Owns
  <1>3. /\ st.pend # NoAction /\ task[w].cmd = PendingCommand(st)
        /\ ReceiptOf(task[w].cmd.act) = {}
        /\ made.act = st.pend /\ made.scope = st.pendScope
        /\ ValidateManagedActionOutput(made, st.pendAid)
    BY <1>1, <1>2 DEF Relies, OnDuty
  <1>4. made.scope \in IdempotencyScopes /\ ~Resolved(made.act)
    BY <1>1, <1>3 DEF Fits, PendingIsOpen
  <1>5. ReceiptOf(made.act) = {}
    BY <1>3, PendingCommandAct
  <1>6. \E i \in PlansOf(made) : ValidateManagedActionOutput(made, log[i].aid)
    BY <1>1, <1>3 DEF PendingPlan, PlansOf
  <1>. HIDE DEF made
  <1>7. RecordOutcome(w) = "recorded"
    BY <1>4, <1>5, <1>6 DEF RecordOutcome, made
  <1>. QED
    BY <1>7 DEF RecordReceipt

(* The owner's failure, before a cancel.                                   *)
LEMMA OwnerFails ==
  ASSUME OwnerInv, NEW w \in Workers, FailAction(w), Authority(w, held[w]),
         st.desired # "Cancelled", stop'[w] # stop[w]
  PROVE  stop'[w] = "version_conflict"
  <1>. DEFINE e == FailedEvent(w)
              cmd == task[w].cmd
  <1>1. /\ TypeOK /\ RunInv(st) /\ RunIds(st) /\ Fits(st) /\ Keyed /\ PendingIsOpen
        /\ Relies(w) /\ stop \in [Workers -> StopReasons]
    BY DEF OwnerInv, OnceInv, ExecutionInv, PlanInv, TypeOK, StoreInv
  <1>2. /\ e.type = "ActionFailed" /\ e.act = cmd.act /\ e.reason = task[w].fault
        /\ e.outcome = OutcomeOf(task[w].fault)
        /\ e.worker = w /\ e.token = held[w] /\ e.key = <<cmd.act, e.outcome, 0>>
    BY Zenon DEF FailedEvent, Event
  <1>3. e \in Events /\ e.outcome \in ActionOutcomes
    BY <1>1, <1>2, FailedEventType DEF OutcomeOf, ActionOutcomes
  <1>. HIDE DEF e
  <1>4. pc[w] = "fail" /\ Owns(w)
    BY DEF FailAction, At, Authority, Owns
  <1>5. st.pend # NoAction /\ cmd = PendingCommand(st)
    BY <1>1, <1>4, Zenon DEF Relies, OnDuty
  <1>6. cmd.act = st.pend
    BY <1>5, PendingCommandAct
  <1>7. {i \in DOMAIN log : log[i].key = e.key} = {}
    BY <1>1, <1>2, <1>3, <1>5, <1>6, ResultKeyFree DEF ActionOutcomes
  <1>8. e.reason # ""
    BY <1>1, <1>2, <1>4, Zenon DEF Relies
  <1>9. ApplyEvent(st, e).exists
    BY <1>1, <1>2, <1>3, <1>5, <1>6, <1>8, FailureAccepted, Zenon
  <1>10. AppendOutcome(e, task[w].ver) \in {"appended", "version_conflict"}
    BY <1>2, <1>7, <1>9 DEF AppendOutcome
  <1>. QED
    BY <1>1, <1>10 DEF FailAction, AppendResult, Leave, Exit, e

(* The owner's completion, before a cancel.                                *)
LEMMA OwnerCompletes ==
  ASSUME OwnerInv, NEW w \in Workers, CompleteAction(w), Authority(w, held[w]),
         st.desired # "Cancelled", stop'[w] # stop[w]
  PROVE  \/ stop'[w] = "version_conflict"
         \/ stop'[w] = "receipt_mismatch" /\ ~ArtifactIntact(task[w].made.act)
  <1>. DEFINE e == CompletedEvent(w)
              made == task[w].made
              outcome == AppendOutcome(e, task[w].ver)
  <1>1. /\ TypeOK /\ RunInv(st) /\ RunIds(st) /\ Fits(st) /\ Keyed /\ PendingIsOpen
        /\ Relies(w) /\ ReceiptsEarned /\ stop \in [Workers -> StopReasons]
    BY DEF OwnerInv, OnceInv, ExecutionInv, PlanInv, TypeOK, StoreInv
  <1>2. /\ e.type = "ActionCompleted" /\ e.act = made.act /\ e.aid = made.aid
        /\ e.scope = made.scope /\ e.tool = made.tool /\ e.reason = made.reason
        /\ e.worker = w /\ e.token = held[w] /\ e.key = <<made.act, "action-completed", 0>>
    BY Zenon DEF CompletedEvent, Event
  <1>3. e \in Events
    BY <1>1, CompletedEventType
  <1>4. pc[w] = "complete" /\ Owns(w)
    BY DEF CompleteAction, At, Authority, Owns
  <1>. HIDE DEF e
  <1>5. /\ st.pend # NoAction /\ made.act = st.pend
        /\ \E r \in receipts : Draft(r) = made
    BY <1>1, <1>4 DEF Relies, OnDuty
  <1>6. {i \in DOMAIN log : log[i].key = e.key} = {}
    BY <1>1, <1>2, <1>5, ResultKeyFree
  <1>7. PICK r \in receipts : /\ r.act = e.act /\ r.scope = e.scope /\ r.aid = e.aid
                              /\ r.tool = e.tool /\ r.reason = e.reason
    <2>1. PICK r \in receipts : Draft(r) = made
      BY <1>5
    <2>2. /\ made.act = r.act /\ made.scope = r.scope /\ made.aid = r.aid
          /\ made.tool = r.tool /\ made.reason = r.reason
      BY <2>1 DEF Draft
    <2>. QED
      BY <1>2, <2>2
  <1>8. PICK i \in PlansOf(e) : ValidateManagedActionOutput(e, log[i].aid)
    <2>1. PICK i \in PlansOf(r) : ValidateManagedActionOutput(r, log[i].aid)
      BY <1>1 DEF ReceiptsEarned
    <2>2. i \in PlansOf(e)
      BY <1>7 DEF PlansOf
    <2>3. ValidateManagedActionOutput(e, log[i].aid)
      BY <1>7, <2>1, Zenon DEF ValidateManagedActionOutput
    <2>. QED
      BY <2>2, <2>3
  <1>9. ApplyEvent(st, e).exists
    BY <1>1, <1>2, <1>3, <1>5, <1>8, ResultAccepted
  <1>10. ValidateActionReceipt(e) <=> ArtifactIntact(made.act)
    BY <1>2, <1>7, <1>8 DEF ValidateActionReceipt
  <1>11. \/ outcome \in {"appended", "version_conflict"}
         \/ outcome = "receipt_mismatch" /\ ~ArtifactIntact(made.act)
    BY <1>2, <1>6, <1>9, <1>10 DEF AppendOutcome
  <1>12. stop'[w] = outcome /\ outcome # "appended"
    BY <1>1 DEF CompleteAction, AppendResult, Leave, Exit, e
  <1>. QED
    BY <1>11, <1>12

(* The rightful owner never trips over recovery: until a cancel, a worker  *)
(* that holds the live lease returns an error only because the operator    *)
(* raced its append twice, or because the bytes of its evidence vanished   *)
(* after it verified them.                                                 *)
THEOREM OwnerNeverTrips == Spec => OwnerStopsOnlyOnRace
  <1>. DEFINE Races ==
         \A w \in Workers :
           stop'[w] # stop[w] /\ Authority(w, held[w]) /\ st.desired # "Cancelled" =>
             \/ stop'[w] = "version_conflict"
             \/ stop'[w] = "receipt_mismatch" /\ ~ArtifactIntact(task[w].made.act)
  <1>1. OwnerInv /\ [Next]_vars => [Races]_vars
    <2>. SUFFICES ASSUME OwnerInv, [Next]_vars, NEW w \in Workers, stop'[w] # stop[w],
                         Authority(w, held[w]), st.desired # "Cancelled"
                  PROVE  \/ stop'[w] = "version_conflict"
                         \/ stop'[w] = "receipt_mismatch" /\ ~ArtifactIntact(task[w].made.act)
      OBVIOUS
    <2>1. TypeOK /\ LostIsOver(w)
      BY DEF OwnerInv, OnceInv, ExecutionInv, PlanInv
    <2>2. ~SessionLost(w)
      BY <2>1 DEF LostIsOver, SessionLost
    <2>. QED
      BY <2>1, <2>2, StopChanges, OwnerPlans, OwnerRecords, OwnerCompletes, OwnerFails
  <1>. QED
    BY <1>1, OwnerInvInit, OwnerInvStep, PTL DEF Spec, OwnerStopsOnlyOnRace
=============================================================================
