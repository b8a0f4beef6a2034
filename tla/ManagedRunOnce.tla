--------------------------- MODULE ManagedRunOnce ---------------------------
(***************************************************************************)
(* Proof that no unsafe action is executed twice and that recorded         *)
(* results are authoritative.  The invariant says, for each worker and each *)
(* step of its episode, which facts about the store it may still rely on   *)
(* (Knows); the proof shows that the worker's own steps establish them, and *)
(* that no step of another worker, of the operator or of the lease takes   *)
(* them away.                                                              *)
(***************************************************************************)
EXTENDS ManagedRunContract

-----------------------------------------------------------------------------
(* What a worker may rely on.                                              *)

(* Until a cancel, what was planned is pending or behind.                  *)
Past ==
  st.desired # "Cancelled" =>
    \A i \in DOMAIN log : log[i].type = "ActionPlanned" =>
      log[i].act = st.pend \/ ActionType(log[i].act) \in Behind(st)

PendingScoped == st.pendType \in UnsafeTypes => st.pendScope = "unsafe"

(* An action that must not be executed twice.                              *)
Delicate(act) == ActionType(act) \in UnsafeTypes \ {"CancelRun"}

Working == {"plan", "reload", "lookup", "exec", "record", "verify", "complete", "fail"}

(* What worker w, at its place with its locals and its token, knows of the *)
(* Run s, its events es, the executed actions ran and the lease ls.        *)
Knows(w, place, t, token, s, es, ran, ls) ==
  /\ place \in Working => ActionType(t.cmd.act) = t.cmd.type
  /\ place = "fail" /\ t.fault = "superseded" => s.desired = "Cancelled"
  /\ place = "fail" /\ t.fault = "executor" => t.cmd.type \in FailingTypes
  /\ place = "plan" /\ t.cmd.type # "CancelRun" =>
       \A i \in DOMAIN es :
         es[i].type = "ActionPlanned" /\ es[i].act = t.cmd.act => es[i].worker # w
  /\ place = "lookup" /\ t.cmd.type \in UnsafeTypes => t.view.pendScope = "unsafe"
  /\ place \in {"reload", "exec"} /\ Delicate(t.cmd.act) => t.cmd.act \notin ran
  /\ place \in {"plan", "reload", "lookup", "exec"} /\ t.cmd.type = "CancelRun" =>
       s.desired = "Cancelled"
  /\ /\ place \in {"reload", "lookup", "exec"} /\ t.cmd.type # "CancelRun"
     /\ ls.worker = w /\ ls.token = token
     => \A i \in DOMAIN es : IsResult(es[i]) => es[i].act # t.cmd.act

AllKnow == \A w \in Workers : Knows(w, pc[w], task[w], held[w], st, log, executed, lease)

(* No two workers are about to execute the same delicate action.           *)
Apart ==
  \A v, w \in Workers :
    /\ v # w /\ pc[v] \in {"reload", "exec"} /\ pc[w] \in {"reload", "exec"}
    /\ task[v].cmd.act = task[w].cmd.act
    => ~Delicate(task[w].cmd.act)

OnceInv ==
  /\ ExecutionInv /\ RunInv(st) /\ CancelIsFinal /\ RunIds(st) /\ Past /\ PendingScoped
  /\ AllKnow /\ Apart /\ UnsafeAtMostOnce

(* An event and its effect on the intent: a cancel stays.                  *)
LEMMA CancelStays ==
  ASSUME TypeOK, RunInv(st), [Next]_vars, st.desired = "Cancelled"
  PROVE  st'.desired = "Cancelled"
  <1>1. CASE UNCHANGED store
    BY <1>1 DEF store
  <1>2. ASSUME NEW e \in Events, Appends(e) PROVE st'.desired = "Cancelled"
    <2>1. /\ st' = ApplyEvent(st, e) /\ ApplyEvent(st, e).exists
          /\ e.type \in WorkerEvents \cup {"DesiredStateChanged"}
      BY <1>2 DEF Appends
    <2>2. CASE e.type = "DesiredStateChanged"
      BY <2>1, <2>2, IntentEffect
    <2>3. CASE e.type = "ActionPlanned"
      BY <2>1, <2>3, PlanEffect DEF Looks
    <2>4. CASE e.type = "ActionCompleted"
      BY <2>1, <2>4, CompletedEffect DEF Kept
    <2>5. CASE e.type = "ActionFailed"
      BY <2>1, <2>5, FailedEffect DEF Kept
    <2>. QED
      BY <2>1, <2>2, <2>3, <2>4, <2>5 DEF WorkerEvents
  <1>. QED
    BY <1>1, <1>2, LogStep

LEMMA PastStep ==
  ASSUME OnceInv, [Next]_vars
  PROVE  Past' /\ PendingScoped'
  <1>1. /\ TypeOK /\ st \in RunStates /\ st.exists /\ log \in Seq(Events)
        /\ RunInv(st) /\ RunIds(st) /\ Past /\ PendingScoped /\ PlansKeyed /\ AllKnow
    BY DEF OnceInv, ExecutionInv, PlanInv, TypeOK
  <1>2. ActionType(NoAction) \notin UnsafeTypes
    BY ConstantsAssumption DEF ActionType, NoAction, CommandTypes
  <1>3. CASE UNCHANGED store
    BY <1>1, <1>3 DEF store, Past, PendingScoped
  <1>. DEFINE Added(e) == \A i \in DOMAIN log' :
                            (i \in DOMAIN log /\ log'[i] = log[i]) \/ log'[i] = e
  <1>4. ASSUME NEW e, Appends(e)
        PROVE  /\ e \in Events /\ Added(e)
               /\ st' = ApplyEvent(st, e) /\ ApplyEvent(st, e).exists
    <2>1. e \in Events /\ log' = Append(log, e)
      BY <1>4 DEF Appends
    <2>. QED
      BY <1>1, <1>4, <2>1, AppendedLog DEF Appends
  <1>. HIDE DEF Added
  <1>5. ASSUME NEW d \in Intents, Appends(DesiredEvent(d))
        PROVE  Past' /\ PendingScoped'
    <2>. DEFINE e == DesiredEvent(d)
    <2>1. /\ e.type = "DesiredStateChanged" /\ e \in Events /\ Added(e)
          /\ st' = ApplyEvent(st, e) /\ ApplyEvent(st, e).exists
      BY <1>4, <1>5 DEF DesiredEvent, Event
    <2>. HIDE DEF e
    <2>2. st'.pendType = st.pendType /\ st'.pendScope = st.pendScope
      BY <1>1, <2>1, DesiredIds
    <2>3. /\ LogicalState(st') = LogicalState(st) /\ st'.pend = st.pend
          /\ st'.verified = st.verified /\ st'.failure = st.failure
          /\ st'.desired # "Cancelled" => st.desired # "Cancelled"
      BY <1>1, <2>1, IntentEffect
    <2>4. Behind(st') = Behind(st)
      BY <2>3 DEF Behind, StagesDone, Failing
    <2>5. Past'
      BY <1>1, <2>1, <2>3, <2>4 DEF Past, Added
    <2>. QED
      BY <1>1, <2>2, <2>5 DEF PendingScoped
  <1>6. ASSUME NEW w \in Workers, PlanAction(w), Appends(PlannedEvent(w))
        PROVE  Past' /\ PendingScoped'
    <2>. DEFINE e == PlannedEvent(w)
    <2>1. /\ e.type = "ActionPlanned" /\ e \in Events /\ Added(e)
          /\ st' = ApplyEvent(st, e) /\ ApplyEvent(st, e).exists
          /\ e.act = task[w].cmd.act /\ e.scope = Safety(task[w].cmd)
      BY <1>4, <1>6 DEF PlannedEvent, Event
    <2>2. ActionType(task[w].cmd.act) = task[w].cmd.type
      BY <1>1, <1>6 DEF AllKnow, Knows, PlanAction, At, Working
    <2>. HIDE DEF e
    <2>3. /\ st.pend = NoAction /\ st'.pend = e.act
          /\ st'.pendType = ActionType(e.act) /\ st'.pendScope = e.scope
      BY <1>1, <2>1, PlannedIds
    <2>4. Looks(st, st') /\ LogicalState(st') = LogicalState(st)
      BY <1>1, <2>1, PlanEffect, LooksStage
    <2>5. Behind(st') = Behind(st) /\ st'.desired = st.desired
      BY <2>4 DEF Behind, StagesDone, Failing, Looks
    <2>6. Past'
      BY <1>1, <2>1, <2>3, <2>5 DEF Past, Added, PlansKeyed
    <2>7. PendingScoped'
      BY <2>1, <2>2, <2>3 DEF PendingScoped, Safety
    <2>. QED
      BY <2>6, <2>7
  <1>7. ASSUME NEW w \in Workers, Appends(CompletedEvent(w))
        PROVE  Past' /\ PendingScoped'
    <2>. DEFINE e == CompletedEvent(w)
                type == ActionType(e.act)
    <2>1. /\ e.type = "ActionCompleted" /\ e \in Events /\ Added(e)
          /\ st' = ApplyEvent(st, e) /\ ApplyEvent(st, e).exists
      BY <1>4, <1>7 DEF CompletedEvent, Event
    <2>. HIDE DEF e
    <2>2. /\ st.pend = e.act /\ st'.pendType = ActionType(NoAction)
          /\ \/ CancelWins(st, e) /\ Looks(st, st')
             \/ CompletedShape(st, type, st')
      BY <1>1, <2>1, CompletedIds
    <2>3. PendingScoped'
      BY <1>2, <2>2 DEF PendingScoped
    <2>4. st'.desired # "Cancelled" => CompletedShape(st, type, st') /\ st.desired # "Cancelled"
      BY <2>2 DEF CancelWins, Looks, CompletedShape
    <2>5. st'.desired # "Cancelled" =>
            st.desired # "Cancelled" /\ type \in Behind(st')
            /\ \A t \in Behind(st) : t \in Behind(st')
      BY <2>4, BehindGrows
    <2>6. Past'
      BY <1>1, <2>1, <2>2, <2>5 DEF Past, Added
    <2>. QED
      BY <2>3, <2>6
  <1>8. ASSUME NEW w \in Workers, FailAction(w), Appends(FailedEvent(w))
        PROVE  Past' /\ PendingScoped'
    <2>. DEFINE e == FailedEvent(w)
                type == ActionType(e.act)
    <2>1. /\ e.type = "ActionFailed" /\ e \in Events /\ Added(e)
          /\ st' = ApplyEvent(st, e) /\ ApplyEvent(st, e).exists
          /\ e.act = task[w].cmd.act /\ e.outcome = OutcomeOf(task[w].fault)
      BY <1>4, <1>8 DEF FailedEvent, Event
    <2>2. /\ task[w].fault = "superseded" => st.desired = "Cancelled"
          /\ task[w].fault = "executor" => ActionType(task[w].cmd.act) # "FailRun"
      BY <1>1, <1>8, ConstantsAssumption DEF AllKnow, Knows, FailAction, At, Working
    <2>. HIDE DEF e
    <2>3. /\ st.pend = e.act /\ st.pendType = type /\ st.pend # NoAction
          /\ st'.pendType = ActionType(NoAction) /\ Failing(st') /\ st'.desired = st.desired
          /\ \/ LogicalState(st') = "WaitingApproval"
             \/ /\ LogicalState(st') = LogicalState(st)
                /\ e.outcome # "ambiguous" \/ st.desired = "Cancelled"
      BY <1>1, <2>1, FailedIds
    <2>4. type \in CommandTypes
      BY <1>1, <2>3 DEF RunIds
    <2>5. \A t \in Behind(st) : t \in CommandTypes
      BY DEF Behind, StagesDone, CommandTypes
    <2>6. PendingScoped'
      BY <1>2, <2>3 DEF PendingScoped
    <2>7. CASE LogicalState(st') = "WaitingApproval"
      <3>1. Behind(st') = CommandTypes
        BY <2>7 DEF Behind, Rested
      <3>2. Past'
        BY <1>1, <2>1, <2>3, <2>4, <2>5, <3>1, SMTT(20) DEF Past, Added
      <3>. QED
        BY <2>6, <3>2
    <2>8. CASE LogicalState(st') = LogicalState(st) /\ e.outcome # "ambiguous"
               /\ st.desired # "Cancelled"
      <3>1. type # "FailRun"
        BY <2>1, <2>2, <2>8 DEF OutcomeOf
      <3>2. type \in Behind(st')
        BY <2>3, <2>4, <3>1 DEF Behind
      <3>3. \A t \in Behind(st) : t \in Behind(st')
        <4>1. "FailRun" \notin StagesDone(st)
          BY DEF StagesDone
        <4>. QED
          BY <2>3, <2>5, <2>8, <4>1 DEF Behind
      <3>4. Past'
        BY <1>1, <2>1, <2>3, <3>2, <3>3, SMTT(20) DEF Past, Added
      <3>. QED
        BY <2>6, <3>4
    <2>9. CASE st.desired = "Cancelled"
      BY <2>3, <2>6, <2>9 DEF Past
    <2>. QED
      BY <2>3, <2>7, <2>8, <2>9
  <1>. QED
    BY <1>1, <1>3, <1>5, <1>6, <1>7, <1>8, StoreSteps, SMTT(20) DEF StoreStep

(* What w knows survives a step that does not execute its action, give it  *)
(* the lease, or append a plan of its own or a result under its lease.     *)
Unexecuted(w) ==
  /\ pc[w] \in {"reload", "exec"} /\ Delicate(task[w].cmd.act)
  /\ task[w].cmd.act \in executed'
  => task[w].cmd.act \in executed

Owned(w) ==
  lease'.worker = w /\ lease'.token = held[w] => lease.worker = w /\ lease.token = held[w]

Written(w) ==
  \A i \in DOMAIN log' :
    \/ i \in DOMAIN log /\ log'[i] = log[i]
    \/ /\ log'[i].type = "ActionPlanned" => log'[i].worker # w
       /\ IsResult(log'[i]) => lease.worker # w

LEMMA KnowledgeStays ==
  ASSUME NEW w, Knows(w, pc[w], task[w], held[w], st, log, executed, lease),
         st.desired = "Cancelled" => st'.desired = "Cancelled",
         Unexecuted(w), Owned(w), Written(w)
  PROVE  Knows(w, pc[w], task[w], held[w], st', log', executed', lease')
  <1>. USE DEF Knows
  <1>1. pc[w] = "plan" /\ task[w].cmd.type # "CancelRun" =>
          \A i \in DOMAIN log' :
            log'[i].type = "ActionPlanned" /\ log'[i].act = task[w].cmd.act =>
              log'[i].worker # w
    BY DEF Written
  <1>2. /\ pc[w] \in {"reload", "lookup", "exec"} /\ task[w].cmd.type # "CancelRun"
        /\ lease'.worker = w /\ lease'.token = held[w]
        => \A i \in DOMAIN log' : IsResult(log'[i]) => log'[i].act # task[w].cmd.act
    BY DEF Written, Owned
  <1>3. pc[w] \in {"reload", "exec"} /\ Delicate(task[w].cmd.act) =>
          task[w].cmd.act \notin executed'
    BY DEF Unexecuted
  <1>. QED
    BY <1>1, <1>2, <1>3

(* A worker outside the window knows nothing that could go stale.          *)
LEMMA IdleKnows ==
  ASSUME NEW w, NEW place, NEW t, NEW token, NEW s, NEW es, NEW ran, NEW ls,
         place \notin Working
  PROVE  Knows(w, place, t, token, s, es, ran, ls)
  BY DEF Knows, Working

(* What a step of w does to its own locals.                                *)
OnlyMoves(w) ==
  \A v \in Workers \ {w} : pc'[v] = pc[v] /\ task'[v] = task[v] /\ held'[v] = held[v]

KnowsNext(w) == Knows(w, pc'[w], task'[w], held'[w], st', log', executed', lease')

LEMMA BegunTask ==
  ASSUME TypeOK, NEW w \in Workers, NEW command, NEW fault, NEW l,
         Begin(w, command, fault, l)
  PROVE  /\ pc'[w] = l /\ task'[w].cmd = command /\ task'[w].fault = fault
         /\ task'[w].view = st /\ task'[w].ver = Len(log)
         /\ \A v \in Workers \ {w} : pc'[v] = pc[v] /\ task'[v] = task[v]
  <1>. DEFINE new == [NoTask EXCEPT !.view = st, !.ver = Len(log),
                                    !.cmd = command, !.fault = fault]
  <1>1. /\ pc \in [Workers -> InSession \cup Stopped \cup {"off", "acquire"}]
        /\ task \in [Workers -> Tasks]
    BY DEF TypeOK
  <1>2. new.cmd = command /\ new.fault = fault /\ new.view = st /\ new.ver = Len(log)
    BY DEF NoTask
  <1>3. task' = [task EXCEPT ![w] = new] /\ pc' = [pc EXCEPT ![w] = l]
    BY DEF Begin, Goto
  <1>. HIDE DEF new
  <1>. QED
    BY <1>1, <1>2, <1>3

(* The steps of w that neither change the store nor execute anything.      *)
LEMMA LocalSteps ==
  ASSUME OnceInv, NEW w \in Workers,
         \/ Register(w) \/ Acquire(w) \/ Validate(w) \/ Poll(w) \/ SessionLost(w)
         \/ DecideNoop(w) \/ RecoverPaused(w) \/ Finish(w) \/ Crash(w)
  PROVE  OnlyMoves(w) /\ pc'[w] \notin Working
  <1>1. /\ pc \in [Workers -> InSession \cup Stopped \cup {"off", "acquire"}]
        /\ task \in [Workers -> Tasks] /\ held \in [Workers -> Nat]
    BY DEF OnceInv, ExecutionInv, PlanInv, TypeOK
  <1>2. ASSUME \/ Register(w) \/ Validate(w) \/ Poll(w) \/ Finish(w)
        PROVE  OnlyMoves(w) /\ pc'[w] \notin Working
    BY <1>1, <1>2 DEF Register, Validate, Poll, Finish, Goto, OnlyMoves, Working
  <1>3. CASE Acquire(w)
    BY <1>1, <1>3 DEF Acquire, Goto, OnlyMoves, Working
  <1>4. CASE SessionLost(w)
    BY <1>1, <1>4 DEF SessionLost, Leave, Exit, Goto, OnlyMoves, Working
  <1>5. CASE DecideNoop(w) \/ RecoverPaused(w)
    BY <1>1, <1>5 DEF DecideNoop, RecoverPaused, Leave, Goto, AfterNoop, OnlyMoves, Working
  <1>6. CASE Crash(w)
    BY <1>1, <1>6 DEF Crash, Leave, Goto, OnlyMoves, Working
  <1>. QED
    BY <1>2, <1>3, <1>4, <1>5, <1>6

(* w starts on a delicate action only where no other worker is.            *)
EntersAlone(w) ==
  pc'[w] \in {"reload", "exec"} /\ Delicate(task'[w].cmd.act) =>
    \/ pc[w] \in {"reload", "exec"} /\ task'[w].cmd = task[w].cmd
    \/ \A v \in Workers :
         pc[v] \in {"reload", "exec"} => task[v].cmd.act # task'[w].cmd.act

StepsWell(w) == OnlyMoves(w) /\ KnowsNext(w) /\ EntersAlone(w)

(* Rebuild, then Decide or recover.                                        *)
LEMMA LoadSteps ==
  ASSUME OnceInv, NEW w \in Workers,
         DecideCommand(w) \/ RecoverCancelled(w) \/ RecoverPending(w)
  PROVE  StepsWell(w)
  <1>1. /\ TypeOK /\ st \in RunStates /\ st.exists /\ RunIds(st) /\ Past /\ PendingScoped
        /\ PlansKeyed /\ PendingIsOpen
    BY DEF OnceInv, ExecutionInv, PlanInv, TypeOK
  <1>2. st' = st /\ log' = log /\ executed' = executed /\ lease' = lease /\ held' = held
    BY DEF DecideCommand, RecoverCancelled, RecoverPending, store, history
  <1>3. /\ PendingCommand(st).type = ActionType(st.pend)
        /\ PendingCommand(st).type = st.pendType /\ PendingCommand(st).act = st.pend
    BY <1>1 DEF PendingCommand, RunIds
  <1>4. CASE DecideCommand(w)
    <2>1. /\ pc'[w] = "plan" /\ task'[w].cmd = Decide(st)
          /\ \A v \in Workers \ {w} : pc'[v] = pc[v] /\ task'[v] = task[v]
      <3>1. PICK fault : Begin(w, Decide(st), fault, "plan")
        BY <1>4 DEF DecideCommand
      <3>. QED
        BY <1>1, <3>1, BegunTask
    <2>2. st.pend = NoAction /\ Decide(st).type # "Noop"
      BY <1>4 DEF DecideCommand
    <2>. DEFINE c == Decide(st)
    <2>3. /\ c.act = <<c.type, st.attempt, st.aid>>
          /\ c.type = "CancelRun" => st.desired = "Cancelled"
          /\ c.type # "CancelRun" => st.desired # "Cancelled" /\ c.type \notin Behind(st)
      BY <1>1, <2>2, DecideShape
    <2>. HIDE DEF c
    <2>4. ActionType(c.act) = c.type
      BY <2>3 DEF ActionType
    <2>5. c.type # "CancelRun" =>
            \A i \in DOMAIN log : log[i].type = "ActionPlanned" => log[i].act # c.act
      BY <1>1, <2>2, <2>3, <2>4 DEF Past, PlansKeyed
    <2>6. KnowsNext(w)
      BY <1>2, <2>1, <2>3, <2>4, <2>5 DEF KnowsNext, Knows, c
    <2>. QED
      BY <1>2, <2>1, <2>6 DEF StepsWell, OnlyMoves, EntersAlone
  <1>5. CASE RecoverCancelled(w)
    <2>1. /\ pc'[w] = "fail" /\ task'[w].cmd = PendingCommand(st)
          /\ task'[w].fault = "superseded"
          /\ \A v \in Workers \ {w} : pc'[v] = pc[v] /\ task'[v] = task[v]
      <3>1. Begin(w, PendingCommand(st), "superseded", "fail")
        BY <1>5 DEF RecoverCancelled
      <3>. QED
        BY <1>1, <3>1, BegunTask
    <2>2. st.desired = "Cancelled"
      BY <1>5 DEF RecoverCancelled
    <2>3. KnowsNext(w)
      BY <1>2, <1>3, <2>1, <2>2, Zenon DEF KnowsNext, Knows
    <2>. QED
      BY <1>2, <2>1, <2>3 DEF StepsWell, OnlyMoves, EntersAlone
  <1>6. CASE RecoverPending(w)
    <2>1. /\ pc'[w] = "lookup" /\ task'[w].cmd = PendingCommand(st) /\ task'[w].view = st
          /\ \A v \in Workers \ {w} : pc'[v] = pc[v] /\ task'[v] = task[v]
      <3>1. PICK fault : Begin(w, PendingCommand(st), fault, "lookup")
        BY <1>6 DEF RecoverPending
      <3>. QED
        BY <1>1, <3>1, BegunTask
    <2>2. st.pend # NoAction
      BY <1>6 DEF RecoverPending
    <2>3. \A i \in DOMAIN log : IsResult(log[i]) => log[i].act # st.pend
      BY <1>1, <2>2 DEF PendingIsOpen, Resolved, IsResult
    <2>4. /\ st.pendType \in UnsafeTypes => st.pendScope = "unsafe"
          /\ st.pendType = "CancelRun" => st.desired = "Cancelled"
      BY <1>1 DEF PendingScoped, RunIds
    <2>5. KnowsNext(w)
      BY <1>2, <1>3, <2>1, <2>3, <2>4, Zenon DEF KnowsNext, Knows
    <2>. QED
      BY <1>2, <2>1, <2>5 DEF StepsWell, OnlyMoves, EntersAlone
  <1>. QED
    BY <1>4, <1>5, <1>6

(* The receipt decides how a pending action is recovered: an unsafe action *)
(* without one is never executed again.                                    *)
LEMMA LookupSteps ==
  ASSUME OnceInv, NEW w \in Workers, LookupReceipt(w)
  PROVE  StepsWell(w)
  <1>1. /\ pc \in [Workers -> InSession \cup Stopped \cup {"off", "acquire"}]
        /\ task \in [Workers -> Tasks]
        /\ Knows(w, pc[w], task[w], held[w], st, log, executed, lease)
    BY DEF OnceInv, ExecutionInv, PlanInv, TypeOK, AllKnow
  <1>2. /\ st' = st /\ log' = log /\ executed' = executed /\ lease' = lease /\ held' = held
        /\ pc[w] = "lookup"
    BY DEF LookupReceipt, store, history, At
  <1>3. OnlyMoves(w)
    BY <1>1, <1>2 DEF LookupReceipt, Goto, OnlyMoves
  <1>4. task'[w].cmd = task[w].cmd
    BY <1>1 DEF LookupReceipt, Tasks
  <1>5. \/ pc'[w] = "verify"
        \/ pc'[w] = "fail" /\ task'[w].fault = "no_receipt"
        \/ pc'[w] = "exec" /\ task[w].view.pendScope = "scoped-idempotent"
    BY <1>1 DEF LookupReceipt, Goto, Tasks
  <1>6. CASE pc'[w] = "verify" \/ (pc'[w] = "fail" /\ task'[w].fault = "no_receipt")
    <2>1. KnowsNext(w)
      BY <1>1, <1>2, <1>4, <1>6 DEF KnowsNext, Knows, Working
    <2>. QED
      BY <1>3, <1>6, <2>1 DEF StepsWell, EntersAlone
  <1>7. CASE pc'[w] = "exec" /\ task[w].view.pendScope = "scoped-idempotent"
    <2>1. ActionType(task[w].cmd.act) = task[w].cmd.type /\ task[w].cmd.type \notin UnsafeTypes
      BY <1>1, <1>2, <1>7 DEF Knows, Working
    <2>2. ~Delicate(task[w].cmd.act)
      BY <2>1 DEF Delicate
    <2>3. KnowsNext(w)
      BY <1>1, <1>2, <1>4, <1>7, <2>1, <2>2 DEF KnowsNext, Knows, Working
    <2>. QED
      BY <1>3, <1>4, <2>2, <2>3 DEF StepsWell, EntersAlone
  <1>. QED
    BY <1>5, <1>6, <1>7

(* A plan that is appended is new; one that is replayed is a CancelRun.    *)
LEMMA PlanSteps ==
  ASSUME OnceInv, NEW w \in Workers, PlanAction(w), [Next]_vars
  PROVE  StepsWell(w)
  <1>. DEFINE e == PlannedEvent(w)
              outcome == AppendOutcome(e, task[w].ver)
              act == task[w].cmd.act
  <1>1. /\ pc \in [Workers -> InSession \cup Stopped \cup {"off", "acquire"}]
        /\ task \in [Workers -> Tasks] /\ TypeOK /\ RunInv(st) /\ log \in Seq(Events)
        /\ Knows(w, pc[w], task[w], held[w], st, log, executed, lease)
        /\ PlanInv /\ ExecutedWasPlanned /\ ExecutesPlanned
    BY DEF OnceInv, ExecutionInv, PlanInv, TypeOK, AllKnow
  <1>2. /\ executed' = executed /\ lease' = lease /\ held' = held /\ pc[w] = "plan"
    BY DEF PlanAction, history, At
  <1>3. OnlyMoves(w)
    BY <1>1, <1>2 DEF PlanAction, Leave, Exit, Goto, OnlyMoves
  <1>4. e.type = "ActionPlanned" /\ e.act = act /\ e.worker = w /\ e \in Events
    BY <1>1, PlannedEventType, Zenon DEF PlannedEvent, Event
  <1>5. CASE outcome \notin {"appended", "replayed"}
    <2>1. pc'[w] \notin Working
      BY <1>1, <1>5 DEF PlanAction, Leave, Exit, Goto, AfterNoop, Working
    <2>. QED
      BY <1>3, <2>1, IdleKnows DEF StepsWell, KnowsNext, EntersAlone, Working
  <1>6. CASE outcome \in {"appended", "replayed"}
    <2>1. pc'[w] = "reload" /\ task'[w].cmd = task[w].cmd
      BY <1>1, <1>6 DEF PlanAction, Goto, Tasks
    <2>2. /\ ActionType(act) = task[w].cmd.type
          /\ task[w].cmd.type = "CancelRun" => st.desired = "Cancelled"
          /\ task[w].cmd.type # "CancelRun" =>
               \A i \in DOMAIN log :
                 log[i].type = "ActionPlanned" /\ log[i].act = act => log[i].worker # w
      BY <1>1, <1>2 DEF Knows, Working
    <2>3. st.desired = "Cancelled" => st'.desired = "Cancelled"
      BY <1>1, CancelStays
    <2>4. CASE outcome = "replayed"
      <3>1. \E i \in DOMAIN log : log[i] = e
        BY <2>4 DEF AppendOutcome
      <3>2. task[w].cmd.type = "CancelRun"
        BY <1>4, <2>2, <3>1
      <3>3. ~Delicate(act)
        BY <2>2, <3>2 DEF Delicate
      <3>4. KnowsNext(w)
        BY <2>1, <2>2, <2>3, <3>2, <3>3 DEF KnowsNext, Knows
      <3>. QED
        BY <1>3, <2>1, <3>3, <3>4 DEF StepsWell, EntersAlone
    <2>5. CASE outcome = "appended"
      <3>1. Appends(e)
        <4>1. log' = Append(log, e) /\ Len(log) \in Nat
          BY <1>1, <2>5 DEF PlanAction, Commit
        <4>2. Len(log') = Len(log) + 1
          BY <1>1, <1>4, <4>1
        <4>3. ~UNCHANGED store
          BY <4>1, <4>2 DEF store
        <4>4. UNCHANGED store \/ Appends(e)
          BY <1>1, PlannedEventType, TaskType, WorkerEventShape, CommitAppends, ZenonT(60)
          DEF PlanAction, WorkerEvents, history
        <4>. QED
          BY <4>3, <4>4
      <3>. HIDE DEF e
      <3>2. ~Planned(act) /\ ~Resolved(act)
        BY <1>1, <1>4, <3>1, FreshPlan
      <3>3. \A i \in DOMAIN log' : (i \in DOMAIN log /\ log'[i] = log[i]) \/ log'[i] = e
        BY <1>1, <1>4, <3>1, AppendedLog DEF Appends
      <3>4. \A i \in DOMAIN log' : IsResult(log'[i]) => log'[i].act # act
        BY <1>4, <3>2, <3>3 DEF Resolved, IsResult
      <3>5. act \notin executed
        BY <1>1, <3>2 DEF ExecutedWasPlanned, Planned
      <3>6. KnowsNext(w)
        BY <1>2, <2>1, <2>2, <2>3, <3>4, <3>5, SMTT(20) DEF KnowsNext, Knows
      <3>7. \A v \in Workers : pc[v] \in {"reload", "exec"} => task[v].cmd.act # act
        BY <1>1, <3>2 DEF ExecutesPlanned
      <3>. QED
        BY <1>3, <2>1, <3>6, <3>7 DEF StepsWell, EntersAlone
    <2>. QED
      BY <1>6, <2>4, <2>5
  <1>. QED
    BY <1>5, <1>6

(* GetRun, the effect itself, the receipt and its evidence.                *)
LEMMA WorkSteps ==
  ASSUME OnceInv, NEW w \in Workers,
         \/ ReloadPlanned(w) \/ Execute(w) \/ ExecuteFails(w)
         \/ RecordReceipt(w) \/ VerifyEvidence(w) \/ RenewFails(w)
  PROVE  StepsWell(w)
  <1>1. /\ pc \in [Workers -> InSession \cup Stopped \cup {"off", "acquire"}]
        /\ task \in [Workers -> Tasks]
        /\ Knows(w, pc[w], task[w], held[w], st, log, executed, lease)
    BY DEF OnceInv, ExecutionInv, PlanInv, TypeOK, AllKnow
  <1>2. st' = st /\ log' = log /\ lease' = lease /\ held' = held
    BY DEF ReloadPlanned, Execute, ExecuteFails, RecordReceipt, VerifyEvidence, RenewFails,
           store
  <1>3. CASE ReloadPlanned(w)
    <2>1. /\ pc[w] = "reload" /\ pc'[w] = "exec" /\ task'[w].cmd = task[w].cmd
          /\ executed' = executed
      BY <1>1, <1>3 DEF ReloadPlanned, At, Goto, Tasks, history
    <2>2. OnlyMoves(w)
      BY <1>1, <1>2, <1>3 DEF ReloadPlanned, Goto, OnlyMoves
    <2>3. KnowsNext(w)
      BY <1>1, <1>2, <2>1 DEF KnowsNext, Knows, Working
    <2>. QED
      BY <2>1, <2>2, <2>3 DEF StepsWell, EntersAlone
  <1>4. CASE Execute(w)
    <2>1. pc[w] = "exec" /\ pc'[w] = "record" /\ task'[w].cmd = task[w].cmd
      <3>1. PICK m : task' = [task EXCEPT ![w].made = m]
        BY <1>4, Zenon DEF Execute
      <3>2. task'[w].cmd = task[w].cmd
        BY <1>1, <3>1 DEF Tasks
      <3>. QED
        BY <1>1, <1>4, <3>2 DEF Execute, Goto
    <2>2. OnlyMoves(w)
      BY <1>1, <1>2, <1>4 DEF Execute, Goto, OnlyMoves
    <2>3. KnowsNext(w)
      BY <1>1, <1>2, <2>1 DEF KnowsNext, Knows, Working
    <2>. QED
      BY <2>1, <2>2, <2>3 DEF StepsWell, EntersAlone
  <1>5. CASE ExecuteFails(w)
    <2>1. /\ pc[w] = "exec" /\ pc'[w] = "fail" /\ task'[w].cmd = task[w].cmd
          /\ task'[w].fault = "executor" /\ task[w].cmd.type \in FailingTypes
      BY <1>1, <1>5 DEF ExecuteFails, Goto, Tasks
    <2>2. OnlyMoves(w)
      BY <1>1, <1>2, <1>5 DEF ExecuteFails, Goto, OnlyMoves
    <2>3. KnowsNext(w)
      BY <1>1, <1>2, <2>1 DEF KnowsNext, Knows, Working
    <2>. QED
      BY <2>1, <2>2, <2>3 DEF StepsWell, EntersAlone
  <1>6. CASE RecordReceipt(w)
    <2>1. OnlyMoves(w)
      BY <1>1, <1>2, <1>6 DEF RecordReceipt, Leave, Exit, Goto, OnlyMoves
    <2>2. /\ pc[w] = "record"
          /\ \/ pc'[w] = "verify" /\ task'[w] = task[w]
             \/ pc'[w] \in {"acquire", "exited"}
      BY <1>1, <1>6 DEF RecordReceipt, At, Leave, Exit, Goto
    <2>3. CASE pc'[w] = "verify" /\ task'[w] = task[w]
      <3>1. KnowsNext(w)
        BY <1>1, <1>2, <2>2, <2>3 DEF KnowsNext, Knows, Working
      <3>. QED
        BY <2>1, <2>3, <3>1 DEF StepsWell, EntersAlone
    <2>4. CASE pc'[w] \in {"acquire", "exited"}
      <3>1. KnowsNext(w)
        BY <2>4, IdleKnows DEF KnowsNext, Working
      <3>. QED
        BY <2>1, <2>4, <3>1 DEF StepsWell, EntersAlone
    <2>. QED
      BY <2>2, <2>3, <2>4
  <1>7. CASE VerifyEvidence(w)
    <2>. DEFINE failed == [task EXCEPT ![w].fault = "evidence"]
    <2>1. /\ pc[w] = "verify"
          /\ \/ pc' = [pc EXCEPT ![w] = "complete"] /\ task' = task
             \/ pc' = [pc EXCEPT ![w] = "fail"] /\ task' = failed
      BY <1>7, ZenonT(30) DEF VerifyEvidence, At, Goto
    <2>2. /\ failed[w].cmd = task[w].cmd /\ failed[w].fault = "evidence"
          /\ \A v \in Workers \ {w} : failed[v] = task[v]
      BY <1>1 DEF Tasks
    <2>. HIDE DEF failed
    <2>3. OnlyMoves(w)
      BY <1>1, <1>2, <2>1, <2>2 DEF OnlyMoves
    <2>4. /\ task'[w].cmd = task[w].cmd
          /\ pc'[w] = "complete" \/ (pc'[w] = "fail" /\ task'[w].fault = "evidence")
      BY <1>1, <2>1, <2>2
    <2>5. KnowsNext(w)
      BY <1>1, <1>2, <2>1, <2>4 DEF KnowsNext, Knows, Working
    <2>. QED
      BY <2>3, <2>4, <2>5 DEF StepsWell, EntersAlone
  <1>8. CASE RenewFails(w)
    <2>1. pc' = pc /\ task' = task /\ executed' = executed
      BY <1>8 DEF RenewFails, history
    <2>. QED
      BY <1>1, <1>2, <2>1 DEF StepsWell, OnlyMoves, KnowsNext, EntersAlone
  <1>. QED
    BY <1>3, <1>4, <1>5, <1>6, <1>7, <1>8

(* The result: appended, or tried once more with the current version.      *)
LEMMA ResultSteps ==
  ASSUME OnceInv, NEW w \in Workers, CompleteAction(w) \/ FailAction(w)
  PROVE  StepsWell(w)
  <1>1. /\ pc \in [Workers -> InSession \cup Stopped \cup {"off", "acquire"}]
        /\ task \in [Workers -> Tasks]
        /\ Knows(w, pc[w], task[w], held[w], st, log, executed, lease)
    BY DEF OnceInv, ExecutionInv, PlanInv, TypeOK, AllKnow
  <1>2. PICK e : AppendResult(w, e) /\ pc[w] \in {"complete", "fail"}
    BY DEF CompleteAction, FailAction, At
  <1>3. held' = held
    BY <1>2 DEF AppendResult
  <1>4. OnlyMoves(w)
    BY <1>1, <1>2, <1>3 DEF AppendResult, Leave, Exit, Goto, OnlyMoves
  <1>5. \/ pc'[w] \in {"finish", "exited"}
        \/ /\ pc' = pc /\ UNCHANGED store
           /\ task'[w].cmd = task[w].cmd /\ task'[w].fault = task[w].fault
    BY <1>1, <1>2 DEF AppendResult, Commit, Leave, Exit, Goto, Tasks
  <1>6. CASE pc'[w] \in {"finish", "exited"}
    <2>1. KnowsNext(w)
      BY <1>6, IdleKnows DEF KnowsNext, Working
    <2>. QED
      BY <1>4, <1>6, <2>1 DEF StepsWell, EntersAlone
  <1>7. CASE /\ pc' = pc /\ UNCHANGED store
             /\ task'[w].cmd = task[w].cmd /\ task'[w].fault = task[w].fault
    <2>1. KnowsNext(w)
      BY <1>1, <1>2, <1>7 DEF KnowsNext, Knows, Working, store
    <2>. QED
      BY <1>2, <1>4, <1>7, <2>1 DEF StepsWell, EntersAlone
  <1>. QED
    BY <1>5, <1>6, <1>7

(* Only Execute and ExecuteFails execute, and only Acquire makes an owner. *)
Executes(w) ==
  /\ Execute(w) \/ ExecuteFails(w)
  /\ pc[w] = "exec" /\ executed' = executed \cup {task[w].cmd.act}
  /\ repeated' \subseteq repeated \cup {task[w].cmd.act}
  /\ task[w].cmd.act \notin executed => repeated' = repeated

LEMMA HistoryStep ==
  ASSUME [Next]_vars
  PROVE  (executed' = executed /\ repeated' = repeated) \/ \E w \in Workers : Executes(w)
  <1>1. ASSUME NEW w \in Workers, Execute(w) \/ ExecuteFails(w) PROVE Executes(w)
    BY <1>1, ZenonT(30) DEF Execute, ExecuteFails, Ran, Executes
  <1>2. ASSUME NEW w \in Workers,
               \/ Register(w) \/ Acquire(w) \/ Validate(w) \/ Poll(w) \/ SessionLost(w)
               \/ DecideNoop(w) \/ DecideCommand(w)
               \/ RecoverPaused(w) \/ RecoverCancelled(w) \/ RecoverPending(w)
               \/ LookupReceipt(w) \/ PlanAction(w) \/ ReloadPlanned(w)
               \/ RecordReceipt(w) \/ VerifyEvidence(w)
               \/ CompleteAction(w) \/ FailAction(w)
               \/ Finish(w) \/ RenewFails(w) \/ Crash(w)
        PROVE  executed' = executed /\ repeated' = repeated
    BY <1>2, Zenon
    DEF Register, Acquire, Validate, Poll, SessionLost, DecideNoop, DecideCommand,
        RecoverPaused, RecoverCancelled, RecoverPending, LookupReceipt, PlanAction,
        ReloadPlanned, RecordReceipt, VerifyEvidence, CompleteAction, FailAction,
        AppendResult, Finish, RenewFails, Crash, history
  <1>3. ASSUME \/ \E d \in Intents : SetDesiredState(d)
               \/ Expire
               \/ \E act \in artifacts : LoseArtifact(act)
               \/ UNCHANGED vars
        PROVE  executed' = executed /\ repeated' = repeated
    BY <1>3 DEF SetDesiredState, Expire, LoseArtifact, vars, history
  <1>. QED
    BY <1>1, <1>2, <1>3 DEF Next, WorkerStep

LEMMA OwnerStep ==
  ASSUME TypeOK, [Next]_vars
  PROVE  \/ /\ lease'.worker = lease.worker /\ lease'.token = lease.token
            /\ lease'.live => lease.live
         \/ \E w \in Workers : Acquire(w) /\ lease'.worker = w
  <1>1. ASSUME NEW w \in Workers, Acquire(w) PROVE lease' = lease \/ lease'.worker = w
    BY <1>1 DEF Acquire
  <1>2. CASE Expire
    <2>1. lease' = [lease EXCEPT !.live = FALSE]
      BY <1>2 DEF Expire
    <2>. QED
      BY <2>1 DEF TypeOK
  <1>3. ASSUME NEW w \in Workers,
               \/ Register(w) \/ Validate(w) \/ Poll(w) \/ SessionLost(w)
               \/ DecideNoop(w) \/ DecideCommand(w)
               \/ RecoverPaused(w) \/ RecoverCancelled(w) \/ RecoverPending(w)
               \/ LookupReceipt(w) \/ PlanAction(w) \/ ReloadPlanned(w)
               \/ Execute(w) \/ ExecuteFails(w) \/ RecordReceipt(w) \/ VerifyEvidence(w)
               \/ CompleteAction(w) \/ FailAction(w)
               \/ Finish(w) \/ RenewFails(w) \/ Crash(w)
        PROVE  lease' = lease
    BY <1>3, Zenon
    DEF Register, Validate, Poll, SessionLost, DecideNoop, DecideCommand,
        RecoverPaused, RecoverCancelled, RecoverPending, LookupReceipt, PlanAction,
        ReloadPlanned, Execute, ExecuteFails, RecordReceipt, VerifyEvidence,
        CompleteAction, FailAction, AppendResult, Finish, RenewFails, Crash
  <1>4. ASSUME \/ \E d \in Intents : SetDesiredState(d)
               \/ \E act \in artifacts : LoseArtifact(act)
               \/ UNCHANGED vars
        PROVE  lease' = lease
    BY <1>4 DEF SetDesiredState, LoseArtifact, vars
  <1>. QED
    BY <1>1, <1>2, <1>3, <1>4, SMTT(20) DEF Next, WorkerStep

(* A worker that a step leaves where it was loses none of its knowledge.   *)
LEMMA OthersKnow ==
  ASSUME OnceInv, [Next]_vars, NEW v \in Workers,
         pc'[v] = pc[v], task'[v] = task[v], held'[v] = held[v]
  PROVE  KnowsNext(v)
  <1>1. /\ TypeOK /\ RunInv(st) /\ log \in Seq(Events) /\ Apart
        /\ Knows(v, pc[v], task[v], held[v], st, log, executed, lease)
    BY DEF OnceInv, ExecutionInv, PlanInv, TypeOK, AllKnow
  <1>2. st.desired = "Cancelled" => st'.desired = "Cancelled"
    BY <1>1, CancelStays
  <1>. USE DEF Unexecuted, Owned, Written
  <1>3. Unexecuted(v) \/ KnowsNext(v)
    <2>1. ASSUME NEW u \in Workers, Executes(u) PROVE Unexecuted(v) \/ KnowsNext(v)
      <3>1. CASE u = v
        BY <2>1, <3>1, WorkSteps DEF Executes, StepsWell
      <3>2. CASE u # v
        BY <1>1, <2>1, <3>2 DEF Executes, Apart
      <3>. QED
        BY <3>1, <3>2
    <2>. QED
      BY <2>1, HistoryStep
  <1>4. Owned(v) \/ KnowsNext(v)
    <2>1. ASSUME NEW u \in Workers, Acquire(u), lease'.worker = u
          PROVE  Owned(v) \/ KnowsNext(v)
      <3>1. CASE u = v
        BY <2>1, <3>1, LocalSteps, IdleKnows DEF KnowsNext
      <3>2. CASE u # v
        BY <2>1, <3>2
      <3>. QED
        BY <3>1, <3>2
    <2>. QED
      BY <1>1, <2>1, OwnerStep
  <1>5. ASSUME NEW e, Appends(e), ~(e.type \in WorkerEvents /\ e.worker = v) PROVE Written(v)
    <2>1. e \in Events /\ log' = Append(log, e)
          /\ (e.type \in WorkerEvents => lease.worker = e.worker)
      BY <1>5 DEF Appends, Authority, WorkerEvents
    <2>2. \A i \in DOMAIN log' : (i \in DOMAIN log /\ log'[i] = log[i]) \/ log'[i] = e
      BY <1>1, <2>1, AppendedLog
    <2>3. /\ e.type = "ActionPlanned" => e.worker # v
          /\ IsResult(e) => lease.worker # v
      BY <1>5, <2>1 DEF WorkerEvents, IsResult
    <2>. QED
      BY <2>2, <2>3
  <1>6. Written(v) \/ KnowsNext(v)
    <2>1. CASE UNCHANGED store
      BY <2>1 DEF store
    <2>2. ASSUME NEW u \in Workers,
                 \/ PlanAction(u) /\ Appends(PlannedEvent(u))
                 \/ CompleteAction(u) /\ Appends(CompletedEvent(u))
                 \/ FailAction(u) /\ Appends(FailedEvent(u))
          PROVE  Written(v) \/ KnowsNext(v)
      <3>1. CASE u = v
        BY <2>2, <3>1, PlanSteps, ResultSteps DEF StepsWell
      <3>2. CASE u # v
        <4>. HIDE DEF Written
        <4>1. ASSUME NEW e, Appends(e), e.worker = u PROVE Written(v)
          BY <1>5, <3>2, <4>1
        <4>. QED
          BY <1>1, <2>2, <4>1, WorkerEventShape
      <3>. QED
        BY <3>1, <3>2
    <2>3. ASSUME NEW d \in Intents, Appends(DesiredEvent(d)) PROVE Written(v)
      <3>1. DesiredEvent(d).type \notin WorkerEvents
        BY DEF DesiredEvent, Event, WorkerEvents
      <3>. HIDE DEF Written
      <3>. QED
        BY <1>5, <2>3, <3>1
    <2>. HIDE DEF Written
    <2>. QED
      BY <1>1, <2>1, <2>2, <2>3, StoreSteps DEF StoreStep
  <1>. HIDE DEF Unexecuted, Owned, Written
  <1>7. ASSUME Unexecuted(v), Owned(v), Written(v) PROVE KnowsNext(v)
    <2>1. Knows(v, pc[v], task[v], held[v], st', log', executed', lease')
      BY <1>1, <1>2, <1>7, KnowledgeStays
    <2>. QED
      BY <2>1 DEF KnowsNext
  <1>. QED
    BY <1>3, <1>4, <1>6, <1>7, SMTT(20)

LEMMA OnceStep == OnceInv /\ [Next]_vars => OnceInv'
  <1>. SUFFICES ASSUME OnceInv, [Next]_vars
                PROVE  RunIds(st)' /\ AllKnow' /\ Apart' /\ UnsafeAtMostOnce'
    BY ExecutionStep, ContractStep, PastStep DEF OnceInv, ExecutionInv, PlanInv, ContractInv
  <1>1. /\ TypeOK /\ RunInv(st) /\ RunIds(st) /\ AllKnow /\ Apart /\ UnsafeAtMostOnce
    BY DEF OnceInv, ExecutionInv, PlanInv
  <1>2. RunIds(st)'
    <2>1. CASE UNCHANGED store
      BY <1>1, <2>1 DEF store
    <2>2. ASSUME NEW e \in Events, Appends(e) PROVE RunIds(st')
      BY <1>1, <2>2, IdsKept DEF Appends
    <2>. QED
      BY <1>1, <2>1, <2>2, LogStep
  <1>3. UnsafeAtMostOnce'
    <2>1. CASE repeated' = repeated
      BY <1>1, <2>1 DEF UnsafeAtMostOnce
    <2>2. ASSUME NEW w \in Workers, Executes(w) PROVE UnsafeAtMostOnce'
      <3>1. Delicate(task[w].cmd.act) => task[w].cmd.act \notin executed
        BY <1>1, <2>2 DEF Executes, AllKnow, Knows
      <3>2. CASE task[w].cmd.act \notin executed
        BY <2>1, <2>2, <3>2 DEF Executes
      <3>3. CASE ~Delicate(task[w].cmd.act)
        BY <1>1, <2>2, <3>3 DEF Executes, UnsafeAtMostOnce, Delicate
      <3>. QED
        BY <3>1, <3>2, <3>3
    <2>. QED
      BY <2>1, <2>2, HistoryStep
  <1>4. ASSUME pc' = pc, task' = task, held' = held PROVE AllKnow' /\ Apart'
    <2>1. \A v \in Workers : KnowsNext(v)
      BY <1>4, OthersKnow
    <2>. QED
      BY <1>1, <1>4, <2>1 DEF AllKnow, KnowsNext, Apart
  <1>5. ASSUME NEW w \in Workers, StepsWell(w) PROVE AllKnow' /\ Apart'
    <2>1. \A v \in Workers : KnowsNext(v)
      BY <1>5, OthersKnow DEF StepsWell, OnlyMoves
    <2>2. AllKnow'
      BY <2>1 DEF AllKnow, KnowsNext
    <2>3. ASSUME NEW v \in Workers, v # w,
                 pc'[v] \in {"reload", "exec"}, pc'[w] \in {"reload", "exec"},
                 task'[v].cmd.act = task'[w].cmd.act
          PROVE  ~Delicate(task'[w].cmd.act)
      <3>1. pc[v] \in {"reload", "exec"} /\ task[v].cmd.act = task'[w].cmd.act
        BY <1>5, <2>3 DEF StepsWell, OnlyMoves
      <3>. SUFFICES ASSUME Delicate(task'[w].cmd.act) PROVE FALSE
        OBVIOUS
      <3>2. \/ pc[w] \in {"reload", "exec"} /\ task'[w].cmd = task[w].cmd
            \/ \A u \in Workers :
                 pc[u] \in {"reload", "exec"} => task[u].cmd.act # task'[w].cmd.act
        BY <1>5, <2>3 DEF StepsWell, EntersAlone
      <3>3. CASE pc[w] \in {"reload", "exec"} /\ task'[w].cmd = task[w].cmd
        BY <1>1, <2>3, <3>1, <3>3 DEF Apart
      <3>. QED
        BY <3>1, <3>2, <3>3
    <2>4. Apart'
      <3>. SUFFICES ASSUME NEW u \in Workers, NEW v \in Workers, u # v,
                           pc'[u] \in {"reload", "exec"}, pc'[v] \in {"reload", "exec"},
                           task'[u].cmd.act = task'[v].cmd.act
                    PROVE  ~Delicate(task'[v].cmd.act)
        BY DEF Apart
      <3>1. CASE u = w \/ v = w
        BY <2>3, <3>1
      <3>2. CASE u # w /\ v # w
        BY <1>1, <1>5, <3>2 DEF StepsWell, OnlyMoves, Apart
      <3>. QED
        BY <3>1, <3>2
    <2>. QED
      BY <2>2, <2>4
  <1>6. ASSUME NEW w \in Workers,
               \/ Register(w) \/ Acquire(w) \/ Validate(w) \/ Poll(w) \/ SessionLost(w)
               \/ DecideNoop(w) \/ RecoverPaused(w) \/ Finish(w) \/ Crash(w)
        PROVE  StepsWell(w)
    <2>1. OnlyMoves(w) /\ pc'[w] \notin Working
      BY <1>6, LocalSteps
    <2>. QED
      BY <2>1, IdleKnows DEF StepsWell, KnowsNext, EntersAlone, Working
  <1>7. ASSUME \/ \E d \in Intents : SetDesiredState(d)
               \/ Expire
               \/ \E act \in artifacts : LoseArtifact(act)
               \/ UNCHANGED vars
        PROVE  pc' = pc /\ task' = task /\ held' = held
    BY <1>7 DEF SetDesiredState, Expire, LoseArtifact, vars
  <1>8. AllKnow' /\ Apart'
    BY <1>4, <1>5, <1>6, <1>7, LoadSteps, LookupSteps, PlanSteps, WorkSteps, ResultSteps, SMTT(20)
    DEF Next, WorkerStep
  <1>. QED
    BY <1>2, <1>3, <1>8

LEMMA OnceInit == Init => OnceInv
  <1>. SUFFICES ASSUME Init PROVE OnceInv
    OBVIOUS
  <1>1. /\ ContractInv /\ RunIds(st) /\ st.pend = NoAction
        /\ DOMAIN log = {1} /\ log[1].type = "RunCreated"
    BY InitialRun
  <1>2. ActionType(NoAction) \notin UnsafeTypes
    BY ConstantsAssumption DEF ActionType, NoAction, CommandTypes
  <1>3. \A w \in Workers : pc[w] = "off"
    BY DEF Init
  <1>4. ExecutionInv
    BY <1>3, PlanInit, ZenonT(30) DEF Init, ExecutionInv, ExecutedWasPlanned, ExecutesPlanned
  <1>5. AllKnow /\ Apart
    BY <1>3, IdleKnows DEF AllKnow, Apart, Working
  <1>6. Past /\ PendingScoped
    BY <1>1, <1>2 DEF Past, PendingScoped, RunIds
  <1>7. repeated = {}
    BY DEF Init
  <1>8. UnsafeAtMostOnce
    BY <1>7 DEF UnsafeAtMostOnce
  <1>. QED
    BY <1>1, <1>4, <1>5, <1>6, <1>8, SMTT(20) DEF OnceInv, ContractInv

(* An action that the safety policy declares unsafe, other than CancelRun, *)
(* is executed at most once, whatever dies, stalls or takes over between   *)
(* its plan, its execution, its receipt and its result.                    *)
THEOREM UnsafeOnce == Spec => []UnsafeAtMostOnce
  <1>1. OnceInv => UnsafeAtMostOnce
    BY DEF OnceInv
  <1>. QED
    BY <1>1, OnceInit, OnceStep, PTL DEF Spec

ResolvedNotRerun ==
  \A w \in Workers :
    /\ pc[w] = "exec" /\ pc'[w] = "record" /\ Authority(w, held[w])
    /\ task[w].cmd.type # "CancelRun"
    => ~Resolved(task[w].cmd.act)

LEMMA OwnerKnows ==
  ASSUME OnceInv, NEW w \in Workers, pc[w] = "exec", Authority(w, held[w])
  PROVE  /\ task[w].cmd.type # "CancelRun" => ~Resolved(task[w].cmd.act)
         /\ task[w].cmd.type = "CancelRun" => st.desired = "Cancelled"
  <1>1. Knows(w, pc[w], task[w], held[w], st, log, executed, lease)
    BY DEF OnceInv, AllKnow
  <1>. QED
    BY <1>1 DEF Knows, Authority, Resolved, IsResult

(* Execution by the owner of the live lease respects recorded results: no  *)
(* command but CancelRun is executed once its completion or its failure is *)
(* in the log, even after a cancel.                                        *)
THEOREM ResolvedIsAuthoritative == Spec => [][ResolvedNotRerun]_vars
  <1>1. OnceInv => ResolvedNotRerun
    BY OwnerKnows DEF ResolvedNotRerun
  <1>. QED
    BY <1>1, OnceInit, OnceStep, PTL DEF Spec

(* Hence, while no cancel was requested, the owner of the live lease never *)
(* executes an action whose completion is in the log.                      *)
THEOREM CompletedIsAuthoritative ==
  Spec /\ [](st.desired # "Cancelled") => CompletedNotRerun
  <1>. DEFINE NotRerun ==
         \A w \in Workers :
           pc[w] = "exec" /\ pc'[w] = "record" /\ Authority(w, held[w]) =>
             \A i \in DOMAIN log :
               log[i].type = "ActionCompleted" => log[i].act # task[w].cmd.act
  <1>1. OnceInv /\ st.desired # "Cancelled" => NotRerun
    <2>. SUFFICES ASSUME OnceInv, st.desired # "Cancelled", NEW w \in Workers,
                         pc[w] = "exec", Authority(w, held[w])
                  PROVE  \A i \in DOMAIN log :
                           log[i].type = "ActionCompleted" => log[i].act # task[w].cmd.act
      OBVIOUS
    <2>1. ~Resolved(task[w].cmd.act)
      BY OwnerKnows
    <2>. QED
      BY <2>1 DEF Resolved
  <1>. QED
    BY <1>1, OnceInit, OnceStep, PTL DEF Spec, CompletedNotRerun
=============================================================================
