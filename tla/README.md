# AgentDock: a TLA+ verification project

AgentDock executes a coding task ("Run") as an event-sourced state machine.
The events of a Run are the only truth; a pure reducer projects them, a pure
decider proposes the next command, and a controller carries commands out. A Run
is executed either by *leased workers* over PostgreSQL (`ReconcileLeased`) or by
the older *unleased* `Reconcile` that a CLI calls step by step. Inside the
reasoning phase a coding-agent loop talks to a model and runs tools in a sandbox:
Docker containers over a disposable Git worktree.

This directory models that system in TLA+, model-checks it with TLC on small
instances, and proves most of the safety properties with TLAPS for every instance:
of both execution modes, the lease store, the coding agent, the sandbox and the
artifact store. `PROJECT.json` lists components, runs, mutants, hazards, findings,
theorems, and the source lines every definition stands for.

## 1. Inventory

| Part | Code | State | Operations that change it | Module |
|---|---|---|---|---|
| Run domain | `internal/domain` | `State` (projection) | `Reduce`, `applyEvent` per event type, `Decide` | `RunDomain` |
| Lifecycle contract | `ValidateTransition`, `applyDesiredState`, `docs/state-machine.md` | desired, stage, open action | plan, advance, fail, cancel, change intent | `RunLifecycle` |
| Leased controller | `internal/controller/managed.go` | locals of a `ReconcileLeased` call | validate, load, plan, look up receipt, execute, record, verify, complete, fail | `ManagedRun` |
| Worker | `internal/worker` | session, renewal result | register, acquire, run a session, poll, exit | `ManagedRun`, `LeaseStore` |
| Lease manager, receipts | `internal/lease` | `leases`, `action_receipts` | `Acquire`, `Renew`, `Validate`, `RecordReceipt`, `LookupReceipt` | `ManagedRun`, `LeaseStore`, `LegacyRun` |
| Event store | `internal/store` | `events`, `runs` | `Append`, `IsManagedRun`, `SaveCheckpoint`, `Rebuild` | `ManagedRun`, `LegacyRun`, `LeaseStore`, `Checkpoint` |
| Artifact store | `internal/store/artifact.go` | files, names, `artifacts` | `Write` (copy, sync, rename, insert), `Verify` | `ArtifactFiles`; as single steps: `ManagedRun` |
| Unleased controller | `internal/controller/controller.go` | locals of a `Reconcile` call | `Reconcile`, `runReasoner`, `SetDesiredState` | `LegacyRun` |
| Coding agent | `internal/reasoner/coding_agent.go` | transcript, remaining budget | `Run` | `CodingAgent` |
| Reasoner stream | `stream.go`, `reasoner.go` | sequence, usage, finish seen | `Recv`, `Collect` | `CodingAgent` |
| Eino adapter | `eino/eino.go` | accumulated calls, their order, usage | `Recv`, `accumulateToolCall`, `recordUsage`, `flushToolCalls` | `ToolCallAssembly` |
| Tool service, policy, audit | `internal/tools`, `internal/policy` | audit trail | `Invoke`, `Decide`, `RecordBounded` | `CodingAgent` |
| Docker sandbox | `internal/sandbox/docker.go` | owner tokens, pending sandboxes, tracked and uncertain containers, flags of a sandbox | `Create`, `Execute`, `Destroy`, `Cleanup` | `Sandbox`; outcome of a command: `CodingAgent` |
| Git worktree | `internal/sandbox/worktree.go`, pointer functions of `docker.go` | claimed paths, directory, Git's list, `.git` pointer | allocate, add, materialise, hide, restore, remove | `Worktree` |
| Sandbox helper | `cmd/sandbox-helper` | the file a patch applies to | apply-patch (read, publish), cleanup | `Sandbox` |
| CLI output, migrations, demos | - | - | - | not modelled (section 9) |

The parts meet in four places. Controller and store meet in `Append`: a write
carries the version it was decided on, an idempotency key, and (leased) a fencing
token. Worker and controller meet in the lease, which a renewal goroutine keeps
alive while the controller works. Agent and sandbox meet in the tool service,
which must leave an audit record for whatever it starts. Sandbox and worktree meet
in the bind mount: the worktree must stay beneath every container, with its `.git`
pointer hidden, and must be whole again for Git when the containers are gone.

What makes the system hard to test:

* a worker can die or stall between any two transactions, in particular between
  an external effect, its receipt and its completion event;
* a worker that lost its lease does not know, and goes on with a stale token;
* operator intents land between any load and the append decided on it;
* unleased callers race each other, and race the switch to leased mode;
* transactions block on row and advisory locks while leases expire;
* checkpoints may be damaged or old, and a machine may stop between the bytes of
  an artifact and the row that names them;
* a model's stream may break off at any event, its tool calls arrive in pieces, tokens may run out exactly, an
  audit record may be lost, and the caller may cancel at any moment;
* a Docker or Git call may time out with its effect absent, half done, done, or
  still to come, and whatever it left must be found and removed by a later call.

## 2. The modules

`RunDomain` has no variables. It is the reducer and the decider as operators:
`ApplyEvent(s, e)`, `Reduce(events)` (a recursive function), `Decide(s)`,
`ValidateTransition(from, to)`, one `Apply...` operator per event type. An error
of the reducer is the state `Rejected`. Action ids are triples
`<<type, attempt, attempt id>>`, as the code derives them from these values.

`RunLifecycle` is the abstract specification: six variables, no log, lease or
process, and no other module below it. `ManagedRun` and `LegacyRun` both implement it under the same mapping,
defined from the projection (`ImplementsLifecycle` in each).

`ManagedRun` is the centre of the project. Its variables are the tables (`log`,
`st`, `lease`, `receipts`, `artifacts`), the position and locals of each worker
(`pc`, `held`, `lost`, `task`, `stop`) and two history variables. One action is
one transaction or one external effect:

| Action | Code |
|---|---|
| `Register`, `Acquire` | `worker.Run`, `lease.Acquire` |
| `Validate`, `Begin`, `DecideNoop`, `DecideCommand` | `ReconcileLeased` up to its decision |
| `PlanAction`, `ReloadPlanned` | append of `ActionPlanned`, reload |
| `RecoverPaused`, `RecoverCancelled`, `RecoverPending`, `LookupReceipt` | `recoverPendingAction` |
| `Execute`, `ExecuteFails`, `RecordReceipt`, `VerifyEvidence` | `executeManagedAction` |
| `CompleteAction`, `FailAction`, `Finish` | the result append with its one retry, the final load |
| `RenewFails`, `SessionLost`, `Poll` | renewal goroutine and session loop |
| `SetDesiredState` | operator |
| `Expire`, `Crash`, `LoseArtifact` | time, process death, lost bytes |

`LegacyRun` is the same for unleased callers: `Load`, `Inspect`, `Plan`,
`Refresh`, `Reason`, `Result`, with `SetDesiredState`, `Crash`, and the first
lease acquisition (`Acquire`) guarded by the query `UnresolvedLegacyAction`.

`LeaseStore` splits the transactions that the two modules above take as atomic
into their lock requests, checks, writes and commits, against a clock.

`Checkpoint` grows a log event by event, saves checkpoints, damages columns of
the checkpoint row, and compares `Rebuild` with `Reduce`.

`ArtifactFiles` has several calls of `Write` for one artifact id (of the owner, and
of the owner before it that does not know), each with the contents and scope it was
given: `BeginWrite`, `CopyBytes`, `SyncFile`, `Publish` (the rename), `SyncDirectory`
(whose error is ignored), `Insert`, `LoadExisting`. Any step may fail, `Kill` ends a
process, and `PowerLoss` ends all of them and keeps only what was synced: a file not
synced holds anything, and a name has any of the files it had since the last sync of
the directory.

`ToolCallAssembly` is one turn of the Eino adapter. The provider (external) sends
fragments of its calls, interleaved, with an index, an id, both or neither;
`AccumulateToolCall` finds the accumulator of each (`KeysFor`), and `RecvFinish`
delivers or refuses the turn. `Meant` is the reference definition it is compared
with, made from the history of fragments.

`CodingAgent` is one call of `CodingAgent.Run` from the request to its return,
with the stream, the tool service, the policy, the audit trail and the outcome of
a sandboxed command.

`Worktree` has the steps of the Git worktree, one operator per external call with
a parameter that says whether the call reports an error. `Sandbox` extends it and
is one sandbox from `Create` to the `Destroy` that releases it. `provider.mu` and
`sandbox.mu` let one operation run at a time, so `pc` is the place of that
operation; the daemon (`Surface`) and the helpers inside the containers run beside
it. One action is one Docker, Git or file-system call together with what the
provider does with its result:

| Action | Code |
|---|---|
| `BeginCreate`, `AllocatePendingWorktree`, `PrepareWorktree`, `AddWorktree`, `MaterializeGitTree` | `Create`, `GitWorktreeProvider.Create` |
| `PrepareWorkspacePermissions`, `HideGitPointer`, `RecordCreate` | the rest of `Create`, with its rollback through `Destroy` |
| `Execute`, `CreateContainer`, `Reinspect`, `Start`, `Finish`, `Interrupt`, `Kill`, `Remove`, `RecordCompleted` | `Execute` and `runContainer` |
| `Destroy`, `StopContainer`, `DropContainer`, `ScanOwned`, `DropAgain`, `Converge` | `Destroy` up to "no container is left" |
| the container actions again, with no patch | the cleanup helper that `Destroy` runs |
| `RestoreGitPointer`, `RemoveWorktree`, `ListWorktrees`, `RemoveWorkspace`, `SanitizeAgain`, `ReleaseSandbox`, `DestroyAgain` | the removal, its failure path, the release |
| `HelperReads`, `HelperPublishes`, `HelperFails`, `HelperCleans` | the helper's apply-patch and cleanup |
| `Surface` | a create the client gave up on takes effect in the daemon |

The `MC*` modules instantiate them for TLC. The theorems are in
`ManagedRunProofs`, `ManagedRunContract`, `ManagedRunOnce` and `ManagedRunOwner`
(each extends the one before), `LegacyRunProofs`, `StoreProofs` (locks, checkpoints
and artifact files), `CodingAgentProofs` and `SandboxProofs`. `MCStore` and `MCAgent`
each hold two components that share no state: a behaviour is about one of them and
leaves the other as it was.

Definitions named `X_Something` next to an `X` are faults: `X` with one plausible
mistake. The mutants of `PROJECT.json` put one in the place of `X`, and the
property named there must then fail; they show that the property depends on the
code it is about.

## 3. Abstractions

* **Time.** In `ManagedRun` a lease has one bit, `live`. A lease with a running,
  renewing owner expires only when the owner stalls (bounded by `MaxStalls`); a
  lease whose owner stopped may expire at any time. `LeaseStore` has a clock.
* **Digests and canonical JSON** stand for their contents: two digests are equal
  when the contents are. Event and field syntax is not validated in the model.
* **Atomic transactions.** A failed append and the `GetRun` that follows it in
  the retry are one step; the load reads a later state only if another event
  slipped in between, and the retry would then conflict as it does in the model.
* **`SetDesiredState`** retries up to 64 version conflicts in the code and is one
  step here.
* **Effects** (`Execute`) ignore the session's context, as the executors do: a
  fenced-out worker still performs the effect it was about to perform.
* **Worker ids** are process incarnations and are never reused.
* **The audit trail** of policy, tool service and sandbox is one set of records,
  each with its writer, its kind and the turn and call it is about. A caller's deadline is the same event as its cancellation.
* **A tool call** is known by the check it would fail first, or by none.
* **Docker and Git** are external and modelled by how the provider uses them. A
  call that must fail (a missing file, a taken name, a bind mount without a source)
  fails; any call may also fail by a fault, at most `MaxFaults` times. A failed
  create has done nothing, is done, or will be done later. A container's immutable
  id stands for the container behind its name, so a reused name is not confused
  with its former holder, as the code's `inspect` by id ensures. Limits, labels and
  output are left out, except the owner label, which tells ours from foreign.
* **Artifact bytes** stand for their digest and size. PostgreSQL keeps what it
  committed. Temporary names are drawn fresh and read by nobody.
* **Arguments of a tool call** are the pieces they consist of. A provider gives id and
  name in the first fragment of a call, as the OpenAI-style protocols do.
* **A workspace file** is the set of patches that are in its text.

## 4. What the runs check

"Faults" below are crashes, stalls past the lease TTL and operator intents, in
every interleaving the bounds allow.

| Run | Instance | Shows |
|---|---|---|
| `takeover` | 2 workers, pause and resume, unsafe and failing actions, lost bytes, 1 stall | `FencedLog`, `ExecutedWasPlanned`, `SuccessIsEarned`, `OneResultPerPlan`, `CompletionHasReceipt`, `UnsafeAtMostOnce`, `OwnerStopsOnlyOnRace`, `CompletedNotRerun` as long as nothing is cancelled |
| `recovery` | 3 workers, 2 intents, 1 crash | `IntentIsObeyed`, `OpenPlanIsPending`, the refinement of `RunLifecycle`, `Converges` |
| `unleased` | 2 callers, 2 answers, 2 intents, 1 crash, with and without a worker asking for the first lease | `OneResultPerPlan`, `QueryMatchesProjection`, `ModesNeverMix`, refinement of `RunLifecycle` |
| `unleased_live` | 2 callers, 2 intents, 1 crash, with and without a worker | `Converges`, `CancelConverges` |
| `durable_store` | logs of 9 events; 2 damaged columns in logs of up to 5; 3 writes of one artifact with 2 contents and 2 scopes, 1 power loss | `RebuildIsReduce`, `CheckpointStaysUsable`, `RegisteredIsIntact` |
| `locking` | 2 workers with 2 threads each, operator, unleased caller; TTL 2, clock to 4 | `DeadlockFree`, `FencedAtCommit`, `AuthorityAfterWait`, `NoEarlyTakeover` |
| `coding_agent` | 2 turns of 2 calls, budget 2, a loss and a cancellation; a provider turn of 4 fragments of 2 calls and 2 usage reports | `WithinBudget`, `TranscriptTellsEffects`, `EveryCallAnswered`, `EffectsOnRecord`, `LostAuditStops`, `DeliveredIsMeant` |
| `sandbox` | 2 patches, 3 commands, 2 paths and a name of which one each is taken, 3 faults at any call | `OwnedIsTracked`, `WorktreeOutlivesContainers`, `NothingLeftBehind`, `LeftoverHasOwner`, `CommandsSeeHiddenPointer`, `ForeignUntouched`, `PatchesStay`, `CompletedIsFinal`, `DestroyConverges` |

Each property is stated in words in its module. Four runs are expected to fail;
section 6 describes them.

**Why the bounds are enough to be interesting.** Two workers and one stall give
the whole takeover story: the old owner resumes at each of its program points
while the new one is at each of its own. (For safety a crash is a
stall from which nobody returns.) In `takeover` the reasoner and the success step
are unsafe, so an interrupted one ends in `WaitingApproval`, while `ApplyPatch` is
repeated and its bytes may vanish after any check of them. `recovery` has a third
worker, since one may crash and another may exit on two operator events that race
the same append; its three safety properties are proved for every bound (section 7).
A Run plans each action once, so no run bounds the log of `ManagedRun` or
`LegacyRun`: only faults and intents are bounded, and each execution goes to its
end. With 5 events a log of `Checkpoint` contains an
intent and open, completed and failed actions, and every prefix of it can carry a
damaged checkpoint; with 9 events the undamaged case goes past a pause, resume
and cancel. Three writes let two equal ones replace each other's file while a third
with other contents or another scope loses the insert. Four fragments of two calls are
enough for each call to be continued after the other began, with one index, two, one
each way or none. A clock of 4 with a TTL of 2 has room for a lease, its renewal or
expiry, and the lease after it. `TokenLimit = 2` with turns that cost 0 to 3 has
budgets not used, exactly used, and exceeded in the first or the second turn.
Three faults let one sandbox lose a create, then the kill or removal of that
container, and then a step of the worktree's removal; three names for commands let
a second command run beside a container that could not be removed, with the taken
name in between. `ReinspectAttempts` is 2 instead of 5 and `MaxAttempts` 2 instead
of 8: each loop can go round and can run out.

**Symmetry** in worker, caller or write ids is used in runs without liveness properties
only. `CHECK_DEADLOCK FALSE` is set because Runs, agent calls and bounded logs
end; `locking` checks circular waiting as an invariant of its own.

## 5. Fairness

`ManagedRun!FairSpec`: each worker keeps taking its steps (a process that is
neither stopped nor crashed is scheduled, and its transactions return), a failed
renewal is noticed (the renewal goroutine ticks), and the lease of a stopped
worker runs out. Nothing forces an intent, a crash or a stall. Convergence is
claimed only for runs with more workers than can crash or exit, as the operator
of the system would have to provide.

`LegacyRun!FairSpec`: callers keep calling `Reconcile`, and a worker that polls
for the lease keeps polling (`worker.Run` polls on `ErrLeaseHeld`).

`Sandbox!FairSpec`: an operation runs to its return (every external call in it has
a deadline of its own), the daemon carries out a create it accepted, the cleanup
helper ends, and a `Destroy` that failed is called again, by the holder of the
handle or by the provider's `Cleanup`. Commands need not end: `Interrupt` is the
deadline of `Execute`.

Every other specification is checked for safety and states no fairness.

## 6. Disagreements between code and documents

Each has a run that TLC refutes, with a counterexample that follows the code step
by step. Three concern cancelling a managed Run, one the sandbox.

* `cancel_crash` (`managed.go:211`). `recoverPendingAction` fails any action that
  is pending on a cancelled Run, `CancelRun` included. If the worker that planned
  `CancelRun` dies before completing it, the next worker appends `ActionFailed`
  for it; from then on planning `CancelRun` conflicts with the stored plan and
  every worker exits. `docs/state-machine.md:61` says that cancel "converges to
  `Cancelled`".
* `cancel_paused` (`reducer.go:645`). On a Run that was paused and then
  cancelled, the completion of `CancelRun` moves only the resume state. The Run
  stays Paused and the completed `CancelRun` is executed again.
  `docs/event-model.md:87` says that a completed action "must not run again".
* `cancel_pending` (`managed.go:206`). With an action pending, pause then cancel
  leaves the Run Paused, and recovery returns before it looks at the cancel: the
  action stays pending. `docs/state-machine.md:78-79` says that cancel "clears an
  older pending action with an auditable failed result".
* `sandbox_retry` (`docker.go:1173`). `Destroy` runs a cleanup helper in a new
  container before it removes the worktree. When an earlier `Destroy` failed after
  Git had deleted the directory or its `.git` file, the bind mount has no source,
  the create fails, and every failed create counts as one with an unknown outcome:
  no later `Destroy` gets past it. `docs/threat-model.md:134` says "Destroy is
  retryable", `docs/architecture.md:207-209` speaks of a "retryable failure".

The first three are also why `Converges` of `ManagedRun` names the first two
(`CancelStuck`) as the only cancels that do not end, why `takeover` has no cancel,
and why `UnsafeAtMostOnce` leaves out `CancelRun`. The unleased path converges on
cancel in all these cases (`unleased_live`).

`DestroyConverges` names the two ends a retried `Destroy` can have besides the
release. `NeverSeen`: it waits for a create that never took effect; that a failed
create stays pending until it is seen is a decision of the code (`adr/0003:55-58`),
but the last disagreement is one way to get there. `Unremovable`: the worktree is
still listed and its `.git` file is gone or was left half-written by
`hideWorktreeGitPointer`, so Git refuses it. Also by design, and visible in
`PatchesStay` and `CompletedIsFinal`: a command that timed out and could neither be
killed nor removed stays tracked, and the next `Execute` runs beside it; only then
can one helper overwrite the other's patch.

## 7. What is proved

### Leased execution

These theorems are about `ManagedRun` with any set of workers, answers, unsafe and
failing actions and any bounds. They assume only `ConstantsAssumption` (the
operator is not a worker, an answer names a tool, only the two executors that can
fail do) and hold for `Spec`, so without fairness.

| Theorem | States | Module |
|---|---|---|
| `TypeCorrect` | types; the projection always exists | `ManagedRunProofs` |
| `Fencing` | `FencedLog` | `ManagedRunProofs` |
| `OneResult`, `NoPlanLeftBehind` | `OneResultPerPlan`, `OpenPlanIsPending` | `ManagedRunProofs` |
| `CompletionBacked` | `CompletionHasReceipt` | `ManagedRunProofs` |
| `IntentBeforeEffect` | `ExecutedWasPlanned` | `ManagedRunProofs` |
| `CancelWinsAlways` | `CancelIsFinal` | `ManagedRunContract` |
| `LeasedExecutionImplementsLifecycle` | `ImplementsLifecycle` | `ManagedRunContract` |
| `IntentObeyed` | `IntentIsObeyed` | `ManagedRunContract` |
| `SuccessEarned` | `SuccessIsEarned` | `ManagedRunContract` |
| `UnsafeOnce` | `UnsafeAtMostOnce` | `ManagedRunOnce` |
| `ResolvedIsAuthoritative` | the owner of the lease executes no action but `CancelRun` that has a result | `ManagedRunOnce` |
| `CompletedIsAuthoritative` | `CompletedNotRerun`, while no cancel was requested | `ManagedRunOnce` |
| `OwnerNeverTrips` | `OwnerStopsOnlyOnRace` | `ManagedRunOwner` |

`TypeOK` and `CancelIsFinal` have no run of their own: they are proved, and the
refinement that `recovery` checks implies the second. The condition of
`CompletedIsAuthoritative` is needed: with a cancel `CompletedNotRerun` is false (section 6, the
paused Run whose `CancelRun` is executed again), and `ResolvedIsAuthoritative` says
that `CancelRun` is the only such action.

The argument has three layers.

1. *One event at a time.* Lemma `LogStep`: a step leaves the log and the
   projection alone, or appends one event that passed every check of `Append`
   (`Appends(e)`: fresh key, live token for a worker's event, receipt for a
   completion, reducible). `LeaseStep` and `ReceiptStep` say the same of the lease
   row and the receipts. The invariants are argued from these three, and from the
   list of worker actions only where a worker's position matters
   (`ExecutionStep`).
2. *Inductive invariants.* None of the properties is inductive alone.
   - `FencedInv` adds `TokenOwner`: events with the current token were written by
     the current owner. Otherwise a new event with the current token could come
     from someone else than the earlier ones.
   - `PlanInv` adds that plans are stored under the key of their action and that
     the pending action is an open plan. Uniqueness of keys then excludes a second
     plan, and the reducer accepts a result only for the pending action.
   - `ReceiptInv` adds that a receipt was written after its plan, under a token at
     least as new; with `FencedInv` this orders plan, receipt and completion.
   - `ExecutionInv` adds that a worker on its way to an execution has a plan in
     the log.
   - `ContractInv` adds that a Run the operator wants paused is observed Paused
     and that `FailRun` is pending only with a recorded failure.
   - `EarnedInv` adds what each stage of the pipeline has behind it: a Run in
     its verification has the completion of its patch in the log, a verified one
     that of its verification after it, both of the current attempt.
   - `OnceInv` adds what a worker knows at each place, from a view that may be stale
     (`Knows`), and is argued per actor: a step of the worker itself (`StepsWell`)
     establishes it, and no step of others takes it away (`KnowledgeStays`,
     `OthersKnow`). A worker about to plan has not planned its action before, a
     worker about to execute an unsafe action is the only one at it (`Apart`) and
     the action has not been executed, and while its token is current the action has
     no result. `Past` supplies the first: planned actions are the pending one or
     belong to stages the Run has left, so a decision never names one of them.
   - `OwnerInv` adds what only the rightful owner can rely on. `OwnerStopsOnlyOnRace`
     excludes every refusal a worker can meet, two apart, so each check of `Append` and `RecordReceipt` needs its own reason to pass.
     `StoreInv` is about the store: a key tells what kind of event it protects
     (`Keyed`), the pending action is recorded as it was planned (`PendingPlan`), a
     receipt has the output its plan asks for (`ReceiptsEarned`), and until a cancel
     the pending action fits the stage of the Run (`Fits`). `Relies` is about the
     worker whose token the lease row names: its plan is new, its action is the
     pending one, it records what has no receipt and completes what has one. Nobody
     else can write then (`OwnerAlone`), and an operator's event short of a cancel
     changes none of it. `Current` says that a plan at the version it was decided on
     is still what `Decide` picks, and `LostIsOver` that a session whose context was
     cancelled has no authority left.
3. *The reducer as a relation.* `IntentEffect`, `PlanEffect`, `CompletedEffect`
   and `FailedEffect` say what one accepted event does to the mapped variables of
   `RunLifecycle`; `ContractStep` combines them with `LogStep`. The converse is
   needed for the owner: `PlanAccepted`, `ResultAccepted` and `FailureAccepted` say
   which events the reducer cannot refuse.

### Unleased execution

`LegacyRunProofs` proves four properties of `LegacyRun` for any set of callers,
answers and intents and any bounds, from `LegacyAssumption`
(an answer names a tool; intents are desired states).

| Theorem | States |
|---|---|
| `UnleasedExecutionImplementsLifecycle` | `ImplementsLifecycle` |
| `OneResult` | `OneResultPerPlan` |
| `QueryAgrees` | `QueryMatchesProjection` |
| `ModesAreSeparate` | `ModesNeverMix` |

As for the leased path, `StoreStep` reduces a step to at most one appended event
(`Appends(e)`), and one lemma per kind of event says what the reducer does with it
(`AdvanceEffect`, `PlanEffect`, `ResultEffect`, `FailEffect`, `CancelEffect`,
`IntentEffect`). There is no fencing token here, so what a caller may append depends
on a decision it made earlier: `CallersPrepared` says that a caller's command names
its action, that its view is one an unleased Run can have, and that a failure it saw
is still recorded. This is what makes `RunFailed` legal when it is appended at a
later version than it was decided on.

`LegacyInv` relates log and projection in both directions: a plan is the pending
action or was resolved (`PlansClosed`), and the pending action has a plan after
which nothing resolved it (`PendingPlanned`). `QueryMatchesProjection` follows
(`QueryIsRight`), and with it `ModesNeverMix`: the switch tests the query, so the
projection has nothing pending at that moment, and afterwards only intents pass.

### Lease store

`StoreProofs` proves, for any workers, time to live and clock
(`LeaseAssumption`: a lease lasts at least one tick):

| Theorem | States |
|---|---|
| `NeverDeadlocks` | `DeadlockFree` |
| `FencingHoldsAtCommit` | `FencedAtCommit` |
| `AuthorityOutlastsTheWait` | `AuthorityAfterWait` |
| `TakeoverIsNeverEarly` | `NoEarlyTakeover` |

The invariant is two-phase locking. `Exclusion`: transactions hold compatible
locks. `Requested`: a transaction holds only locks its program has asked for.
`Knows`: at each place of its program, what a transaction read of the lease row is
still the row, because of the lock it holds. `FencedAtCommit` is `Knows` at the last
place. For `DeadlockFree` the locks get ranks (advisory, lease, Run): a blocked
transaction waits for a rank above those it holds, so a circle would need more ranks
than there are.

### Coding agent

`CodingAgentProofs` proves all five safety properties of `CodingAgent` for any token
limit, number of turns, calls and lost records (`CodingAgentAssumption`: the limits
are positive, the reported totals natural numbers):

| Theorem | States | Invariant |
|---|---|---|
| `BudgetIsKept` | `WithinBudget` | `Account`: what was spent and what is left make up the budget |
| `EffectsAreOnRecord`, `LossStopsTheRun` | `EffectsOnRecord`, `LostAuditStops` | `Trail`: which records exist at each place of an invocation |
| `TranscriptIsTrue` | `TranscriptTellsEffects` | `Ordered`, `Place`: commands and answers in the order of turn and call, and where `Run` is relative to the last of them |
| `CallsAreAnswered` | `EveryCallAnswered` | `Shape`: complete answers after every assistant message but the current one, whose first `next - 1` calls are answered |

### Sandbox

`SandboxProofs` proves the type invariant, six invariants and two action properties
of `Sandbox` for any candidate paths, taken
paths and names, patches, commands, faults and loop limits, from
`WorktreeAssumption` and `SandboxAssumption` (finitely many taken names, limits of
at least one, a lost create has one of the three outcomes above).

| Theorem | States |
|---|---|
| `SandboxTypes` | `TypeOK` |
| `ContainersTracked` | `OwnedIsTracked` |
| `WorktreeStays` | `WorktreeOutlivesContainers` |
| `NothingLeft`, `LeftoverOwned` | `NothingLeftBehind`, `LeftoverHasOwner` |
| `PointerHidden` | `CommandsSeeHiddenPointer` |
| `ForeignStays` | `ForeignUntouched` |
| `PublishedPatchesStay` | `PatchesStay` |
| `CompletedCommandsAreFinal` | `CompletedIsFinal` |

One inductive invariant, `IInv`, carries the invariants. That nothing is left when the
provider holds nothing cannot be argued from what is left alone: it depends on
where the operation is, what the handle says and which names are tracked. `IInv`
has six parts, and each is preserved by every step given itself and the parts
before it:

1. `TypeOK`, the shape of the state;
2. `Phase`, which ties the operation's place to the provider's hold and the
   sandbox's flags (a step of `Destroy` runs only with `destroying` set, and a
   sandbox that accepts commands is neither failed nor being destroyed);
3. `Tracking`, which ties tracked names to the daemon's containers (a container of
   ours is tracked, a request in flight is marked uncertain, an id is never a
   foreign container) and says in which phases nothing may be tracked;
4. `OnDisk`, which ties claims, directories and Git's list;
5. `Beneath`, that what a container mounts is there;
6. `Hidden`, that the pointer is hidden while a command may run.

`PhaseStep`, `PairedStep`, `VisitedStep`, `OnDiskStep`, `BeneathStep` and
`HiddenStep` have one step per action; `RemoveOnlyRemoves` and `ScanOnlyRemoves`
are the two facts about removal that several of them use.

The two action properties are about texts that helpers in several containers read
and publish over each other, and need `Patching` beside `IInv`: as long as no
container of an earlier command is tracked, the text that the running helper read
still has everything that is in the file, and a command that ended well has its patch
in the file.

### Checkpoints

`StoreProofs` proves, for logs of any length and any number of damaged columns:

| Theorem | States |
|---|---|
| `CheckpointIsOnlyACache` | `RebuildIsReduce` |
| `SavedCheckpointStaysUsable` | `CheckpointStaysUsable` |

Both are about what a recursion computes, so they need induction over the log.
`StoreProofs` derives induction over the naturals from the well-foundedness of
`<` (`Induction`), shows that the function `Reduce` chooses exists and is unique
(`FoldExists`, `FoldsAgree`), and from this that `Reduce` of a longer log is one more
`ApplyEvent` (`ReduceAppend`). `ResumeIsReduce` then says that a fold resumed at
version k with `Reduce` of the first k events ends in `Reduce` of them all, provided
keys are distinct and every prefix reduces. The distinct keys matter because
`ReduceFromCheckpoint` looks for repeated keys only among the events it is given. The
invariant supplies both (`Accepted`), and that a row nobody damaged is the checkpoint
of the version it names (`Cached`).

### Artifact store

`StoreProofs` proves `ArtifactIsComplete`, that is `RegisteredIsIntact`, for any
writes, contents, scopes and number of power losses, from `ArtifactAssumption` (the
absent write is not one of the writes). Registration alone says nothing of the file,
which another call may have replaced since, or which may be another one after a power
loss. `ArtifactInv` therefore follows the file on its way:

1. `Shape`, the types;
2. `Written`: a call that is past its copy or its sync has a whole or a synced file,
   and a synced file is whole;
3. `Named`: whatever is, or may be after a power loss, under a name is a synced file
   of exactly the bytes the name says;
4. `OnItsWay`: between its rename and its insert a call's name is taken, and after a
   directory sync that worked it is taken in every state a power loss can leave;
5. `Registered`: the same of the row, and of the records that were returned.

The theorem also states the one gap: `Write` ignores the error of the directory sync,
so a name may vanish in a power loss after its row was committed. `Verify` then reports
the damage; `ManagedRun` has that case as `LoseArtifact`.

## 8. Only model-checked

* Liveness, as TLAPS does not reason about fairness: `Converges`,
  `CancelConverges`, `DestroyConverges` and the other temporal properties of the
  runs.
* `DeliveredIsMeant` of `ToolCallAssembly`: it compares the turn with
  fragments picked by `SelectSeq`, which is defined by recursion, along all the
  orders in which fragments can be told apart.
* `CompletedNotRerun` after a cancel, where it is false for `CancelRun`.

`ManagedRun` and `LegacyRun` take a transaction as one step. `LeaseStore`
supports this at the level of locks: whenever an append or a receipt can become
visible, its token is the row's token (`FencedAtCommit`). It also shows what is
*not* promised: an append may commit after its lease expired, as long as nobody
took over in between; its linearisation point is the second check of the token.
The atomicity itself is an argument, not a checked refinement.

## 9. Not modelled

* Sandbox: two sandboxes of one provider (their names, tokens and paths are drawn
  apart, and the mutexes are separate), container limits, network and mounts,
  output truncation, the tool runner's own deadlines. Of the sandbox
  helper, `list`, `read` and `search` change nothing, `test` runs the workspace's own
  tests and `probe` serves the demos.
* A crash of the process that holds a provider: the provider keeps nothing on disk,
  and no code finds the sandboxes of an earlier process.
* Message and tool conversion of the Eino adapter, cassette validation,
  provider-error classes: pure functions of strings.
* The artifact id and path checks, and temporary files a dead process leaves behind
  (nothing removes them, nothing reads them).
* The worker's process heartbeat: its failure ends the worker, which `Crash`
  covers for the Run.
* JSON Schema evaluation, path normalisation, policy rule matching: string
  functions and file-system reads, abstracted to admitted or refused.
* Repair events: the reducer rejects them and no code emits them.
* 64-bit limits of versions and tokens, the 64-retry limit of `SetDesiredState`.
* CLI parsing and printing, migrations, demos, scripts: pure I/O
  or sequential wiring. Several packages (verifier, repair, replay, fault,
  telemetry, artifact) are empty.

## 10. Plan

Done, in this order: domain; leased execution with its contract and proofs;
unleased execution and the mode switch; lock-level store; checkpoints; coding
agent; sandbox and worktree with their proofs; artifact files with their proof;
assembly of tool calls; proofs for success, single execution, unleased execution,
the lease store and the coding agent; proofs for checkpoints, the rightful owner and
the sandbox's patches. Next:

1. `ManagedRun` started after an unleased prefix, composing both modes.
2. `LeaseStore` as a checked refinement of the atomic lease row.
3. A proof of `DeliveredIsMeant`, with the induction of `StoreProofs`.

## Running

    tlc -workers 2 -config takeover.cfg MCManagedRun
    tlapm ManagedRunOwner.tla        # proves this module only, not the ones it extends
    tlapm SandboxProofs.tla          # several minutes from nothing
