---------------------------- MODULE RunLifecycle ----------------------------
(***************************************************************************)
(* What a Run promises an observer, whichever path executes it: the        *)
(* lifecycle of docs/state-machine.md without logs, leases, receipts or    *)
(* processes.  It is the contract between the transition table of          *)
(* internal/domain (ValidateTransition), the desired-state rules           *)
(* (applyDesiredState) and the two reconcilers.  ManagedRun (leased        *)
(* workers) and LegacyRun (unleased reconcile) each implement it.          *)
(*                                                                         *)
(* stage is where the Run stands in its pipeline: ObservedState, or        *)
(* ResumeState while it is Paused.                                         *)
(***************************************************************************)
VARIABLES
  desired,   \* the operator's durable intent
  paused,    \* ObservedState is Paused
  stage,     \* the logical state
  open,      \* an action is planned and has no result yet
  verified,  \* verification evidence of the current attempt
  failing    \* a failure was recorded

lifecycle == <<desired, paused, stage, open, verified, failing>>

Terminal(status) == status \in {"Succeeded", "Failed", "Cancelled"}

LifecycleInit ==
  /\ desired = "Running" /\ ~paused /\ stage = "Queued"
  /\ ~open /\ ~verified /\ ~failing

(* Work goes on while the operator wants the Run to run.  Under a pause    *)
(* only what was already in flight may still deliver its result.           *)
MayDeliver == desired = "Running" \/ (paused /\ desired = "Paused" /\ open)

(* A Run whose last result arrived while it was Paused has a terminal      *)
(* stage but is not over: the operator can still resume or cancel it.      *)
Ended == Terminal(stage) /\ ~paused

Plan ==
  /\ ~open /\ open'
  /\ desired = "Running" \/ desired = "Cancelled"
  /\ ~Ended
  /\ UNCHANGED <<desired, paused, stage, verified, failing>>

PipelineNext(from) ==
  CASE from = "Queued"       -> "Provisioning"
    [] from = "Provisioning" -> "Reasoning"
    [] from = "Reasoning"    -> "Acting"
    [] from = "Acting"       -> "Verifying"
    [] from = "Verifying"    -> "Succeeded"
    [] OTHER                 -> ""

(* One stage at a time, and success only on verification evidence.         *)
Advance ==
  /\ MayDeliver
  /\ PipelineNext(stage) # "" /\ stage' = PipelineNext(stage)
  /\ stage' = "Succeeded" => verified
  /\ ~open'
  /\ UNCHANGED <<desired, paused, verified, failing>>

RecordVerification ==
  /\ MayDeliver /\ stage = "Verifying" /\ open
  /\ verified' /\ ~open'
  /\ UNCHANGED <<desired, paused, stage, failing>>

(* An open action failed: the Run stays where it is and will be failed, or *)
(* its outcome is unknown and the Run waits for the operator.              *)
RecordFailure ==
  /\ open /\ ~open' /\ failing'
  /\ \/ UNCHANGED stage
     \/ /\ MayDeliver /\ ~Terminal(stage) /\ stage # "WaitingApproval"
        /\ stage' = "WaitingApproval"
  /\ UNCHANGED <<desired, paused, verified>>

Fail ==
  /\ MayDeliver /\ failing /\ ~Terminal(stage)
  /\ stage' = "Failed" /\ ~open'
  /\ UNCHANGED <<desired, paused, verified, failing>>

(* Under cancel intent an open result is dropped, and the only stage left  *)
(* to reach is Cancelled.                                                  *)
DropResult ==
  /\ desired = "Cancelled" /\ open /\ ~open'
  /\ UNCHANGED <<desired, paused, stage, verified, failing>>

Cancel ==
  /\ desired = "Cancelled" /\ ~Terminal(stage)
  /\ stage' = "Cancelled" /\ ~open'
  /\ paused' \in {paused, FALSE}
  /\ UNCHANGED <<desired, verified, failing>>

(* Intents move no work: pause and resume return to the same stage, and    *)
(* there is no way back from cancel.                                       *)
ChangeDesired ==
  /\ ~Ended
  /\ \/ desired = "Running" /\ desired' = "Paused" /\ ~paused /\ paused'
     \/ desired = "Paused" /\ desired' = "Running" /\ paused /\ ~paused'
     \/ desired # "Cancelled" /\ desired' = "Cancelled" /\ UNCHANGED paused
  /\ UNCHANGED <<stage, open, verified, failing>>

LifecycleNext ==
  \/ Plan \/ Advance \/ RecordVerification \/ RecordFailure \/ Fail
  \/ DropResult \/ Cancel \/ ChangeDesired

LifecycleSpec == LifecycleInit /\ [][LifecycleNext]_lifecycle
=============================================================================
