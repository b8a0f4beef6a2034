----------------------------- MODULE Checkpoint -----------------------------
(***************************************************************************)
(* The checkpoint cache of the PostgreSQL event store: SaveCheckpoint      *)
(* snapshots the projection of the log, Rebuild starts from it when it can *)
(* be trusted.  A checkpoint is disposable: any of its columns may be      *)
(* damaged, and Rebuild must still return what the log says.               *)
(*                                                                         *)
(* A digest is modelled by what it digests: equal digests, equal contents. *)
(* The version of a state is carried beside it, as in Run.Version.         *)
(***************************************************************************)
EXTENDS RunDomain, FiniteSets

CONSTANTS
  Intents,     \* desired states the operator may ask for
  MaxEvents,   \* bound: length of the log
  MaxDamages,  \* bound: columns that get damaged
  MaxDamaged   \* bound: length of a log whose checkpoint is damaged

ASSUME CheckpointAssumption ==
  /\ Intents \subseteq DesiredStates
  /\ MaxEvents \in Nat /\ MaxDamages \in Nat /\ MaxDamaged \in Nat

VARIABLES
  log,      \* events rows, ordered by seq
  saved,    \* the checkpoint columns of the runs row
  damages   \* history: columns damaged so far

checkpointVars == <<log, saved, damages>>

Prefix(n) == SubSeq(log, 1, n)

Snapshot(n) == [version |-> n, state |-> Reduce(Prefix(n))]

NoSnapshot == [version |-> 0, state |-> InitialState]

(* seq 0 is the column's NULL.                                             *)
NoCheckpoint == [seq |-> 0, snap |-> NoSnapshot, stateDigest |-> NoSnapshot,
                 eventDigest |-> <<>>]

CheckpointInit ==
  /\ log = <<Event("RunCreated", <<NoAction, "RunCreated", 0>>, "", 0)>>
  /\ saved = NoCheckpoint
  /\ damages = 0

-----------------------------------------------------------------------------
(* The events that some caller of Append could append next.                *)

Fact(type, act) ==
  [Event(type, <<act, type, Len(log)>>, "", 0)
     EXCEPT !.act = act, !.aid = 1, !.scope = "unsafe", !.tool = "patch"]

Proposals(s) ==
  {[Event("DesiredStateChanged", <<NoAction, d, Len(log)>>, "", 0)
      EXCEPT !.desired = d] : d \in Intents}
  \cup {Fact(type, Decide(s).act) :
          type \in {"ActionPlanned"} \cup LegacyLifecycleResultEvents}
  \cup {Fact("ActionCompleted", s.pend)}
  \cup {[Fact("ActionFailed", s.pend) EXCEPT !.reason = "failed", !.outcome = o] :
          o \in ActionOutcomes}

AppendEvent ==
  LET s == Reduce(log)
  IN  /\ Len(log) < IF damages = 0 THEN MaxEvents ELSE MaxDamaged
      /\ \E e \in Proposals(s) :
           /\ ApplyEvent(s, e).exists
           /\ log' = Append(log, e)
      /\ UNCHANGED <<saved, damages>>

(* The caller names a version it has read; the transaction refuses it when *)
(* the log has moved on.                                                   *)
SaveCheckpoint(expectedVersion) ==
  /\ expectedVersion = Len(log)
  /\ saved' = [seq |-> expectedVersion, snap |-> Snapshot(expectedVersion),
             stateDigest |-> Snapshot(expectedVersion), eventDigest |-> log]
  /\ UNCHANGED <<log, damages>>

(* One column is overwritten: with nothing, or with what a checkpoint of   *)
(* another version, saved or to come, would hold.                          *)
Damage ==
  /\ saved.seq # 0 /\ damages < MaxDamages /\ Len(log) <= MaxDamaged
  /\ damages' = damages + 1
  /\ \/ \E n \in 0 .. Len(log) + 1 : saved' = [saved EXCEPT !.seq = n]
     \/ \E n \in 0 .. Len(log) : saved' = [saved EXCEPT !.snap = Snapshot(n)]
     \/ \E n \in 0 .. Len(log) : saved' = [saved EXCEPT !.snap.state = Snapshot(n).state]
     \/ \E n \in 0 .. Len(log) : saved' = [saved EXCEPT !.stateDigest = Snapshot(n)]
     \/ \E n \in 0 .. Len(log) : saved' = [saved EXCEPT !.eventDigest = Prefix(n)]
  /\ UNCHANGED log

-----------------------------------------------------------------------------
(* Rebuild.                                                                *)

(* Fault: a snapshot that matches its own digest is trusted.               *)
Trusted_OwnDigest == saved.seq # 0 /\ saved.seq <= Len(log) /\ saved.snap = saved.stateDigest

Trusted ==
  /\ saved.seq # 0 /\ saved.seq <= Len(log)
  /\ saved.snap = saved.stateDigest
  /\ saved.snap.version = saved.seq
  /\ saved.eventDigest = Prefix(saved.seq)
  /\ saved.snap = Snapshot(saved.seq)

(* The suffix, from a state that already exists.  Keys are compared within *)
(* the suffix only.                                                        *)

(* Fault: the suffix starts at the checkpoint's own event.                 *)
ReduceFromCheckpoint_OffByOne(snap, events) ==
  LET suffix == IF snap.version = 0 THEN events ELSE <<log[snap.version]>> \o events
      from[n \in 0 .. Len(suffix)] ==
        IF n = 0 THEN snap.state ELSE ApplyEvent(from[n - 1], suffix[n])
  IN  from[Len(suffix)]

ReduceFromCheckpoint(snap, events) ==
  LET from[n \in 0 .. Len(events)] ==
        IF n = 0 THEN snap.state
        ELSE LET before == from[n - 1]
             IN  IF \/ ~before.exists
                    \/ \E i \in 1 .. n - 1 : events[i].key = events[n].key
                 THEN Rejected ELSE ApplyEvent(before, events[n])
  IN  IF snap.version = 0 \/ ~snap.state.exists THEN Rejected
      ELSE from[Len(events)]

Resumed == ReduceFromCheckpoint(saved.snap, SubSeq(log, saved.seq + 1, Len(log)))

Rebuild ==
  IF Trusted /\ Resumed.exists THEN Resumed ELSE Reduce(log)

CheckpointNext ==
  \/ AppendEvent
  \/ \E expectedVersion \in 1 .. MaxEvents : SaveCheckpoint(expectedVersion)
  \/ Damage

CheckpointSpec == CheckpointInit /\ [][CheckpointNext]_checkpointVars

-----------------------------------------------------------------------------
(* A checkpoint is only a cache: whatever was appended after it was saved, *)
(* and however its columns were damaged, Rebuild returns the reduction of  *)
(* the whole log.                                                          *)
RebuildIsReduce == Rebuild = Reduce(log)

(* The cache is used: a checkpoint that was saved and not damaged stays    *)
(* acceptable as the log grows, and its suffix reduces.                    *)
CheckpointStaysUsable == saved.seq # 0 /\ damages = 0 => Trusted /\ Resumed.exists
=============================================================================
