------------------------------- MODULE MCStore -------------------------------
(* The two durable stores beside the event log: the checkpoint columns and *)
(* the artifact files.  They share no state, so a behaviour is about one   *)
(* of them and leaves the other as it was.                                 *)
EXTENDS Checkpoint, ArtifactFiles, TLC

CONSTANTS x1, x2, x3

VARIABLE part

StoreInit ==
  /\ CheckpointInit /\ ArtifactInit
  /\ \/ part = "artifact"
     \/ part = "checkpoint" /\ input = [w \in Writes |-> CHOOSE i \in Inputs : TRUE]

WriteSymmetry == Permutations(Writes)

StoreNext ==
  \/ part = "checkpoint" /\ CheckpointNext /\ UNCHANGED <<artifactVars, part>>
  \/ part = "artifact" /\ ArtifactNext /\ UNCHANGED <<checkpointVars, part>>

StoreSpec == StoreInit /\ [][StoreNext]_<<checkpointVars, artifactVars, part>>
=============================================================================
