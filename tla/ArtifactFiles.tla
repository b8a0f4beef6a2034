---------------------------- MODULE ArtifactFiles ----------------------------
(***************************************************************************)
(* PostgresArtifactStore.Write and Verify for one artifact ID: calls of    *)
(* several workers (an owner, the owner before it that does not know) put  *)
(* bytes into a file of their own, publish it under a name made of the ID  *)
(* and the digest, and register it.  Processes die and machines stop at    *)
(* any moment.                                                             *)
(*                                                                         *)
(* The bytes stand for their digest and size.  What a machine keeps when   *)
(* it stops is what was synced, and of the rest anything.  PostgreSQL      *)
(* keeps what it committed.  Temporary names are drawn fresh and read by   *)
(* nobody: they are left out.                                              *)
(***************************************************************************)
EXTENDS Naturals

CONSTANTS
  Writes,         \* calls of Write
  NoWrite,        \* no call: nothing under a name, nothing registered
  Bytes,          \* contents a call may be given
  Scopes,         \* Run, attempt and type a call may be given
  MaxPowerLosses  \* bound: machine stops

ASSUME ArtifactAssumption ==
  NoWrite \notin Writes /\ MaxPowerLosses \in Nat

VARIABLES
  at,          \* where each call is
  input,       \* what it was given
  file,        \* how much of its bytes its file holds
  synced,      \* calls whose file was synced
  published,   \* the file under the name of the ID and each digest
  survivors,   \* the files that may be under it after a power loss
  unsynced,    \* calls whose sync of the directory failed
  artifact,    \* the call that inserted the artifacts row of the ID
  losses       \* power losses so far

directory == <<published, survivors, unsynced>>
artifactVars == <<at, input, file, synced, directory, artifact, losses>>

Inputs == [bytes : Bytes, scope : Scopes]

Returned == {"ok", "conflict", "error"}

ArtifactInit ==
  /\ at = [w \in Writes |-> "idle"]
  /\ input \in [Writes -> Inputs]
  /\ file = [w \in Writes |-> "empty"]
  /\ synced = {} /\ unsynced = {}
  /\ published = [b \in Bytes |-> NoWrite]
  /\ survivors = [b \in Bytes |-> {NoWrite}]
  /\ artifact = NoWrite /\ losses = 0

Move(w, place) == at' = [at EXCEPT ![w] = place]

-----------------------------------------------------------------------------
(* Write.                                                                  *)

(* The checks and CreateTemp, which draws a fresh name.                    *)
BeginWrite(w) ==
  /\ at[w] = "idle"
  /\ Move(w, "copy") \/ Move(w, "error")
  /\ UNCHANGED <<input, file, synced, directory, artifact, losses>>

(* io.Copy into the file and the hash.                                     *)
CopyBytes(w) ==
  /\ at[w] = "copy"
  /\ \/ file[w] = "empty" /\ file' = [file EXCEPT ![w] = "part"] /\ UNCHANGED at
     \/ file[w] = "part" /\ file' = [file EXCEPT ![w] = "all"] /\ Move(w, "sync")
  /\ UNCHANGED <<input, synced, directory, artifact, losses>>

(* Fault: the file is closed without Sync.                                 *)
SyncFile_CloseOnly(w) ==
  /\ at[w] = "sync"
  /\ Move(w, "rename")
  /\ UNCHANGED <<input, file, synced, directory, artifact, losses>>

SyncFile(w) ==
  /\ at[w] = "sync"
  /\ synced' = synced \cup {w} /\ Move(w, "rename")
  /\ UNCHANGED <<input, file, directory, artifact, losses>>

(* An error up to Rename; the deferred Remove drops the temporary name.    *)
FailWrite(w) ==
  /\ at[w] \in {"copy", "sync", "rename"}
  /\ Move(w, "error")
  /\ UNCHANGED <<input, file, synced, directory, artifact, losses>>

(* Rename replaces what an equal call published.                           *)
Publish(w) ==
  LET b == input[w].bytes
  IN  /\ at[w] = "rename"
      /\ Move(w, "syncdir")
      /\ published' = [published EXCEPT ![b] = w]
      /\ survivors' = [survivors EXCEPT ![b] = @ \cup {w}]
      /\ UNCHANGED <<input, file, synced, unsynced, artifact, losses>>

(* The directory is synced; an error of that is ignored.                   *)
SyncDirectory(w) ==
  /\ at[w] = "syncdir"
  /\ Move(w, "insert")
  /\ \/ /\ survivors' = [b \in Bytes |-> {published[b]}]
        /\ UNCHANGED unsynced
     \/ unsynced' = unsynced \cup {w} /\ UNCHANGED survivors
  /\ UNCHANGED <<input, file, synced, published, artifact, losses>>

(* INSERT ... ON CONFLICT DO NOTHING; its answer may be lost.              *)
Insert(w) ==
  /\ at[w] = "insert"
  /\ \/ artifact = NoWrite /\ artifact' = w
        /\ (Move(w, "ok") \/ Move(w, "error"))
     \/ artifact # NoWrite /\ Move(w, "load") /\ UNCHANGED artifact
     \/ Move(w, "error") /\ UNCHANGED artifact
  /\ UNCHANGED <<input, file, synced, directory, losses>>

(* Get of the existing row, and the comparison of every column with it.    *)
LoadExisting(w) ==
  /\ at[w] = "load"
  /\ \/ input[artifact] = input[w] /\ Move(w, "ok")
     \/ input[artifact] # input[w] /\ Move(w, "conflict")
     \/ Move(w, "error")
  /\ UNCHANGED <<input, file, synced, directory, artifact, losses>>

-----------------------------------------------------------------------------
(* The process of a call dies.                                             *)
Kill(w) ==
  /\ at[w] \notin {"idle", "dead"} \cup Returned
  /\ Move(w, "dead")
  /\ UNCHANGED <<input, file, synced, directory, artifact, losses>>

(* The machine stops: calls die, a name has one of the files it may have,  *)
(* and a file that was not synced holds anything.                          *)
PowerLoss ==
  /\ losses < MaxPowerLosses /\ losses' = losses + 1
  /\ at' = [w \in Writes |-> IF at[w] \in {"idle"} \cup Returned THEN at[w] ELSE "dead"]
  /\ published' \in {p \in [Bytes -> Writes \cup {NoWrite}] :
                       \A b \in Bytes : p[b] \in survivors[b]}
  /\ survivors' = [b \in Bytes |-> {published'[b]}]
  /\ file' \in {f \in [Writes -> {"empty", "part", "all"}] :
                  \A w \in Writes : w \in synced \/ at[w] = "idle" => f[w] = file[w]}
  /\ UNCHANGED <<input, synced, unsynced, artifact>>

ArtifactNext ==
  \/ \E w \in Writes :
       \/ BeginWrite(w) \/ CopyBytes(w) \/ SyncFile(w) \/ FailWrite(w) \/ Publish(w)
       \/ SyncDirectory(w) \/ Insert(w) \/ LoadExisting(w) \/ Kill(w)
  \/ PowerLoss

ArtifactSpec == ArtifactInit /\ [][ArtifactNext]_artifactVars

-----------------------------------------------------------------------------
(* Verify: the row's file is there and its bytes have the row's digest.    *)
Verify ==
  /\ artifact # NoWrite
  /\ LET bytes == input[artifact].bytes
         found == published[bytes]
     IN  found # NoWrite /\ file[found] = "all" /\ input[found].bytes = bytes

(* Complete at registration, and after it: a registered artifact verifies, *)
(* also when its file is replaced by an equal call's, and also after a     *)
(* power loss unless the sync of the directory, whose error Write ignores, *)
(* failed in the call that registered it.  A call that returned a record   *)
(* returned the registered one.                                            *)
RegisteredIsIntact ==
  /\ artifact # NoWrite => Verify \/ (losses > 0 /\ artifact \in unsynced)
  /\ \A w \in Writes :
       at[w] = "ok" => artifact # NoWrite /\ input[w] = input[artifact]
=============================================================================
