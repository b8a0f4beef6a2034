---------------------------- MODULE StoreProofs -----------------------------
(***************************************************************************)
(* The durable stores, for logs, calls and transactions without bound.     *)
(*                                                                         *)
(* Locks (LeaseStore), for any workers, TTL and clock: two-phase locking.  *)
(* What a transaction read stays the row because of the locks it holds     *)
(* (Knows), conflicting locks have one holder (Exclusion), and a           *)
(* transaction holds only locks its program has asked for (Requested), in  *)
(* which the order advisory, lease, Run never turns back.                  *)
(*                                                                         *)
(* Checkpoints (Checkpoint): a damaged, stale or missing checkpoint never  *)
(* changes what Rebuild returns, and an undamaged one stays usable.        *)
(* Neither is inductive. The invariant adds that every prefix of the log   *)
(* was accepted, with fresh keys (Accepted), and that a checkpoint nobody  *)
(* damaged is the one of the version it names (Cached); ResumeIsReduce, by *)
(* induction over the events after that version, does the rest.            *)
(*                                                                         *)
(* Artifacts (ArtifactFiles): RegisteredIsIntact depends on what may come  *)
(* back under a name after a power loss. The invariant adds, from the      *)
(* order of Write, that only synced files get a name (Named), that a call  *)
(* on its way to the insert has its name in the directory and, once the    *)
(* directory is synced, keeps it (OnItsWay), and the same of the call that *)
(* made the row (Registered).                                              *)
(***************************************************************************)
EXTENDS LeaseStore, Checkpoint, ArtifactFiles, WellFoundedInduction, TLAPS

-----------------------------------------------------------------------------
(* Locks.                                                                   *)

Rows == [worker : Workers \cup {""}, token : Nat, expires : Nat]

Ops == {"acquire", "renew", "receipt", "append", "unleased", "intent"}

Transactions == [op : Ops \cup {""}, at : Nat, saw : Rows, until : Nat, since : Nat]

InProgram(op, pos) ==
  \/ op = "acquire" /\ pos \in 1 .. 6
  \/ op = "renew" /\ pos \in 1 .. 3
  \/ op = "receipt" /\ pos \in 1 .. 4
  \/ op = "append" /\ pos \in 1 .. 7
  \/ op = "unleased" /\ pos \in 1 .. 4
  \/ op = "intent" /\ pos \in 1 .. 2

Types ==
  /\ now \in Nat
  /\ row \in Rows
  /\ held \in [Workers -> Nat]
  /\ tx \in [Threads -> Transactions]
  /\ locks \in [Threads -> SUBSET LockModes]
  /\ row.token = 0 => row = NoRow

(* Which thread runs which transaction: x is the transaction of thread t,  *)
(* h the token its worker presents.                                        *)
Runs(x, t, h) ==
  /\ x.op # "" => InProgram(x.op, x.at)
  /\ x.op \in {"acquire", "receipt", "append"} => t[1] \in Workers /\ t[2] = "reconcile"
  /\ x.op = "renew" => t[1] \in Workers /\ t[2] = "renew"
  /\ x.op \in {"renew", "receipt", "append"} => h # 0

(* The step of each kind is at one place of each program.                  *)

Places(kind, op, pos) ==
  \/ op = "acquire" /\ \/ kind = "advisory" /\ pos = 1
                       \/ kind = "lease_U" /\ pos = 2
                       \/ kind = "check" /\ pos = 3
                       \/ kind = "write" /\ pos = 4
                       \/ kind = "run_K" /\ pos = 5
                       \/ kind = "commit" /\ pos = 6
  \/ op = "renew" /\ \/ kind = "lease_U" /\ pos = 1
                     \/ kind = "check" /\ pos = 2
                     \/ kind = "commit" /\ pos = 3
  \/ op = "receipt" /\ \/ kind = "lease_U" /\ pos = 1
                       \/ kind = "check" /\ pos = 2
                       \/ kind = "run_K" /\ pos = 3
                       \/ kind = "commit" /\ pos = 4
  \/ op = "append" /\ \/ kind = "advisory" /\ pos = 1
                      \/ kind = "lease_S" /\ pos = 2
                      \/ kind = "check" /\ pos = 3
                      \/ kind = "run_U" /\ pos = 4
                      \/ kind = "lease_S" /\ pos = 5
                      \/ kind = "check" /\ pos = 6
                      \/ kind = "commit" /\ pos = 7
  \/ op = "unleased" /\ \/ kind = "advisory" /\ pos = 1
                        \/ kind = "mode" /\ pos = 2
                        \/ kind = "run_U" /\ pos = 3
                        \/ kind = "commit" /\ pos = 4
  \/ op = "intent" /\ \/ kind = "run_U" /\ pos = 1
                      \/ kind = "commit" /\ pos = 2

(* A lock was asked for by a step the transaction has taken.               *)
Requested(x, l) ==
  /\ x.op = "" => l = {}
  /\ \A m \in l : \E i \in 1 .. x.at - 1 : Places(m, x.op, i)

(* What a transaction knows at each place of its program: x is the         *)
(* transaction, l its locks, w its worker, h the token it presents.        *)
Knows(x, l, w, h) ==
  /\ x.op = "acquire" =>
       /\ x.at >= 2 => "advisory" \in l
       /\ x.at >= 3 => x.saw = row /\ (row.token # 0 => "lease_U" \in l)
       /\ x.at >= 4 => row.expires <= now
  /\ x.op \in {"renew", "receipt"} =>
       /\ x.at = 2 /\ x.saw.token # 0 => x.saw = row /\ "lease_U" \in l
       /\ x.at >= 3 => row.worker = w /\ row.token = h /\ "lease_U" \in l
  /\ x.op = "append" =>
       /\ x.at >= 2 => "advisory" \in l
       /\ x.at = 3 /\ x.saw.token # 0 => x.saw = row /\ "lease_S" \in l
       /\ x.at >= 4 => row.worker = w /\ row.token = h /\ "lease_S" \in l
       /\ x.at >= 5 => x.since <= now
       /\ x.at = 6 => x.saw = row
       /\ x.at = 7 => row.expires > x.since
  /\ x.op = "unleased" =>
       /\ x.at >= 2 => "advisory" \in l
       /\ x.at >= 3 => row.token = 0

Compatible(l, k) == \A m \in l : Conflicts(m) \cap k = {}

Local(t) ==
  /\ Runs(tx[t], t, held[t[1]])
  /\ Requested(tx[t], locks[t])
  /\ Knows(tx[t], locks[t], t[1], held[t[1]])

Exclusion == \A t, u \in Threads : t # u => Compatible(locks[t], locks[u])

IInv ==
  /\ Types /\ Exclusion
  /\ \A t \in Threads : Local(t)

-----------------------------------------------------------------------------
(* Program puts every step where Places says.                              *)

LEMMA AcquirePlaces ==
  ASSUME NEW pos \in 1 .. 6
  PROVE  Places(Program("acquire")[pos], "acquire", pos)
  BY DEF Places, Program, AcquireProgram

LEMMA RenewPlaces ==
  ASSUME NEW pos \in 1 .. 3
  PROVE  Places(Program("renew")[pos], "renew", pos)
  BY DEF Places, Program, RenewProgram

LEMMA ReceiptPlaces ==
  ASSUME NEW pos \in 1 .. 4
  PROVE  Places(Program("receipt")[pos], "receipt", pos)
  BY DEF Places, Program, ReceiptProgram

LEMMA AppendPlaces ==
  ASSUME NEW pos \in 1 .. 7
  PROVE  Places(Program("append")[pos], "append", pos)
  BY DEF Places, Program, AppendProgram

LEMMA UnleasedPlaces ==
  ASSUME NEW pos \in 1 .. 4
  PROVE  Places(Program("unleased")[pos], "unleased", pos)
  BY DEF Places, Program

LEMMA IntentPlaces ==
  ASSUME NEW pos \in 1 .. 2
  PROVE  Places(Program("intent")[pos], "intent", pos)
  BY DEF Places, Program


LEMMA ProgramPlaces ==
  ASSUME NEW op, NEW pos, InProgram(op, pos)
  PROVE  Places(Program(op)[pos], op, pos)
  <1>1. CASE op = "acquire" /\ pos \in 1 .. 6
    BY <1>1, AcquirePlaces, Zenon
  <1>2. CASE op = "renew" /\ pos \in 1 .. 3
    BY <1>2, RenewPlaces, Zenon
  <1>3. CASE op = "receipt" /\ pos \in 1 .. 4
    BY <1>3, ReceiptPlaces, Zenon
  <1>4. CASE op = "append" /\ pos \in 1 .. 7
    BY <1>4, AppendPlaces, Zenon
  <1>5. CASE op = "unleased" /\ pos \in 1 .. 4
    BY <1>5, UnleasedPlaces, Zenon
  <1>6. CASE op = "intent" /\ pos \in 1 .. 2
    BY <1>6, IntentPlaces, Zenon
  <1>. QED
    BY <1>1, <1>2, <1>3, <1>4, <1>5, <1>6 DEF InProgram

LEMMA TransactionType ==
  ASSUME Types, NEW t \in Threads
  PROVE  /\ tx[t].op \in Ops \cup {""} /\ tx[t].at \in Nat /\ tx[t].saw \in Rows
         /\ tx[t].until \in Nat /\ tx[t].since \in Nat
  <1>1. tx[t] \in Transactions
    BY DEF Types
  <1>. QED
    BY <1>1 DEF Transactions

LEMMA StepPlaces ==
  ASSUME NEW t \in Threads, Local(t), tx[t].op # ""
  PROVE  Places(Step(t), tx[t].op, tx[t].at)
  <1>1. InProgram(tx[t].op, tx[t].at)
    BY DEF Local, Runs
  <1>. QED
    BY <1>1, ProgramPlaces DEF Step

LEMMA ConflictsSymmetric ==
  ASSUME NEW m \in LockModes, NEW n \in LockModes, n \in Conflicts(m)
  PROVE  m \in Conflicts(n)
  BY DEF LockModes, Conflicts

-----------------------------------------------------------------------------
LEMMA IdleType == NoRow \in Rows /\ Idle \in Transactions
  <1>1. NoRow \in Rows
    BY DEF NoRow, Rows
  <1>. QED
    BY <1>1 DEF Idle, Transactions

(* A thread without a transaction has nothing to answer for.               *)
LEMMA NoTransaction ==
  ASSUME NEW x, NEW t, NEW h, NEW w, x.op = ""
  PROVE  Runs(x, t, h) /\ Requested(x, {}) /\ Knows(x, {}, w, h)
  <1>1. Runs(x, t, h)
    BY DEF Runs
  <1>2. Requested(x, {})
    BY DEF Requested
  <1>3. Knows(x, {}, w, h)
    BY DEF Knows
  <1>. QED
    BY <1>1, <1>2, <1>3

LEMMA InitInvariant == Init => IInv
  <1>. SUFFICES ASSUME Init PROVE IInv
    OBVIOUS
  <1>3. \A t \in Threads : tx[t].op = "" /\ locks[t] = {}
    BY DEF Init, Idle
  <1>4. Types
    BY IdleType DEF Init, Types
  <1>5. Exclusion
    BY <1>3 DEF Exclusion, Compatible
  <1>6. ASSUME NEW t \in Threads PROVE Local(t)
    <2>1. tx[t].op = "" /\ locks[t] = {}
      BY <1>3
    <2>. QED
      BY <2>1, NoTransaction, Zenon DEF Local
  <1>. QED
    BY <1>4, <1>5, <1>6 DEF IInv

(* The clock only advances, so what has expired stays expired.             *)
LEMMA TickStep == IInv /\ Tick => IInv'
  <1>. SUFFICES ASSUME IInv, Tick PROVE IInv'
    OBVIOUS
  <1>1. /\ now' = now + 1 /\ now \in Nat /\ row \in Rows
        /\ row' = row /\ held' = held /\ tx' = tx /\ locks' = locks
    BY DEF Tick, IInv, Types
  <1>2. Types'
    BY <1>1 DEF IInv, Types
  <1>3. Exclusion'
    BY <1>1 DEF IInv, Exclusion
  <1>4. ASSUME NEW t \in Threads PROVE Local(t)'
    <2>1. tx[t].since \in Nat /\ row.expires \in Nat
      BY <1>1, TransactionType DEF IInv, Rows
    <2>2. Local(t)
      BY DEF IInv
    <2>3. Knows(tx[t], locks[t], t[1], held[t[1]])'
      BY <1>1, <2>1, <2>2 DEF Local, Knows
    <2>. QED
      BY <1>1, <2>2, <2>3 DEF Local
  <1>. QED
    BY <1>2, <1>3, <1>4 DEF IInv

(* What a step of another thread leaves alone.                             *)
LEMMA Elsewhere ==
  ASSUME NEW u, Local(u), tx'[u] = tx[u], locks'[u] = locks[u],
         held'[u[1]] = held[u[1]], row' = row, now' = now
  PROVE  Local(u)'
  BY DEF Local, Knows

(* A transaction that ends, for whatever reason, releases its locks; the   *)
(* others keep theirs.                                                     *)
LEMMA Ended ==
  ASSUME IInv, NEW t \in Threads, End(t)
  PROVE  /\ Exclusion' /\ Local(t)'
         /\ tx' \in [Threads -> Transactions] /\ locks' \in [Threads -> SUBSET LockModes]
         /\ tx'[t].op = ""
         /\ \A u \in Threads : u # t => tx'[u] = tx[u] /\ locks'[u] = locks[u]
  <1>1. Idle.op = ""
    BY DEF Idle
  <1>2. /\ tx' \in [Threads -> Transactions] /\ locks' \in [Threads -> SUBSET LockModes]
        /\ tx'[t] = Idle /\ locks'[t] = {}
        /\ \A u \in Threads : u # t => tx'[u] = tx[u] /\ locks'[u] = locks[u]
    BY IdleType DEF End, IInv, Types
  <1>3. Exclusion'
    BY <1>2 DEF IInv, Exclusion, Compatible
  <1>4. Local(t)'
    <2>1. tx'[t].op = "" /\ locks'[t] = {}
      BY <1>1, <1>2
    <2>2. /\ Runs(tx[t], t, held[t[1]])'
          /\ Requested(tx[t], locks[t])'
          /\ Knows(tx[t], locks[t], t[1], held[t[1]])'
      BY <2>1 DEF Runs, Requested, Knows
    <2>. QED
      BY <2>2 DEF Local
  <1>. QED
    BY <1>1, <1>2, <1>3, <1>4

LEMMA EndStep ==
  ASSUME IInv, NEW t \in Threads, End(t), UNCHANGED <<now, row, held>>
  PROVE  IInv'
  <1>1. Types'
    BY Ended DEF IInv, Types
  <1>2. ASSUME NEW u \in Threads, u # t PROVE Local(u)'
    BY <1>2, Ended, Elsewhere DEF IInv
  <1>. QED
    BY <1>1, <1>2, Ended DEF IInv

LEMMA BeginStep ==
  ASSUME IInv, NEW t \in Threads, Begin(t)
  PROVE  IInv'
  <1>1. PICK op \in Operations(t) :
          tx' = [tx EXCEPT ![t] = [Idle EXCEPT !.op = op, !.at = 1]]
    BY DEF Begin
  <1>2. UNCHANGED <<now, row, held, locks>> /\ tx[t].op = ""
    BY DEF Begin
  <1>3. t[1] \in Workers => held[t[1]] \in Nat
    BY DEF IInv, Types
  <1>4. /\ op \in Ops
        /\ op \in {"acquire", "receipt", "append"} => t[1] \in Workers /\ t[2] = "reconcile"
        /\ op = "renew" => t[1] \in Workers /\ t[2] = "renew"
        /\ op \in {"renew", "receipt", "append"} => held[t[1]] # 0
    BY DEF Operations, Threads, Ops
  <1>5. /\ tx'[t].op = op /\ tx'[t].at = 1 /\ tx'[t].saw = NoRow
        /\ tx'[t] \in Transactions
        /\ \A u \in Threads : u # t => tx'[u] = tx[u]
    BY <1>1, <1>4, IdleType DEF IInv, Types, Transactions, Idle
  <1>6. Types'
    BY <1>1, <1>2, <1>5 DEF IInv, Types
  <1>7. Exclusion'
    BY <1>2 DEF IInv, Exclusion
  <1>8. locks'[t] = {}
    BY <1>2 DEF IInv, Local, Requested
  <1>9. Local(t)'
    <2>. InProgram(op, 1)
      BY <1>4 DEF InProgram, Ops
    <2>1. Runs(tx[t], t, held[t[1]])'
      BY <1>2, <1>4, <1>5 DEF Runs
    <2>2. Requested(tx[t], locks[t])'
      BY <1>8 DEF Requested
    <2>3. Knows(tx[t], locks[t], t[1], held[t[1]])'
      BY <1>5 DEF Knows
    <2>. QED
      BY <2>1, <2>2, <2>3 DEF Local
  <1>10. ASSUME NEW u \in Threads, u # t PROVE Local(u)'
    BY <1>2, <1>5, <1>10, Elsewhere DEF IInv
  <1>. QED
    BY <1>6, <1>7, <1>9, <1>10 DEF IInv

(* A lock is granted only beside compatible ones.                          *)
LEMMA LockExcludes ==
  ASSUME IInv, NEW t \in Threads, Lock(t)
  PROVE  Exclusion' /\ locks' \in [Threads -> SUBSET LockModes]
  <1>. DEFINE mode == Step(t)
  <1>1. CASE locks' = locks
    BY <1>1 DEF IInv, Types, Exclusion
  <1>2. CASE /\ locks' = [locks EXCEPT ![t] = @ \cup {mode}]
             /\ \A u \in Threads : ~Waits(t, u)
    <2>1. mode \in LockModes
      BY DEF Lock
    <2>2. locks' \in [Threads -> SUBSET LockModes]
      BY <1>2, <2>1 DEF IInv, Types
    <2>3. /\ locks'[t] = locks[t] \cup {mode}
          /\ \A u \in Threads : u # t => locks'[u] = locks[u]
      BY <1>2 DEF IInv, Types
    <2>4. \A u \in Threads : u # t => Conflicts(mode) \cap locks[u] = {}
      BY <1>2, <2>1 DEF Waits
    <2>5. \A u \in Threads : u # t => Compatible(locks'[t], locks'[u])
      BY <2>3, <2>4 DEF IInv, Exclusion, Compatible
    <2>6. ASSUME NEW u \in Threads, u # t PROVE Compatible(locks'[u], locks'[t])
      <3>1. SUFFICES ASSUME NEW m \in locks[u], NEW n \in locks'[t], n \in Conflicts(m)
                     PROVE  FALSE
        BY <2>3, <2>6 DEF Compatible
      <3>2. m \in LockModes /\ n \in LockModes
        BY <2>2 DEF IInv, Types
      <3>3. m \in Conflicts(n)
        BY <3>1, <3>2, ConflictsSymmetric
      <3>. QED
        BY <2>3, <2>5, <2>6, <3>1, <3>3 DEF Compatible
    <2>7. ASSUME NEW u \in Threads, NEW v \in Threads, u # v, u # t, v # t
          PROVE  Compatible(locks'[u], locks'[v])
      BY <2>3, <2>7 DEF IInv, Exclusion
    <2>. QED
      BY <2>2, <2>5, <2>6, <2>7 DEF Exclusion
  <1>. QED
    BY <1>1, <1>2 DEF Lock

(* Every step but the last has a successor.                                *)
LEMMA NextPlace ==
  ASSUME NEW kind, NEW op, NEW pos \in Nat, Places(kind, op, pos), kind # "commit"
  PROVE  InProgram(op, pos + 1)
  <1>1. pos >= 1 /\ pos + 1 \in Nat
    BY DEF Places
  <1>. QED
    BY <1>1 DEF Places, InProgram

(* A transaction keeps what it asked for when it moves on.                 *)
LEMMA StillRequested ==
  ASSUME NEW op, NEW pos \in Nat, NEW m, \E i \in 1 .. pos - 1 : Places(m, op, i)
  PROVE  \E i \in 1 .. (pos + 1) - 1 : Places(m, op, i)
  <1>1. PICK i \in 1 .. pos - 1 : Places(m, op, i)
    OBVIOUS
  <1>2. i \in 1 .. (pos + 1) - 1
    OBVIOUS
  <1>. QED
    BY <1>1, <1>2

(* A transaction that reads under a lock knows the row it read; the others *)
(* are not disturbed by the lock it took.                                  *)
LEMMA LockStep ==
  ASSUME IInv, NEW t \in Threads, Lock(t)
  PROVE  IInv'
  <1>. DEFINE mode == Step(t)
              op == tx[t].op
              pos == tx[t].at
  <1>1. op # "" /\ mode \in LockModes
    BY DEF Lock, Step, LockModes
  <1>2. Places(mode, op, pos)
    BY <1>1, StepPlaces DEF IInv
  <1>3. /\ op \in Ops /\ pos \in Nat /\ tx[t].saw \in Rows /\ tx[t].until \in Nat
        /\ tx[t].since \in Nat /\ row \in Rows /\ now \in Nat
    BY <1>1, TransactionType DEF IInv, Types
  <1>4. UNCHANGED <<now, row, held>>
    BY DEF Lock
  <1>5. /\ tx'[t].op = op /\ tx'[t].at = pos + 1 /\ tx'[t].until = tx[t].until
        /\ tx'[t].saw = IF mode \in {"lease_U", "lease_S", "lease_R"} THEN row ELSE tx[t].saw
        /\ tx'[t].since = IF mode = "run_U" /\ op = "append" THEN now ELSE tx[t].since
        /\ tx' \in [Threads -> Transactions]
        /\ \A u \in Threads : u # t => tx'[u] = tx[u]
    <2>. DEFINE saw == IF mode \in {"lease_U", "lease_S", "lease_R"} THEN row ELSE tx[t].saw
                since == IF mode = "run_U" /\ op = "append" THEN now ELSE tx[t].since
                n == pos + 1
                x == [tx[t] EXCEPT !.at = n, !.saw = saw, !.since = since]
    <2>1. tx' = [tx EXCEPT ![t] = x]
      BY DEF Lock
    <2>2. tx[t] \in Transactions /\ saw \in Rows /\ since \in Nat /\ n \in Nat
      BY <1>3 DEF IInv, Types
    <2>3. x \in Transactions
      <3>. HIDE DEF saw, since, n
      <3>. QED
        BY <2>2 DEF Transactions
    <2>4. /\ x.op = op /\ x.at = pos + 1 /\ x.until = tx[t].until
          /\ x.saw = saw /\ x.since = since
      BY <2>2 DEF Transactions
    <2>5. /\ tx'[t] = x /\ tx' \in [Threads -> Transactions]
          /\ \A u \in Threads : u # t => tx'[u] = tx[u]
      BY <2>1, <2>3 DEF IInv, Types
    <2>. QED
      BY <2>4, <2>5
  <1>6. /\ \A u \in Threads : u # t => locks'[u] = locks[u]
        /\ locks'[t] \in {locks[t], locks[t] \cup {mode}}
        /\ locks[t] \subseteq locks'[t]
        /\ mode = "advisory" => mode \in locks'[t]
        /\ mode \in {"lease_U", "lease_S"} /\ row.token # 0 => mode \in locks'[t]
    BY DEF Lock, IInv, Types
  <1>7. Types'
    BY <1>4, <1>5, LockExcludes DEF IInv, Types
  <1>8. Local(t)
    BY DEF IInv
  <1>9. Local(t)'
    <2>1. InProgram(op, pos + 1)
      BY <1>1, <1>2, <1>3, NextPlace DEF LockModes
    <2>2. Runs(tx[t], t, held[t[1]])'
      BY <1>4, <1>5, <1>8, <2>1 DEF Local, Runs
    <2>3. Requested(tx[t], locks[t])'
      <3>1. ASSUME NEW m \in locks'[t]
            PROVE  \E i \in 1 .. tx'[t].at - 1 : Places(m, op, i)
        <4>1. CASE m \in locks[t]
          BY <1>3, <1>5, <1>8, <4>1, StillRequested DEF Local, Requested
        <4>2. CASE m = mode
          <5>1. pos \in 1 .. tx'[t].at - 1
            BY <1>2, <1>3, <1>5 DEF Places
          <5>. QED
            BY <1>2, <4>2, <5>1
        <4>. QED
          BY <1>6, <4>1, <4>2
      <3>. QED
        BY <1>1, <1>5, <3>1 DEF Requested
    <2>4. Knows(tx[t], locks[t], t[1], held[t[1]])'
      <3>. Knows(tx[t], locks[t], t[1], held[t[1]])
        BY <1>8 DEF Local
      <3>1. CASE op = "acquire"
        <4>1. \/ pos = 1 /\ mode = "advisory"
              \/ pos = 2 /\ mode = "lease_U"
              \/ pos = 5 /\ mode = "run_K"
          BY <1>1, <1>2, <3>1 DEF Places, LockModes
        <4>2. CASE pos = 1 /\ mode = "advisory"
          BY <1>4, <1>5, <1>6, <3>1, <4>2 DEF Knows
        <4>3. CASE pos = 2 /\ mode = "lease_U"
          BY <1>4, <1>5, <1>6, <3>1, <4>3 DEF Knows
        <4>4. CASE pos = 5 /\ mode = "run_K"
          BY <1>4, <1>5, <1>6, <3>1, <4>4 DEF Knows
        <4>. QED
          BY <4>1, <4>2, <4>3, <4>4
      <3>2. CASE op = "renew"
        <4>1. pos = 1 /\ mode = "lease_U"
          BY <1>1, <1>2, <3>2 DEF Places, LockModes
        <4>. QED
          BY <1>4, <1>5, <1>6, <3>2, <4>1 DEF Knows
      <3>6. CASE op = "receipt"
        <4>1. (pos = 1 /\ mode = "lease_U") \/ (pos = 3 /\ mode = "run_K")
          BY <1>1, <1>2, <3>6 DEF Places, LockModes
        <4>. QED
          BY <1>4, <1>5, <1>6, <3>6, <4>1 DEF Knows
      <3>3. CASE op = "append"
        <4>1. \/ pos = 1 /\ mode = "advisory"
              \/ pos = 2 /\ mode = "lease_S"
              \/ pos = 4 /\ mode = "run_U"
              \/ pos = 5 /\ mode = "lease_S"
          BY <1>1, <1>2, <3>3 DEF Places, LockModes
        <4>2. CASE pos = 1 /\ mode = "advisory"
          BY <1>4, <1>5, <1>6, <3>3, <4>2 DEF Knows
        <4>3. CASE pos = 2 /\ mode = "lease_S"
          BY <1>4, <1>5, <1>6, <3>3, <4>3 DEF Knows
        <4>4. CASE pos = 4 /\ mode = "run_U"
          BY <1>3, <1>4, <1>5, <1>6, <3>3, <4>4 DEF Knows
        <4>5. CASE pos = 5 /\ mode = "lease_S"
          BY <1>4, <1>5, <1>6, <3>3, <4>5 DEF Knows
        <4>. QED
          BY <4>1, <4>2, <4>3, <4>4, <4>5
      <3>4. CASE op = "unleased"
        <4>1. \/ pos = 1 /\ mode = "advisory"
              \/ pos = 3 /\ mode = "run_U"
          BY <1>1, <1>2, <3>4 DEF Places, LockModes
        <4>2. CASE pos = 1 /\ mode = "advisory"
          BY <1>4, <1>5, <1>6, <3>4, <4>2 DEF Knows
        <4>3. CASE pos = 3 /\ mode = "run_U"
          BY <1>4, <1>5, <1>6, <3>4, <4>3 DEF Knows
        <4>. QED
          BY <4>1, <4>2, <4>3
      <3>5. CASE op = "intent"
        BY <1>5, <3>5 DEF Knows
      <3>. QED
        BY <1>3, <3>1, <3>2, <3>3, <3>4, <3>5, <3>6 DEF Ops
    <2>. QED
      BY <2>2, <2>3, <2>4 DEF Local
  <1>10. ASSUME NEW u \in Threads, u # t PROVE Local(u)'
    BY <1>4, <1>5, <1>6, <1>10, Elsewhere DEF IInv
  <1>. QED
    BY <1>7, <1>9, <1>10, LockExcludes DEF IInv

(* A step that takes no lock and leaves the rows alone: it is enough that  *)
(* the transaction knows what its next place asks.                         *)
LEMMA AdvanceStep ==
  ASSUME IInv, NEW t \in Threads, tx[t].op # "", Step(t) # "commit",
         UNCHANGED <<now, row, held, locks>>,
         NEW x \in Transactions, tx' = [tx EXCEPT ![t] = x],
         x.op = tx[t].op, x.at = tx[t].at + 1,
         Knows(x, locks[t], t[1], held[t[1]])
  PROVE  IInv'
  <1>1. /\ tx'[t] = x /\ tx' \in [Threads -> Transactions]
        /\ \A u \in Threads : u # t => tx'[u] = tx[u]
    BY DEF IInv, Types
  <1>2. Types' /\ Exclusion'
    BY <1>1 DEF IInv, Types, Exclusion
  <1>3. Local(t) /\ tx[t].at \in Nat
    BY TransactionType DEF IInv
  <1>4. InProgram(x.op, x.at)
    BY <1>3, StepPlaces, NextPlace
  <1>5. Runs(tx[t], t, held[t[1]])'
    BY <1>1, <1>3, <1>4 DEF Local, Runs
  <1>6. Requested(x, locks[t])
    BY <1>3, StillRequested DEF Local, Requested
  <1>7. Requested(tx[t], locks[t])' /\ Knows(tx[t], locks[t], t[1], held[t[1]])'
    BY <1>1, <1>6 DEF Requested, Knows
  <1>8. Local(t)'
    BY <1>5, <1>7 DEF Local
  <1>9. ASSUME NEW u \in Threads, u # t PROVE Local(u)'
    BY <1>1, <1>9, Elsewhere DEF IInv
  <1>. QED
    BY <1>2, <1>8, <1>9 DEF IInv

LEMMA WriteStep ==
  ASSUME IInv, NEW t \in Threads, Write(t)
  PROVE  IInv'
  <1>. DEFINE n == tx[t].at + 1
              until == now + TTL
              x == [tx[t] EXCEPT !.at = n, !.until = until]
  <1>1. tx[t].op # "" /\ Step(t) # "commit" /\ tx' = [tx EXCEPT ![t] = x]
    BY DEF Write, Step
  <1>2. tx[t] \in Transactions /\ now \in Nat /\ tx[t].at \in Nat
    BY TransactionType DEF IInv, Types
  <1>3. /\ x \in Transactions /\ x.op = tx[t].op /\ x.at = n
        /\ x.saw = tx[t].saw
    <2>1. n \in Nat /\ until \in Nat
      BY <1>2, LeaseAssumption
    <2>. HIDE DEF n, until
    <2>. QED
      BY <1>2, <2>1 DEF Transactions
  <1>4. Local(t) /\ Places("write", tx[t].op, tx[t].at)
    BY <1>1, StepPlaces DEF IInv, Write
  <1>5. tx[t].op = "acquire" /\ tx[t].at = 4
    BY <1>4 DEF Places
  <1>6. Knows(x, locks[t], t[1], held[t[1]])
    BY <1>3, <1>4, <1>5 DEF Local, Knows
  <1>. HIDE DEF x
  <1>. QED
    BY <1>1, <1>3, <1>6, AdvanceStep DEF Write

LEMMA ModeStep ==
  ASSUME IInv, NEW t \in Threads, Mode(t)
  PROVE  IInv'
  <1>1. CASE End(t)
    BY <1>1, EndStep DEF Mode
  <1>2. CASE row.token = 0 /\ tx' = [tx EXCEPT ![t].at = @ + 1] /\ UNCHANGED locks
    <2>. DEFINE n == tx[t].at + 1
                x == [tx[t] EXCEPT !.at = n]
    <2>1. tx[t].op # "" /\ Step(t) # "commit" /\ tx' = [tx EXCEPT ![t] = x]
      BY <1>2 DEF Mode, Step
    <2>2. tx[t] \in Transactions /\ tx[t].at \in Nat
      BY TransactionType DEF IInv, Types
    <2>3. x \in Transactions /\ x.op = tx[t].op /\ x.at = n
      <3>1. n \in Nat
        BY <2>2
      <3>. HIDE DEF n
      <3>. QED
        BY <2>2, <3>1 DEF Transactions
    <2>4. Local(t) /\ Places("mode", tx[t].op, tx[t].at)
      BY <2>1, StepPlaces DEF IInv, Mode
    <2>5. tx[t].op = "unleased" /\ tx[t].at = 2
      BY <2>4 DEF Places
    <2>6. Knows(x, locks[t], t[1], held[t[1]])
      BY <1>2, <2>3, <2>4, <2>5 DEF Local, Knows
    <2>. HIDE DEF x
    <2>. QED
      BY <1>2, <2>1, <2>3, <2>6, AdvanceStep DEF Mode
  <1>. QED
    BY <1>1, <1>2 DEF Mode

(* A check that passes has compared the row itself, by the lock the read   *)
(* took: a present row cannot have been replaced since.                    *)
LEMMA CheckPasses ==
  ASSUME IInv, NEW t \in Threads, Step(t) = "check",
         IF tx[t].op = "acquire" THEN ~(tx[t].saw.expires > now) ELSE Authority(t),
         tx' = [tx EXCEPT ![t].at = @ + 1,
                          ![t].saw = IF tx[t].op = "acquire" THEN @ ELSE NoRow,
                          ![t].until = IF tx[t].op = "renew" THEN now + TTL ELSE 0],
         UNCHANGED <<now, row, held, locks>>
  PROVE  IInv'
  <1>. DEFINE saw == IF tx[t].op = "acquire" THEN tx[t].saw ELSE NoRow
              until == IF tx[t].op = "renew" THEN now + TTL ELSE 0
              n == tx[t].at + 1
              x == [tx[t] EXCEPT !.at = n, !.saw = saw, !.until = until]
  <1>1. tx[t].op # "" /\ Step(t) # "commit" /\ tx' = [tx EXCEPT ![t] = x]
    BY DEF Step
  <1>2. /\ tx[t] \in Transactions /\ tx[t].at \in Nat /\ now \in Nat /\ row \in Rows
        /\ tx[t].since \in Nat /\ tx[t].saw \in Rows
    BY TransactionType DEF IInv, Types
  <1>3. saw \in Rows /\ until \in Nat /\ n \in Nat
    BY <1>2, IdleType, LeaseAssumption
  <1>4. /\ x \in Transactions /\ x.op = tx[t].op /\ x.at = n
        /\ x.saw = saw /\ x.since = tx[t].since
    <2>. HIDE DEF saw, until, n
    <2>. QED
      BY <1>2, <1>3 DEF Transactions
  <1>5. Local(t) /\ Places("check", tx[t].op, tx[t].at)
    BY <1>1, StepPlaces DEF IInv
  <1>6. row.expires \in Nat /\ row.token \in Nat /\ tx[t].saw.expires \in Nat
    BY <1>2 DEF Rows
  <1>7. Knows(x, locks[t], t[1], held[t[1]])
    <2>1. CASE tx[t].op = "acquire"
      <3>1. tx[t].at = 3
        BY <1>5, <2>1 DEF Places
      <3>. QED
        BY <1>2, <1>4, <1>5, <1>6, <2>1, <3>1 DEF Local, Knows
    <2>2. CASE tx[t].op \in {"renew", "receipt"}
      <3>1. tx[t].at = 2 /\ held[t[1]] # 0
        BY <1>5, <2>2 DEF Places, Local, Runs
      <3>2. row.worker = t[1] /\ row.token = held[t[1]] /\ "lease_U" \in locks[t]
        BY <1>5, <2>2, <3>1 DEF Local, Knows, Authority
      <3>. QED
        BY <1>4, <2>2, <3>1, <3>2 DEF Knows
    <2>3. CASE tx[t].op = "append" /\ tx[t].at = 3
      <3>1. held[t[1]] # 0
        BY <1>5, <2>3 DEF Local, Runs
      <3>2. row.worker = t[1] /\ row.token = held[t[1]] /\ "lease_S" \in locks[t]
        BY <1>5, <2>3, <3>1 DEF Local, Knows, Authority
      <3>. QED
        BY <1>4, <1>5, <2>3, <3>2 DEF Local, Knows
    <2>4. CASE tx[t].op = "append" /\ tx[t].at = 6
      <3>1. row.expires > tx[t].since
        BY <1>2, <1>5, <1>6, <2>4 DEF Local, Knows, Authority
      <3>. QED
        BY <1>4, <1>5, <2>4, <3>1 DEF Local, Knows
    <2>. QED
      BY <1>5, <2>1, <2>2, <2>3, <2>4 DEF Places
  <1>. HIDE DEF x
  <1>. QED
    BY <1>1, <1>4, <1>7, AdvanceStep

LEMMA CheckStep ==
  ASSUME IInv, NEW t \in Threads, Check(t)
  PROVE  IInv'
  <1>. DEFINE s == tx[t].saw
  <1>1. CASE /\ IF tx[t].op = "acquire" THEN ~(s.expires > now) ELSE Authority(t)
             /\ tx' = [tx EXCEPT ![t].at = @ + 1,
                                 ![t].saw = IF tx[t].op = "acquire" THEN @ ELSE NoRow,
                                 ![t].until = IF tx[t].op = "renew" THEN now + TTL ELSE 0]
             /\ UNCHANGED <<locks, held>>
    BY <1>1, CheckPasses DEF Check
  <1>2. CASE /\ tx[t].op = "acquire" /\ s.expires > now
             /\ held' = IF s.worker = t[1] THEN [held EXCEPT ![t[1]] = s.token] ELSE held
             /\ End(t)
    <2>1. CASE s.worker # t[1]
      BY <1>2, <2>1, EndStep DEF Check
    <2>2. CASE s.worker = t[1]
      <3>1. /\ held' = [held EXCEPT ![t[1]] = s.token] /\ UNCHANGED <<now, row>>
            /\ Step(t) = "check"
        BY <1>2, <2>2 DEF Check
      <3>2. Local(t) /\ Places("check", tx[t].op, tx[t].at)
        BY <1>2, <3>1, StepPlaces DEF IInv
      <3>3. tx[t].at = 3 /\ s = row /\ t[1] \in Workers /\ t[2] = "reconcile"
        BY <1>2, <3>2 DEF Places, Local, Knows, Runs
      <3>4. row \in Rows /\ now \in Nat /\ held \in [Workers -> Nat]
        BY DEF IInv, Types
      <3>5. row.token \in Nat /\ row.token # 0
        <4>1. row.token \in Nat /\ row.expires \in Nat
          BY <3>4 DEF Rows
        <4>2. row.expires > now
          BY <1>2, <3>3
        <4>3. row.expires # NoRow.expires
          BY <3>4, <4>1, <4>2 DEF NoRow
        <4>. QED
          BY <4>1, <4>3 DEF IInv, Types
      <3>6. held' \in [Workers -> Nat] /\ held'[t[1]] = row.token
        BY <3>1, <3>3, <3>4, <3>5
      <3>7. Types'
        BY <1>2, <3>1, <3>6, Ended DEF IInv, Types
      <3>8. ASSUME NEW u \in Threads, u # t PROVE Local(u)'
        <4>1. Local(u) /\ tx'[u] = tx[u] /\ locks'[u] = locks[u]
          BY <1>2, <3>8, Ended DEF IInv
        <4>2. CASE held'[u[1]] = held[u[1]]
          BY <3>1, <4>1, <4>2, Elsewhere
        <4>3. CASE u[1] = t[1]
          <5>1. u[2] # "reconcile" /\ held'[u[1]] = row.token
            BY <3>3, <3>6, <3>8, <4>3 DEF Threads
          <5>2. Runs(tx[u], u, held[u[1]])'
            BY <3>5, <4>1, <5>1 DEF Local, Runs
          <5>3. Requested(tx[u], locks[u])'
            BY <4>1 DEF Local
          <5>4. Knows(tx[u], locks[u], u[1], held[u[1]])'
            BY <3>1, <4>1, <5>1 DEF Local, Runs, Knows
          <5>. QED
            BY <5>2, <5>3, <5>4 DEF Local
        <4>. QED
          BY <3>1, <3>4, <4>2, <4>3
      <3>. QED
        BY <1>2, <3>7, <3>8, Ended DEF IInv
    <2>. QED
      BY <2>1, <2>2
  <1>3. CASE tx[t].op # "acquire" /\ ~Authority(t) /\ End(t) /\ UNCHANGED held
    BY <1>3, EndStep DEF Check
  <1>. QED
    BY <1>1, <1>2, <1>3 DEF Check

(* A commit that leaves the leases row alone: receipt, append, intent.     *)
LEMMA CommitElsewhere ==
  ASSUME IInv, NEW t \in Threads, Commit(t), tx[t].op \notin {"acquire", "renew"}
  PROVE  IInv'
  BY EndStep DEF Commit

(* What each transaction knows when it commits.                            *)
LEMMA AtCommit ==
  ASSUME IInv, NEW t \in Threads, Step(t) = "commit"
  PROVE  /\ tx[t].op = "acquire" =>
              /\ tx[t].saw = row /\ row.expires <= now
              /\ "advisory" \in locks[t] /\ (row.token # 0 => "lease_U" \in locks[t])
         /\ tx[t].op \in {"renew", "receipt"} =>
              row.worker = t[1] /\ row.token = held[t[1]] /\ "lease_U" \in locks[t]
         /\ tx[t].op = "append" =>
              row.worker = t[1] /\ row.token = held[t[1]] /\ row.expires > tx[t].since
         /\ tx[t].op = "unleased" => row.token = 0
  <1>1. Knows(tx[t], locks[t], t[1], held[t[1]]) /\ Places("commit", tx[t].op, tx[t].at)
    BY StepPlaces DEF IInv, Local, Step
  <1>2. /\ tx[t].op = "acquire" => tx[t].at = 6
        /\ tx[t].op = "renew" => tx[t].at = 3
        /\ tx[t].op = "receipt" => tx[t].at = 4
        /\ tx[t].op = "append" => tx[t].at = 7
        /\ tx[t].op = "unleased" => tx[t].at = 4
    BY <1>1 DEF Places
  <1>3. CASE tx[t].op = "acquire"
    BY <1>1, <1>2, <1>3 DEF Knows
  <1>4. CASE tx[t].op \in {"renew", "receipt"}
    BY <1>1, <1>2, <1>4 DEF Knows
  <1>5. CASE tx[t].op = "append"
    BY <1>1, <1>2, <1>5 DEF Knows
  <1>6. CASE tx[t].op = "unleased"
    BY <1>1, <1>2, <1>6 DEF Knows
  <1>. QED
    BY <1>3, <1>4, <1>5, <1>6

(* What an acquisition or a renewal replaces is the row it read: whoever   *)
(* relied on it would hold a lock that conflicts.                          *)
LEMMA WritersAlone ==
  ASSUME IInv, NEW t \in Threads, NEW u \in Threads, u # t,
         "advisory" \in locks[t] \/ "lease_U" \in locks[t]
  PROVE  /\ "advisory" \in locks[t] => "advisory" \notin locks[u]
         /\ "lease_U" \in locks[t] => "lease_U" \notin locks[u] /\ "lease_S" \notin locks[u]
  BY DEF IInv, Exclusion, Compatible, Conflicts

LEMMA CommitAcquire ==
  ASSUME IInv, NEW t \in Threads, Commit(t), tx[t].op = "acquire"
  PROVE  IInv'
  <1>1. /\ row' = [worker |-> t[1], token |-> tx[t].saw.token + 1, expires |-> tx[t].until]
        /\ held' = [held EXCEPT ![t[1]] = row'.token]
        /\ now' = now /\ End(t) /\ Step(t) = "commit"
    BY DEF Commit
  <1>2. /\ "advisory" \in locks[t] /\ tx[t].saw = row
        /\ row.token # 0 => "lease_U" \in locks[t]
    BY <1>1, AtCommit
  <1>3. t[1] \in Workers /\ t[2] = "reconcile"
    BY DEF IInv, Local, Runs
  <1>4. row \in Rows /\ held \in [Workers -> Nat] /\ tx[t].until \in Nat
    BY TransactionType DEF IInv, Types
  <1>5. row.token \in Nat
    BY <1>4 DEF Rows
  <1>6. row' \in Rows /\ row'.token = row.token + 1
    <2>. DEFINE n == row.token + 1
    <2>1. n \in Nat /\ row' = [worker |-> t[1], token |-> n, expires |-> tx[t].until]
      BY <1>1, <1>2, <1>5
    <2>. HIDE DEF n
    <2>2. row' \in Rows /\ row'.token = n
      BY <1>3, <1>4, <2>1 DEF Rows
    <2>. QED
      BY <2>2 DEF n
  <1>7. held' \in [Workers -> Nat] /\ held'[t[1]] # 0
    BY <1>1, <1>3, <1>4, <1>5, <1>6
  <1>8. Types'
    <2>1. row'.token # 0
      BY <1>5, <1>6
    <2>. QED
      BY <1>1, <1>6, <1>7, <2>1, Ended DEF IInv, Types
  <1>9. ASSUME NEW u \in Threads, u # t PROVE Local(u)'
    <2>1. Local(u) /\ tx'[u] = tx[u] /\ locks'[u] = locks[u]
      BY <1>1, <1>9, Ended DEF IInv
    <2>2. "advisory" \notin locks[u]
      BY <1>2, <1>9, WritersAlone
    <2>3. row.token # 0 => "lease_U" \notin locks[u]
      BY <1>2, <1>9, WritersAlone
    <2>4. tx[u].saw \in Rows /\ tx[u].at \in Nat
      BY TransactionType DEF IInv
    <2>5. Runs(tx[u], u, held[u[1]])'
      <3>1. held'[u[1]] = held[u[1]] \/ held'[u[1]] # 0
        BY <1>1, <1>4, <1>7
      <3>. QED
        BY <2>1, <3>1 DEF Local, Runs
    <2>6. Requested(tx[u], locks[u])'
      BY <2>1 DEF Local
    <2>7. Knows(tx[u], locks[u], u[1], held[u[1]])'
      <3>1. tx[u].op \in {"acquire", "append", "unleased"} => ~(tx[u].at >= 2)
        BY <2>1, <2>2 DEF Local, Knows
      <3>2. CASE tx[u].op = "acquire"
        BY <2>1, <2>4, <3>1, <3>2 DEF Knows
      <3>3. CASE tx[u].op = "append"
        BY <2>1, <2>4, <3>1, <3>3 DEF Knows
      <3>4. CASE tx[u].op = "unleased"
        BY <2>1, <2>4, <3>1, <3>4 DEF Knows
      <3>5. CASE tx[u].op \in {"renew", "receipt"}
        <4>1. held[u[1]] # 0
          BY <2>1, <3>5 DEF Local, Runs
        <4>2. ~(tx[u].at >= 3) /\ ~(tx[u].at = 2 /\ tx[u].saw.token # 0)
          BY <2>1, <2>3, <3>5, <4>1 DEF Local, Knows
        <4>. QED
          BY <2>1, <2>4, <3>5, <4>2 DEF Knows
      <3>6. CASE tx[u].op \notin {"acquire", "append", "unleased", "renew", "receipt"}
        BY <2>1, <3>6 DEF Knows
      <3>. QED
        BY <3>2, <3>3, <3>4, <3>5, <3>6
    <2>. QED
      BY <2>5, <2>6, <2>7 DEF Local
  <1>. QED
    BY <1>1, <1>8, <1>9, Ended DEF IInv

LEMMA CommitRenew ==
  ASSUME IInv, NEW t \in Threads, Commit(t), tx[t].op = "renew"
  PROVE  IInv'
  <1>1. /\ row' = [row EXCEPT !.expires = tx[t].until] /\ held' = held
        /\ now' = now /\ End(t) /\ Step(t) = "commit"
    BY DEF Commit
  <1>2. "lease_U" \in locks[t] /\ row.token = held[t[1]]
    BY <1>1, AtCommit
  <1>3. row.token # 0
    BY <1>2 DEF IInv, Local, Runs
  <1>4. row \in Rows /\ tx[t].until \in Nat
    BY TransactionType DEF IInv, Types
  <1>5. row' \in Rows /\ row'.token = row.token
    BY <1>1, <1>4 DEF Rows
  <1>6. Types'
    BY <1>1, <1>3, <1>5, Ended DEF IInv, Types
  <1>7. ASSUME NEW u \in Threads, u # t PROVE Local(u)'
    <2>1. Local(u) /\ tx'[u] = tx[u] /\ locks'[u] = locks[u]
      BY <1>1, <1>7, Ended DEF IInv
    <2>2. "lease_U" \notin locks[u] /\ "lease_S" \notin locks[u]
      BY <1>2, <1>7, WritersAlone
    <2>3. tx[u].saw \in Rows /\ tx[u].at \in Nat
      BY TransactionType DEF IInv
    <2>4. Runs(tx[u], u, held[u[1]])' /\ Requested(tx[u], locks[u])'
      BY <1>1, <2>1 DEF Local
    <2>5. Knows(tx[u], locks[u], u[1], held[u[1]])'
      <3>1. CASE tx[u].op = "acquire"
        <4>1. ~(tx[u].at >= 3)
          BY <1>3, <2>1, <2>2, <3>1 DEF Local, Knows
        <4>. QED
          BY <2>1, <2>3, <3>1, <4>1 DEF Local, Knows
      <3>2. CASE tx[u].op = "append"
        <4>1. ~(tx[u].at >= 4) /\ ~(tx[u].at = 3 /\ tx[u].saw.token # 0)
          BY <2>1, <2>2, <3>2 DEF Local, Knows
        <4>2. tx[u].at >= 2 => "advisory" \in locks[u]
          BY <2>1, <3>2 DEF Local, Knows
        <4>3. CASE tx[u].at = 3
          BY <2>1, <3>2, <4>1, <4>2, <4>3 DEF Knows
        <4>4. CASE tx[u].at # 3
          BY <2>1, <2>3, <3>2, <4>1, <4>2, <4>4 DEF Knows
        <4>. QED
          BY <4>3, <4>4
      <3>3. CASE tx[u].op = "unleased"
        BY <1>5, <2>1, <3>3 DEF Local, Knows
      <3>4. CASE tx[u].op \in {"renew", "receipt"}
        <4>1. ~(tx[u].at >= 3) /\ ~(tx[u].at = 2 /\ tx[u].saw.token # 0)
          BY <2>1, <2>2, <3>4 DEF Local, Knows
        <4>. QED
          BY <2>1, <2>3, <3>4, <4>1 DEF Knows
      <3>5. CASE tx[u].op \notin {"acquire", "append", "unleased", "renew", "receipt"}
        BY <2>1, <3>5 DEF Knows
      <3>. QED
        BY <3>1, <3>2, <3>3, <3>4, <3>5
    <2>. QED
      BY <2>4, <2>5 DEF Local
  <1>. QED
    BY <1>1, <1>6, <1>7, Ended DEF IInv

LEMMA StepInvariant == IInv /\ [Next]_vars => IInv'
  <1>. SUFFICES ASSUME IInv, [Next]_vars PROVE IInv'
    OBVIOUS
  <1>1. CASE UNCHANGED vars
    <2>1. now' = now /\ row' = row /\ held' = held /\ tx' = tx /\ locks' = locks
      BY <1>1 DEF vars
    <2>2. Types' /\ Exclusion'
      BY <2>1 DEF IInv, Types, Exclusion
    <2>3. \A t \in Threads : Local(t)'
      BY <2>1, Elsewhere DEF IInv
    <2>. QED
      BY <2>2, <2>3 DEF IInv
  <1>2. CASE Tick
    BY <1>2, TickStep
  <1>3. ASSUME NEW t \in Threads, Begin(t) PROVE IInv'
    BY <1>3, BeginStep
  <1>4. ASSUME NEW t \in Threads, Lock(t) PROVE IInv'
    BY <1>4, LockStep
  <1>5. ASSUME NEW t \in Threads, Check(t) PROVE IInv'
    BY <1>5, CheckStep
  <1>6. ASSUME NEW t \in Threads, Write(t) PROVE IInv'
    BY <1>6, WriteStep
  <1>7. ASSUME NEW t \in Threads, Mode(t) PROVE IInv'
    BY <1>7, ModeStep
  <1>8. ASSUME NEW t \in Threads, Commit(t) PROVE IInv'
    BY <1>8, CommitAcquire, CommitRenew, CommitElsewhere
  <1>9. ASSUME NEW t \in Threads, Rollback(t) PROVE IInv'
    BY <1>9, EndStep DEF Rollback
  <1>. QED
    BY <1>1, <1>2, <1>3, <1>4, <1>5, <1>6, <1>7, <1>8, <1>9 DEF Next

(* LeaseStore keeps the locking discipline its properties rest on.         *)
THEOREM LockingInvariant == Spec => []IInv
  <1>1. Init => IInv
    BY InitInvariant
  <1>2. IInv /\ [Next]_vars => IInv'
    BY StepInvariant
  <1>. QED
    BY <1>1, <1>2, PTL DEF Spec

-----------------------------------------------------------------------------
(* The lock order: advisory, lease, Run.                                   *)
Rank(mode) ==
  CASE mode = "advisory" -> 1
    [] mode \in {"lease_U", "lease_S"} -> 2
    [] mode \in {"run_U", "run_K"} -> 3
    [] OTHER -> 0

(* A transaction that is blocked asks for a lock of a higher rank than any *)
(* it holds.  The append's second lease_S ranks lower than the Run lock it *)
(* holds, but it never blocks: the append already has that lock.           *)
LEMMA BlockedRisesInRank ==
  ASSUME IInv, NEW u \in Threads, NEW v \in Threads, Waits(u, v),
         NEW m \in locks[u]
  PROVE  Rank(m) < Rank(Step(u))
  <1>1. tx[u].op # "" /\ Step(u) \in LockModes /\ u # v
    BY DEF Waits, Step, LockModes
  <1>2. Local(u) /\ Places(Step(u), tx[u].op, tx[u].at)
    BY <1>1, StepPlaces DEF IInv
  <1>3. PICK i \in 1 .. tx[u].at - 1 : Places(m, tx[u].op, i)
    BY <1>2 DEF Local, Requested
  <1>4. tx[u].at \in Nat /\ i \in Nat /\ i < tx[u].at
    <2>1. tx[u].at \in Nat
      BY TransactionType DEF IInv
    <2>. QED
      BY <2>1
  <1>5. m \in LockModes
    BY DEF IInv, Types
  <1>6. ~(tx[u].op = "append" /\ tx[u].at = 5)
    <2>1. SUFFICES ASSUME tx[u].op = "append", tx[u].at = 5 PROVE FALSE
      OBVIOUS
    <2>2. Step(u) = "lease_S"
      BY <1>2, <2>1 DEF Places
    <2>3. "lease_S" \in locks[u]
      <3>1. Knows(tx[u], locks[u], u[1], held[u[1]])
        BY <1>2 DEF Local
      <3>. QED
        BY <2>1, <3>1 DEF Knows
    <2>. QED
      BY <1>1, <2>2, <2>3 DEF Waits, IInv, Exclusion, Compatible
  <1>7. CASE tx[u].op = "acquire"
    BY <1>1, <1>2, <1>3, <1>4, <1>5, <1>7 DEF Places, LockModes, Rank
  <1>8. CASE tx[u].op = "renew"
    BY <1>1, <1>2, <1>3, <1>4, <1>5, <1>8 DEF Places, LockModes, Rank
  <1>9. CASE tx[u].op = "receipt"
    BY <1>1, <1>2, <1>3, <1>4, <1>5, <1>9 DEF Places, LockModes, Rank
  <1>10. CASE tx[u].op = "append"
    BY <1>1, <1>2, <1>3, <1>4, <1>5, <1>6, <1>10 DEF Places, LockModes, Rank
  <1>11. CASE tx[u].op = "unleased"
    BY <1>1, <1>2, <1>3, <1>4, <1>5, <1>11 DEF Places, LockModes, Rank
  <1>12. CASE tx[u].op = "intent"
    BY <1>1, <1>2, <1>3, <1>4, <1>5, <1>12 DEF Places, LockModes, Rank
  <1>. QED
    BY <1>1, <1>2, <1>7, <1>8, <1>9, <1>10, <1>11, <1>12 DEF Places

(* A lock that blocks has the rank of the lock asked for.                  *)
LEMMA ConflictsRank ==
  ASSUME NEW m, NEW n \in Conflicts(m)
  PROVE  Rank(n) = Rank(m)
  BY DEF Conflicts, Rank

LEMMA RankRises ==
  ASSUME IInv, NEW t \in Threads, NEW u \in Threads, NEW v \in Threads,
         Waits(t, u), Waits(u, v)
  PROVE  Rank(Step(t)) < Rank(Step(u))
  <1>1. PICK m \in locks[u] : m \in Conflicts(Step(t))
    BY DEF Waits
  <1>. QED
    BY <1>1, BlockedRisesInRank, ConflictsRank

LEMMA RankBounded ==
  ASSUME NEW mode \in LockModes
  PROVE  Rank(mode) \in 0 .. 3 /\ (Conflicts(mode) # {} => Rank(mode) \in 1 .. 3)
  BY DEF Rank, LockModes, Conflicts

(* DeadlockFree: Acquire, Renew, RecordReceipt and the three kinds of      *)
(* Append never wait for each other in a circle, however many workers      *)
(* there are: four blocked transactions in a row would need four ranks.    *)
THEOREM NeverDeadlocks == Spec => []DeadlockFree
  <1>1. IInv => DeadlockFree
    <2>. SUFFICES ASSUME IInv, NEW waiting \in (SUBSET Threads) \ {{}},
                         \A t \in waiting : \E u \in waiting : Waits(t, u)
                  PROVE  FALSE
      BY DEF DeadlockFree
    <2>1. PICK a \in waiting : TRUE
      OBVIOUS
    <2>2. PICK b \in waiting : Waits(a, b)
      OBVIOUS
    <2>3. PICK c \in waiting : Waits(b, c)
      OBVIOUS
    <2>4. PICK d \in waiting : Waits(c, d)
      OBVIOUS
    <2>5. PICK e \in waiting : Waits(d, e)
      OBVIOUS
    <2>6. /\ Rank(Step(a)) < Rank(Step(b))
          /\ Rank(Step(b)) < Rank(Step(c))
          /\ Rank(Step(c)) < Rank(Step(d))
      BY <2>2, <2>3, <2>4, <2>5, RankRises
    <2>7. Rank(Step(a)) \in 1 .. 3 /\ Rank(Step(d)) \in 1 .. 3
      BY <2>2, <2>5, RankBounded DEF Waits
    <2>8. Rank(Step(b)) \in 0 .. 3 /\ Rank(Step(c)) \in 0 .. 3
      BY <2>3, <2>4, RankBounded DEF Waits
    <2>. QED
      BY <2>6, <2>7, <2>8
  <1>. QED
    BY <1>1, LockingInvariant, PTL

(* FencedAtCommit: whatever a receipt or an append makes visible, it does  *)
(* under a token that is still the row's; an unleased append only while    *)
(* the Run has no lease row.                                               *)
THEOREM FencingHoldsAtCommit == Spec => []FencedAtCommit
  <1>1. IInv => FencedAtCommit
    <2>. SUFFICES ASSUME IInv, NEW t \in Threads, Step(t) = "commit"
                  PROVE  /\ tx[t].op \in {"receipt", "append"} =>
                              row.worker = t[1] /\ row.token = held[t[1]]
                         /\ tx[t].op = "unleased" => row.token = 0
      BY DEF FencedAtCommit
    <2>. QED
      BY AtCommit
  <1>. QED
    BY <1>1, LockingInvariant, PTL

(* AuthorityAfterWait: the lease of an append had not expired when the     *)
(* append got the Run row, however long it waited for it.                  *)
THEOREM AuthorityOutlastsTheWait == Spec => []AuthorityAfterWait
  <1>1. IInv => AuthorityAfterWait
    <2>. SUFFICES ASSUME IInv, NEW t \in Threads, tx[t].op = "append", Step(t) = "commit"
                  PROVE  row.expires > tx[t].since
      BY DEF AuthorityAfterWait
    <2>. QED
      BY AtCommit
  <1>. QED
    BY <1>1, LockingInvariant, PTL

(* NoEarlyTakeover: ownership passes only after the committed expiry, and  *)
(* a renewal extends only its own worker's lease.                          *)
THEOREM TakeoverIsNeverEarly == Spec => NoEarlyTakeover
  <1>. DEFINE Takes ==
         /\ row'.token # row.token => row.expires <= now
         /\ row'.token = row.token /\ row'.expires # row.expires =>
              \E t \in Threads : tx[t].op = "renew" /\ tx'[t].op = "" /\ t[1] = row.worker
  <1>1. IInv /\ [Next]_vars => [Takes]_vars
    <2>. SUFFICES ASSUME IInv, [Next]_vars PROVE Takes \/ UNCHANGED vars
      OBVIOUS
    <2>1. CASE row' = row
      BY <2>1
    <2>2. ASSUME NEW t \in Threads, Commit(t), tx[t].op = "acquire" PROVE Takes
      <3>1. row.expires <= now /\ tx[t].saw = row
        BY <2>2, AtCommit DEF Commit
      <3>2. row.token \in Nat /\ row'.token = row.token + 1
        BY <2>2, <3>1 DEF Commit, IInv, Types, Rows
      <3>3. row'.token # row.token
        BY <3>2
      <3>. QED
        BY <3>1, <3>3
    <2>3. ASSUME NEW t \in Threads, Commit(t), tx[t].op = "renew" PROVE Takes
      <3>1. row.worker = t[1]
        BY <2>3, AtCommit DEF Commit
      <3>2. row' = [row EXCEPT !.expires = tx[t].until] /\ End(t)
        BY <2>3 DEF Commit
      <3>3. row'.token = row.token
        BY <3>2 DEF IInv, Types, Rows
      <3>4. tx'[t].op = ""
        BY <3>2, Ended
      <3>. QED
        BY <2>3, <3>1, <3>3, <3>4
    <2>4. ASSUME NEW t \in Threads, Commit(t), tx[t].op \notin {"acquire", "renew"}
          PROVE  row' = row
      BY <2>4 DEF Commit
    <2>5. CASE UNCHANGED vars
      BY <2>5
    <2>. QED
      BY <2>1, <2>2, <2>3, <2>4, <2>5
      DEF Next, Tick, Begin, Lock, Check, Write, Mode, Rollback
  <1>. QED
    BY <1>1, LockingInvariant, PTL DEF NoEarlyTakeover, Spec

-----------------------------------------------------------------------------
(* What Reduce computes. It is written with a function that CHOOSE picks;  *)
(* by induction one exists for every log and is unique, so Reduce of a log *)
(* is one ApplyEvent after Reduce of the log without its last event.       *)

(* Induction, for a set of numbers.                                        *)
LEMMA Induction ==
  ASSUME NEW T, 0 \in T, \A n \in Nat : n \in T => n + 1 \in T
  PROVE  Nat \subseteq T
  <1> DEFINE R == OpToRel(<, Nat)
             S == Nat \ T
  <1>1. IsWellFoundedOn(R, Nat)
    BY NatLessThanWellFounded
  <1>2. \A i, j \in Nat : i < j => <<i, j>> \in R
    BY DEF OpToRel
  <1>3. SUFFICES ASSUME S # {} PROVE FALSE
    OBVIOUS
  <1>4. PICK x \in S : \A y \in S : <<y, x>> \notin R
    <2> HIDE DEF R, S
    <2>1. S \subseteq Nat
      BY DEF S
    <2> QED
      BY <1>1, <1>3, <2>1, WFMin
  <1>5. x \in Nat /\ x # 0
    OBVIOUS
  <1>6. x - 1 \in Nat /\ x - 1 < x
    BY <1>5
  <1>7. x - 1 \in T
    BY <1>2, <1>4, <1>5, <1>6
  <1>8. x - 1 + 1 = x
    BY <1>5
  <1> QED
    BY <1>6, <1>7, <1>8, <1>4

-----------------------------------------------------------------------------
(* One step of Reduce (k = 1) and of ReduceFromCheckpoint (k = 0): event n *)
(* of ev after the state before.                                           *)
FoldStep(before, k, n, ev) ==
  IF \/ n > k /\ ~before.exists
     \/ \E i \in 1 .. n - 1 : ev[i].key = ev[n].key
  THEN Rejected ELSE ApplyEvent(before, ev[n])

(* f[n] is the state after the first n events of ev, for n up to m.        *)
Folds(f, s0, k, ev, m) ==
  f = [n \in 0 .. m |-> IF n = 0 THEN s0 ELSE FoldStep(f[n - 1], k, n, ev)]

(* Such a function exists: the recursion of the code is well defined.      *)
LEMMA FoldExists ==
  ASSUME NEW s0, NEW k, NEW ev, NEW m \in Nat
  PROVE  \E f : Folds(f, s0, k, ev, m)
  <1> DEFINE T == {j \in Nat : \E f : Folds(f, s0, k, ev, j)}
  <1>1. 0 \in T
    <2> DEFINE f == [n \in 0 .. 0 |-> s0]
    <2>1. f = [n \in 0 .. 0 |-> IF n = 0 THEN s0 ELSE FoldStep(f[n - 1], k, n, ev)]
      OBVIOUS
    <2>2. Folds(f, s0, k, ev, 0)
      BY <2>1 DEF Folds
    <2> QED
      BY <2>2
  <1>2. ASSUME NEW j \in Nat, j \in T PROVE j + 1 \in T
    <2>1. PICK f : Folds(f, s0, k, ev, j)
      BY <1>2
    <2> DEFINE g == [n \in 0 .. j + 1 |->
                       IF n = j + 1 THEN FoldStep(f[j], k, n, ev) ELSE f[n]]
               h == [n \in 0 .. j + 1 |->
                       IF n = 0 THEN s0 ELSE FoldStep(g[n - 1], k, n, ev)]
    <2>2. \A n \in 0 .. j : f[n] = IF n = 0 THEN s0 ELSE FoldStep(f[n - 1], k, n, ev)
      BY <2>1 DEF Folds
    <2>3. \A n \in 0 .. j : g[n] = f[n]
      OBVIOUS
    <2>4. g[j + 1] = FoldStep(f[j], k, j + 1, ev)
      OBVIOUS
    <2>5. \A n \in 0 .. j + 1 : g[n] = h[n]
      <3> SUFFICES ASSUME NEW n \in 0 .. j + 1 PROVE g[n] = h[n]
        OBVIOUS
      <3>1. CASE n = 0
        BY <2>2, <2>3, <3>1
      <3>2. CASE n = j + 1
        <4>1. n - 1 = j /\ n # 0 /\ j \in 0 .. j
          BY <3>2
        <4> QED
          BY <2>3, <2>4, <3>2, <4>1
      <3>3. CASE n # 0 /\ n # j + 1
        <4>1. n \in 0 .. j /\ n - 1 \in 0 .. j
          BY <3>3
        <4> QED
          BY <2>2, <2>3, <3>3, <4>1
      <3> QED
        BY <3>1, <3>2, <3>3
    <2>6. g = h
      BY <2>5
    <2>7. Folds(g, s0, k, ev, j + 1)
      BY <2>6 DEF Folds
    <2> QED
      BY <2>7
  <1> HIDE DEF T
  <1>3. Nat \subseteq T
    BY <1>1, <1>2, Induction
  <1> QED
    BY <1>3 DEF T

(* It is determined by the events it folds: two of them agree as long as   *)
(* their events do.                                                        *)
SameEvents(ev, eu, m) == \A i \in 1 .. m : ev[i] = eu[i]

LEMMA FoldsAgree ==
  ASSUME NEW s0, NEW k, NEW ev, NEW eu, NEW f, NEW g, NEW m \in Nat, NEW l \in Nat,
         Folds(f, s0, k, ev, m), Folds(g, s0, k, eu, l), m <= l, SameEvents(ev, eu, m)
  PROVE  \A n \in 0 .. m : f[n] = g[n]
  <1> DEFINE T == {n \in Nat : n <= m => f[n] = g[n]}
  <1>1. \A n \in 0 .. m : f[n] = IF n = 0 THEN s0 ELSE FoldStep(f[n - 1], k, n, ev)
    BY DEF Folds
  <1>2. \A n \in 0 .. l : g[n] = IF n = 0 THEN s0 ELSE FoldStep(g[n - 1], k, n, eu)
    BY DEF Folds
  <1>3. 0 \in T
    BY <1>1, <1>2
  <1>4. ASSUME NEW n \in Nat, n \in T PROVE n + 1 \in T
    <2> SUFFICES ASSUME n + 1 <= m PROVE f[n + 1] = g[n + 1]
      OBVIOUS
    <2>1. f[n] = g[n]
      BY <1>4
    <2>2. n + 1 \in 1 .. m /\ n + 1 # 0 /\ n + 1 - 1 = n
      OBVIOUS
    <2>3. f[n + 1] = FoldStep(f[n], k, n + 1, ev)
      BY <1>1, <2>2
    <2>4. g[n + 1] = FoldStep(g[n], k, n + 1, eu)
      BY <1>2, <2>2
    <2>5. \A i \in 1 .. n + 1 : ev[i] = eu[i]
      BY DEF SameEvents
    <2>6. FoldStep(f[n], k, n + 1, ev) = FoldStep(f[n], k, n + 1, eu)
      BY <2>2, <2>5 DEF FoldStep
    <2> QED
      BY <2>1, <2>3, <2>4, <2>6
  <1> HIDE DEF T
  <1>5. Nat \subseteq T
    BY <1>3, <1>4, Induction
  <1> QED
    BY <1>5 DEF T

(* Reduce is the last state of such a function.                            *)
LEMMA ReduceFolds ==
  ASSUME NEW S, NEW ev \in Seq(S)
  PROVE  \E f : Folds(f, InitialState, 1, ev, Len(ev)) /\ Reduce(ev) = f[Len(ev)]
  <1> DEFINE P(f) == f = [n \in 0 .. Len(ev) |->
          IF n = 0 THEN InitialState
          ELSE IF \/ n > 1 /\ ~f[n - 1].exists
                  \/ \E i \in 1 .. n - 1 : ev[i].key = ev[n].key
               THEN Rejected ELSE ApplyEvent(f[n - 1], ev[n])]
             F == CHOOSE f : P(f)
  <1>1. \E f : P(f)
    <2> Len(ev) \in Nat
      OBVIOUS
    <2>1. PICK f : Folds(f, InitialState, 1, ev, Len(ev))
      BY FoldExists
    <2>2. P(f)
      BY <2>1 DEF Folds, FoldStep
    <2> QED
      BY <2>2
  <1>2. P(F)
    BY <1>1
  <1>3. Folds(F, InitialState, 1, ev, Len(ev))
    BY <1>2 DEF Folds, FoldStep
  <1>4. Reduce(ev) = F[Len(ev)]
    BY DEF Reduce
  <1> QED
    BY <1>3, <1>4

(* Along the way it holds the reductions of the prefixes.                  *)
LEMMA ReducePrefix ==
  ASSUME NEW S, NEW ev \in Seq(S), NEW f, Folds(f, InitialState, 1, ev, Len(ev)),
         NEW n \in 0 .. Len(ev)
  PROVE  Reduce(SubSeq(ev, 1, n)) = f[n]
  <1> DEFINE eu == SubSeq(ev, 1, n)
  <1>1. eu \in Seq(S) /\ Len(eu) = n /\ SameEvents(eu, ev, n)
    BY DEF SameEvents
  <1>2. n \in Nat /\ Len(ev) \in Nat /\ n <= Len(ev)
    OBVIOUS
  <1> HIDE DEF eu
  <1>3. PICK g : Folds(g, InitialState, 1, eu, n) /\ Reduce(eu) = g[n]
    BY <1>1, ReduceFolds
  <1>4. \A i \in 0 .. n : g[i] = f[i]
    BY <1>1, <1>2, <1>3, FoldsAgree
  <1> QED
    BY <1>2, <1>3, <1>4 DEF eu

(* Reduce, one event further.                                              *)
LEMMA ReduceAppend ==
  ASSUME NEW S, NEW ev \in Seq(S), NEW e \in S
  PROVE  Reduce(Append(ev, e)) = FoldStep(Reduce(ev), 1, Len(ev) + 1, Append(ev, e))
  <1> DEFINE eu == Append(ev, e)
             m == Len(ev)
  <1>1. /\ eu \in Seq(S) /\ Len(eu) = m + 1 /\ m \in Nat
        /\ m + 1 \in Nat /\ m <= m + 1 /\ SameEvents(ev, eu, m)
    BY DEF SameEvents
  <1> HIDE DEF eu, m
  <1>2. PICK f : Folds(f, InitialState, 1, eu, m + 1) /\ Reduce(eu) = f[m + 1]
    BY <1>1, ReduceFolds
  <1>3. PICK g : Folds(g, InitialState, 1, ev, m) /\ Reduce(ev) = g[m]
    BY ReduceFolds DEF m
  <1>4. \A i \in 0 .. m : g[i] = f[i]
    BY <1>1, <1>2, <1>3, FoldsAgree
  <1>5. m \in 0 .. m /\ m + 1 \in 0 .. m + 1 /\ m + 1 # 0 /\ m + 1 - 1 = m /\ m + 1 \in Nat
    BY <1>1
  <1>6. f[m + 1] = FoldStep(f[m], 1, m + 1, eu)
    BY <1>2, <1>5 DEF Folds
  <1> QED
    BY <1>2, <1>3, <1>4, <1>5, <1>6 DEF eu, m

(* An event that is accepted at the end of an accepted log: Reduce takes   *)
(* one step of ApplyEvent.                                                 *)
LEMMA ReduceAccepts ==
  ASSUME NEW S, NEW ev \in Seq(S), NEW e \in S,
         Reduce(ev).exists \/ ev = <<>>, \A i \in DOMAIN ev : ev[i].key # e.key
  PROVE  Reduce(Append(ev, e)) = ApplyEvent(Reduce(ev), e)
  <1> DEFINE eu == Append(ev, e)
             m == Len(ev)
  <1>1. /\ m \in Nat /\ eu[m + 1] = e
        /\ \A i \in 1 .. m : i \in DOMAIN ev /\ eu[i] = ev[i]
        /\ ev = <<>> => m = 0
    OBVIOUS
  <1> HIDE DEF eu, m
  <1>2. ~(m + 1 > 1 /\ ~Reduce(ev).exists)
    BY <1>1
  <1>3. ~ \E i \in 1 .. m + 1 - 1 : eu[i].key = eu[m + 1].key
    BY <1>1
  <1>4. FoldStep(Reduce(ev), 1, m + 1, eu) = ApplyEvent(Reduce(ev), e)
    BY <1>1, <1>2, <1>3 DEF FoldStep
  <1> QED
    BY <1>4, ReduceAppend DEF eu, m

(* A log that holds the creation of the Run.                               *)
LEMMA ReduceCreated ==
  ASSUME NEW e, e.type = "RunCreated"
  PROVE  Reduce(<<e>>) = ApplyEvent(InitialState, e) /\ Reduce(<<e>>).exists
  <1>1. Reduce(<<>>) = InitialState
    <2>1. <<>> \in Seq({e}) /\ Len(<<>>) = 0
      OBVIOUS
    <2>2. PICK f : Folds(f, InitialState, 1, <<>>, 0) /\ Reduce(<<>>) = f[0]
      BY <2>1, ReduceFolds
    <2> QED
      BY <2>2 DEF Folds
  <1>2. Reduce(<<e>>) = ApplyEvent(InitialState, e)
    <2>1. <<>> \in Seq({e}) /\ <<e>> = Append(<<>>, e) /\ \A i \in DOMAIN <<>> : <<>>[i].key # e.key
      OBVIOUS
    <2>2. Reduce(Append(<<>>, e)) = ApplyEvent(Reduce(<<>>), e)
      BY <2>1, ReduceAccepts
    <2> QED
      BY <1>1, <2>1, <2>2
  <1>3. ApplyEvent(InitialState, e).exists
    <2>1. ~InitialState.exists
      BY DEF InitialState
    <2>2. ApplyEvent(InitialState, e) =
            [InitialState EXCEPT !.exists = TRUE, !.desired = "Running", !.observed = "Queued"]
      BY <2>1 DEF ApplyEvent, ApplyRunCreated, LegacyLifecycleResultEvents, LeaseEvents
    <2> QED
      BY <2>2 DEF InitialState
  <1> QED
    BY <1>2, <1>3

-----------------------------------------------------------------------------
(* Checkpoints.                                                             *)

(* ReduceFromCheckpoint is the same fold, from the state of the snapshot.  *)
LEMMA ResumeFolds ==
  ASSUME NEW S, NEW ev \in Seq(S), NEW snap, snap.version # 0, snap.state.exists
  PROVE  \E f : /\ Folds(f, snap.state, 0, ev, Len(ev))
                /\ ReduceFromCheckpoint(snap, ev) = f[Len(ev)]
  <1> DEFINE P(f) == f = [n \in 0 .. Len(ev) |->
          IF n = 0 THEN snap.state
          ELSE IF \/ ~f[n - 1].exists
                  \/ \E i \in 1 .. n - 1 : ev[i].key = ev[n].key
               THEN Rejected ELSE ApplyEvent(f[n - 1], ev[n])]
             F == CHOOSE f : P(f)
  <1>1. ASSUME NEW f PROVE Folds(f, snap.state, 0, ev, Len(ev)) <=> P(f)
    <2> DEFINE A == [n \in 0 .. Len(ev) |->
                       IF n = 0 THEN snap.state ELSE FoldStep(f[n - 1], 0, n, ev)]
               B == [n \in 0 .. Len(ev) |->
                       IF n = 0 THEN snap.state
                       ELSE IF \/ ~f[n - 1].exists
                               \/ \E i \in 1 .. n - 1 : ev[i].key = ev[n].key
                            THEN Rejected ELSE ApplyEvent(f[n - 1], ev[n])]
    <2>1. ASSUME NEW n \in 0 .. Len(ev) PROVE A[n] = B[n]
      <3>1. n # 0 => n > 0
        OBVIOUS
      <3> QED
        BY <3>1 DEF FoldStep
    <2>2. A = B
      BY <2>1
    <2> QED
      BY <2>2 DEF Folds
  <1>2. \E f : P(f)
    <2> Len(ev) \in Nat
      OBVIOUS
    <2>1. PICK f : Folds(f, snap.state, 0, ev, Len(ev))
      BY FoldExists
    <2> QED
      BY <1>1, <2>1
  <1>3. P(F)
    BY <1>2
  <1>4. Folds(F, snap.state, 0, ev, Len(ev))
    BY <1>1, <1>3
  <1>5. ReduceFromCheckpoint(snap, ev) = F[Len(ev)]
    BY DEF ReduceFromCheckpoint
  <1> QED
    BY <1>4, <1>5

(* No two events of ev have the same key.                                  *)
DistinctKeys(ev) == \A i, j \in DOMAIN ev : ev[i].key = ev[j].key => i = j

(* Every prefix of ev is a Run.                                            *)
Reducible(ev) == \A n \in 1 .. Len(ev) : Reduce(SubSeq(ev, 1, n)).exists

(* The suffix, folded from the reduction of the prefix, gives the          *)
(* reduction of the whole: the keys that ReduceFromCheckpoint does not     *)
(* compare, and the first event that it does not treat apart, make no      *)
(* difference to a log that Append has accepted.                           *)
LEMMA ResumeIsReduce ==
  ASSUME NEW S, NEW ev \in Seq(S), DistinctKeys(ev), Reducible(ev),
         NEW m \in 1 .. Len(ev)
  PROVE  ReduceFromCheckpoint([version |-> m, state |-> Reduce(SubSeq(ev, 1, m))],
                              SubSeq(ev, m + 1, Len(ev))) = Reduce(ev)
  <1> DEFINE l == Len(ev)
             snap == [version |-> m, state |-> Reduce(SubSeq(ev, 1, m))]
             eu == SubSeq(ev, m + 1, Len(ev))
             k == l - m
  <1>1. /\ l \in Nat /\ m \in Nat /\ k \in Nat /\ m # 0 /\ m \in 0 .. l /\ m + k = l
        /\ eu \in Seq(S) /\ Len(eu) = k /\ \A i \in 1 .. k : eu[i] = ev[m + i]
        /\ DOMAIN ev = 1 .. l
    OBVIOUS
  <1>2. snap.version # 0 /\ snap.state = Reduce(SubSeq(ev, 1, m)) /\ snap.state.exists
    BY <1>1 DEF Reducible
  <1>3. PICK f : Folds(f, InitialState, 1, ev, l) /\ Reduce(ev) = f[l]
    BY ReduceFolds
  <1>4. \A n \in 0 .. l : Reduce(SubSeq(ev, 1, n)) = f[n]
    BY <1>3, ReducePrefix
  <1>5. \A n \in 1 .. l : f[n].exists
    <2> SUFFICES ASSUME NEW n \in 1 .. l PROVE f[n].exists
      OBVIOUS
    <2>1. Reduce(SubSeq(ev, 1, n)).exists
      BY DEF Reducible
    <2>2. n \in 0 .. l
      OBVIOUS
    <2> QED
      BY <1>4, <2>1, <2>2
  <1> HIDE DEF snap, eu, l, k
  <1>6. PICK g : Folds(g, snap.state, 0, eu, k) /\ ReduceFromCheckpoint(snap, eu) = g[k]
    BY <1>1, <1>2, ResumeFolds
  <1> DEFINE T == {n \in Nat : n <= k => g[n] = f[m + n]}
  <1>7. 0 \in T
    <2>1. g[0] = snap.state
      BY <1>1, <1>6 DEF Folds
    <2>2. m + 0 = m
      BY <1>1
    <2> QED
      BY <1>1, <1>2, <1>4, <2>1, <2>2
  <1>8. ASSUME NEW n \in Nat, n \in T PROVE n + 1 \in T
    <2> SUFFICES ASSUME n + 1 <= k PROVE g[n + 1] = f[m + (n + 1)]
      OBVIOUS
    <2>1. g[n] = f[m + n]
      BY <1>8, <1>1
    <2> DEFINE j == m + (n + 1)
    <2>2. /\ n + 1 \in 1 .. k /\ n + 1 # 0 /\ n + 1 - 1 = n
          /\ j \in 1 .. l /\ j # 0 /\ j - 1 = m + n /\ m + n \in 1 .. l /\ j \in Nat
      BY <1>1
    <2>3. g[n + 1] = FoldStep(f[m + n], 0, n + 1, eu)
      BY <1>1, <1>6, <2>1, <2>2 DEF Folds
    <2>4. f[j] = FoldStep(f[m + n], 1, j, ev)
      BY <1>1, <1>3, <2>2 DEF Folds
    <2>5. f[m + n].exists
      BY <1>5, <2>2
    <2>6. eu[n + 1] = ev[j]
      BY <1>1, <2>2
    <2> HIDE DEF j
    <2>7. ~ \E i \in 1 .. j - 1 : ev[i].key = ev[j].key
      <3> SUFFICES ASSUME NEW i \in 1 .. j - 1, ev[i].key = ev[j].key PROVE FALSE
        OBVIOUS
      <3>1. i \in DOMAIN ev /\ j \in DOMAIN ev /\ i # j
        BY <1>1, <2>2
      <3> QED
        BY <3>1 DEF DistinctKeys
    <2>8. ~ \E i \in 1 .. n + 1 - 1 : eu[i].key = eu[n + 1].key
      <3> SUFFICES ASSUME NEW i \in 1 .. n, eu[i].key = eu[n + 1].key PROVE FALSE
        BY <2>2
      <3>1. i \in 1 .. k /\ m + i \in 1 .. j - 1
        BY <1>1, <2>2 DEF j
      <3>2. eu[i] = ev[m + i]
        BY <1>1, <3>1
      <3> QED
        BY <2>6, <2>7, <3>1, <3>2
    <2>9. FoldStep(f[m + n], 0, n + 1, eu) = ApplyEvent(f[m + n], ev[j])
      BY <2>5, <2>6, <2>8 DEF FoldStep
    <2>10. FoldStep(f[m + n], 1, j, ev) = ApplyEvent(f[m + n], ev[j])
      BY <2>5, <2>7 DEF FoldStep
    <2> QED
      BY <2>3, <2>4, <2>9, <2>10 DEF j
  <1> HIDE DEF T
  <1>9. Nat \subseteq T
    BY <1>7, <1>8, Induction
  <1>10. g[k] = f[l]
    BY <1>1, <1>9 DEF T
  <1> QED
    BY <1>3, <1>6, <1>10 DEF snap, eu, l

-----------------------------------------------------------------------------
(* The log is what Append lets through: the keys of its events differ, by  *)
(* the place they carry, and every prefix of it is a Run.                  *)
Accepted ==
  /\ log \in Seq({log[i] : i \in DOMAIN log}) /\ log # <<>>
  /\ \A i \in DOMAIN log : log[i].key[3] = i - 1
  /\ Reducible(log)

(* A checkpoint that was never damaged is the one of some version.         *)
Cached ==
  /\ damages \in Nat
  /\ DOMAIN saved = {"seq", "snap", "stateDigest", "eventDigest"} /\ saved.seq \in Nat
  /\ saved.seq # 0 /\ damages = 0 =>
       /\ saved.seq <= Len(log)
       /\ saved.snap = Snapshot(saved.seq) /\ saved.stateDigest = Snapshot(saved.seq)
       /\ saved.eventDigest = Prefix(saved.seq)

CheckpointInv == Accepted /\ Cached

LEMMA AcceptedKeys == Accepted => DistinctKeys(log)
  <1> SUFFICES ASSUME Accepted, NEW i \in DOMAIN log, NEW j \in DOMAIN log,
                      log[i].key = log[j].key
               PROVE  i = j
    BY DEF DistinctKeys
  <1>1. i - 1 = j - 1
    BY DEF Accepted
  <1>2. i \in Nat /\ j \in Nat
    BY DEF Accepted
  <1> QED
    BY <1>1, <1>2

(* What Rebuild accepts gives the reduction of the log.                    *)
LEMMA TrustedResumes ==
  ASSUME Accepted, Cached, Trusted
  PROVE  Resumed = Reduce(log)
  <1> DEFINE S == {log[i] : i \in DOMAIN log}
  <1>1. log \in Seq(S) /\ DistinctKeys(log) /\ Reducible(log)
    BY AcceptedKeys DEF Accepted
  <1>2. saved.seq \in 1 .. Len(log)
    BY DEF Cached, Trusted, Accepted
  <1>3. saved.snap = [version |-> saved.seq, state |-> Reduce(SubSeq(log, 1, saved.seq))]
    BY DEF Trusted, Snapshot, Prefix
  <1> HIDE DEF S
  <1> QED
    BY <1>1, <1>2, <1>3, ResumeIsReduce DEF Resumed

LEMMA AppendedEvent ==
  ASSUME Accepted, AppendEvent
  PROVE  Accepted'
  <1>1. PICK e \in Proposals(Reduce(log)) : /\ ApplyEvent(Reduce(log), e).exists
                                            /\ log' = Append(log, e)
    BY DEF AppendEvent
  <1> DEFINE S == {log[i] : i \in DOMAIN log}
             U == S \cup {e}
             l == Len(log)
  <1>2. /\ log \in Seq(U) /\ log' \in Seq(U) /\ l \in Nat /\ DOMAIN log = 1 .. l
        /\ Len(log') = l + 1 /\ DOMAIN log' = 1 .. l + 1 /\ log'[l + 1] = e
        /\ \A i \in 1 .. l : log'[i] = log[i]
        /\ l # 0
    BY <1>1 DEF Accepted
  <1>3. log' \in Seq({log'[i] : i \in DOMAIN log'}) /\ log' # <<>>
    BY <1>2
  <1>4. e.key[3] = l
    <2>1. \A a, t : Fact(t, a).key = <<a, t, Len(log)>>
      BY Zenon DEF Fact, Event
    <2>2. \A d : [Event("DesiredStateChanged", <<NoAction, d, Len(log)>>, "", 0)
                   EXCEPT !.desired = d].key = <<NoAction, d, Len(log)>>
      BY Zenon DEF Event
    <2>3. \A a, o : [Fact("ActionFailed", a) EXCEPT !.reason = "failed", !.outcome = o].key
                      = Fact("ActionFailed", a).key
      BY Zenon DEF Fact, Event
    <2>4. \/ \E d : e = [Event("DesiredStateChanged", <<NoAction, d, Len(log)>>, "", 0)
                          EXCEPT !.desired = d]
          \/ \E a, t : e = Fact(t, a)
          \/ \E a, o : e = [Fact("ActionFailed", a) EXCEPT !.reason = "failed", !.outcome = o]
      BY Zenon DEF Proposals
    <2>5. \E a, t : e.key = <<a, t, Len(log)>>
      <3>1. CASE \E a, t : e = Fact(t, a)
        BY <2>1, <3>1, Zenon
      <3>2. ASSUME NEW a, NEW o,
                   e = [Fact("ActionFailed", a) EXCEPT !.reason = "failed", !.outcome = o]
            PROVE  e.key = <<a, "ActionFailed", Len(log)>>
        BY <2>1, <2>3, <3>2, Zenon
      <3>3. ASSUME NEW d, e = [Event("DesiredStateChanged", <<NoAction, d, Len(log)>>, "", 0)
                                 EXCEPT !.desired = d]
            PROVE  e.key = <<NoAction, d, Len(log)>>
        BY <2>2, <3>3, Zenon
      <3> QED
        BY <2>4, <3>1, <3>2, <3>3, Zenon
    <2> QED
      BY <2>5
  <1>5. \A i \in DOMAIN log' : log'[i].key[3] = i - 1
    <2> TAKE i \in DOMAIN log'
    <2>1. CASE i = l + 1
      BY <1>2, <1>4, <2>1
    <2>2. CASE i # l + 1
      <3>1. i \in DOMAIN log /\ log'[i] = log[i]
        BY <1>2, <2>2
      <3> QED
        BY <3>1 DEF Accepted
    <2> QED
      BY <2>1, <2>2
  <1>6. Reduce(log) .exists
    <2>1. SubSeq(log, 1, l) = log /\ l \in 1 .. l
      BY <1>2
    <2> QED
      BY <2>1 DEF Accepted, Reducible
  <1>7. \A i \in DOMAIN log : log[i].key # e.key
    <2> TAKE i \in DOMAIN log
    <2>1. log[i].key[3] = i - 1 /\ i - 1 # l
      BY <1>2 DEF Accepted
    <2> QED
      BY <1>4, <2>1
  <1> HIDE DEF S, U
  <1>8. Reduce(log') = ApplyEvent(Reduce(log), e)
    BY <1>1, <1>2, <1>6, <1>7, ReduceAccepts DEF U
  <1>9. Reducible(log')
    <2> SUFFICES ASSUME NEW n \in 1 .. l + 1 PROVE Reduce(SubSeq(log', 1, n)).exists
      BY <1>2 DEF Reducible
    <2>1. CASE n = l + 1
      <3>1. SubSeq(log', 1, n) = log'
        BY <1>2, <2>1
      <3> QED
        BY <1>1, <1>8, <3>1
    <2>2. CASE n # l + 1
      <3>1. SubSeq(log', 1, n) = SubSeq(log, 1, n) /\ n \in 1 .. l
        BY <1>2, <2>2
      <3> QED
        BY <3>1 DEF Accepted, Reducible
    <2> QED
      BY <2>1, <2>2
  <1> QED
    BY <1>3, <1>5, <1>9 DEF Accepted

(* A checkpoint stays the one of its version while the log grows.          *)
LEMMA CachedGrows ==
  ASSUME Accepted, Cached, AppendEvent
  PROVE  Cached'
  <1>1. PICK e : log' = Append(log, e)
    BY DEF AppendEvent
  <1>2. saved' = saved /\ damages' = damages
    BY DEF AppendEvent
  <1> DEFINE U == {log[i] : i \in DOMAIN log} \cup {e}
             l == Len(log)
  <1>3. log \in Seq(U) /\ log' \in Seq(U) /\ l \in Nat /\ Len(log') = l + 1
    BY <1>1 DEF Accepted
  <1>4. ASSUME NEW n \in Nat, n <= l PROVE SubSeq(log', 1, n) = SubSeq(log, 1, n)
    BY <1>1, <1>3, <1>4
  <1>5. ASSUME NEW n \in Nat, n <= l PROVE Prefix(n)' = Prefix(n) /\ Snapshot(n)' = Snapshot(n)
    BY <1>4, <1>5 DEF Prefix, Snapshot
  <1>6. ASSUME saved.seq # 0, damages = 0
        PROVE  /\ saved.seq <= Len(log)'
               /\ saved.snap = Snapshot(saved.seq)' /\ saved.stateDigest = Snapshot(saved.seq)'
               /\ saved.eventDigest = Prefix(saved.seq)'
    <2>1. saved.seq \in Nat /\ saved.seq <= l
      BY <1>6 DEF Cached
    <2>2. Prefix(saved.seq)' = Prefix(saved.seq) /\ Snapshot(saved.seq)' = Snapshot(saved.seq)
      BY <1>2, <1>5, <2>1
    <2> QED
      BY <1>3, <1>6, <2>1, <2>2 DEF Cached
  <1> QED
    BY <1>2, <1>6 DEF Cached

LEMMA SavedCheckpoint ==
  ASSUME Accepted, Cached, NEW v, SaveCheckpoint(v)
  PROVE  CheckpointInv'
  <1>1. /\ v = Len(log) /\ log' = log /\ damages' = damages
        /\ saved' = [seq |-> v, snap |-> Snapshot(v), stateDigest |-> Snapshot(v),
                   eventDigest |-> log]
    BY DEF SaveCheckpoint
  <1>2. v \in Nat /\ SubSeq(log, 1, v) = log
    BY <1>1 DEF Accepted
  <1>3. Snapshot(v)' = Snapshot(v) /\ Prefix(v)' = log
    BY <1>1, <1>2 DEF Snapshot, Prefix
  <1>4. Accepted'
    BY <1>1 DEF Accepted
  <1>5. Cached'
    BY <1>1, <1>2, <1>3 DEF Cached
  <1> QED
    BY <1>4, <1>5 DEF CheckpointInv

(* Damage changes columns, never their names, and is counted.              *)
LEMMA Damaged ==
  ASSUME Accepted, Cached, Damage
  PROVE  CheckpointInv'
  <1>1. log' = log /\ damages' = damages + 1 /\ damages \in Nat
    BY DEF Damage, Cached
  <1>2. Accepted'
    BY <1>1 DEF Accepted
  <1>3. DOMAIN saved' = DOMAIN saved
    BY Zenon DEF Damage
  <1>4. saved'.seq \in Nat
    <2>1. Len(log) \in Nat
      BY DEF Accepted
    <2>2. "seq" \in DOMAIN saved /\ saved.seq \in Nat
      BY DEF Cached
    <2>3. saved'.seq = saved.seq \/ saved'.seq \in 0 .. Len(log) + 1
      BY <2>2, Zenon DEF Damage
    <2> QED
      BY <2>1, <2>2, <2>3
  <1>5. damages' \in Nat /\ damages' # 0
    BY <1>1
  <1> QED
    BY <1>2, <1>3, <1>4, <1>5 DEF CheckpointInv, Cached

LEMMA CheckpointBegins == CheckpointInit => CheckpointInv
  <1> SUFFICES ASSUME CheckpointInit PROVE CheckpointInv
    OBVIOUS
  <1> DEFINE e == Event("RunCreated", <<NoAction, "RunCreated", 0>>, "", 0)
  <1>1. log = <<e>> /\ damages = 0 /\ saved = NoCheckpoint
    BY DEF CheckpointInit
  <1>2. e.key = <<NoAction, "RunCreated", 0>> /\ e.type = "RunCreated"
    BY DEF Event
  <1> HIDE DEF e
  <1>3. log \in Seq({log[i] : i \in DOMAIN log}) /\ log # <<>>
    BY <1>1
  <1>4. \A i \in DOMAIN log : log[i].key[3] = i - 1
    BY <1>1, <1>2
  <1>5. Reduce(log).exists
    BY <1>1, <1>2, ReduceCreated
  <1>6. Reducible(log)
    <2> SUFFICES ASSUME NEW n \in 1 .. Len(log) PROVE Reduce(SubSeq(log, 1, n)).exists
      BY DEF Reducible
    <2>1. Len(log) = 1
      BY <1>1
    <2>2. log \in Seq({e})
      BY <1>1
    <2>3. n = Len(log) /\ SubSeq(log, 1, Len(log)) = log
      BY <2>1, <2>2
    <2> QED
      BY <1>5, <2>3
  <1>7. Cached
    BY <1>1 DEF Cached, NoCheckpoint
  <1> QED
    BY <1>3, <1>4, <1>6, <1>7 DEF CheckpointInv, Accepted

LEMMA CheckpointStep == CheckpointInv /\ [CheckpointNext]_checkpointVars => CheckpointInv'
  <1> SUFFICES ASSUME CheckpointInv, [CheckpointNext]_checkpointVars PROVE CheckpointInv'
    OBVIOUS
  <1>1. CASE AppendEvent
    BY <1>1, AppendedEvent, CachedGrows DEF CheckpointInv
  <1>2. ASSUME NEW v, SaveCheckpoint(v) PROVE CheckpointInv'
    BY <1>2, SavedCheckpoint DEF CheckpointInv
  <1>3. CASE Damage
    BY <1>3, Damaged DEF CheckpointInv
  <1>4. CASE UNCHANGED checkpointVars
    BY <1>4 DEF checkpointVars, CheckpointInv, Accepted, Cached, Snapshot, Prefix
  <1> QED
    BY <1>1, <1>2, <1>3, <1>4 DEF CheckpointNext

(* Rebuild returns the reduction of the whole log whatever the checkpoint  *)
(* columns hold: for logs of any length, any number of damages, and any    *)
(* version the checkpoint was saved at.                                    *)
THEOREM CheckpointIsOnlyACache == CheckpointSpec => []RebuildIsReduce
  <1>1. CheckpointInv => RebuildIsReduce
    BY TrustedResumes DEF CheckpointInv, RebuildIsReduce, Rebuild
  <1> QED
    BY <1>1, CheckpointBegins, CheckpointStep, PTL DEF CheckpointSpec

(* A checkpoint that was saved and not damaged is trusted and resumed from *)
(* however far the log grows past it.                                      *)
THEOREM SavedCheckpointStaysUsable == CheckpointSpec => []CheckpointStaysUsable
  <1>1. CheckpointInv => CheckpointStaysUsable
    <2> SUFFICES ASSUME CheckpointInv, saved.seq # 0, damages = 0
                 PROVE  Trusted /\ Resumed.exists
      BY DEF CheckpointStaysUsable
    <2>1. Trusted
      BY DEF CheckpointInv, Cached, Trusted, Snapshot
    <2>2. Resumed = Reduce(log)
      BY <2>1, TrustedResumes DEF CheckpointInv
    <2>3. SubSeq(log, 1, Len(log)) = log /\ Len(log) \in 1 .. Len(log)
      BY DEF CheckpointInv, Accepted
    <2> QED
      BY <2>1, <2>2, <2>3 DEF CheckpointInv, Accepted, Reducible
  <1> QED
    BY <1>1, CheckpointBegins, CheckpointStep, PTL DEF CheckpointSpec

-----------------------------------------------------------------------------
(* Artifact files.                                                          *)

WritePlaces == {"idle", "copy", "sync", "rename", "syncdir", "insert", "load",
           "dead"} \cup Returned

(* The shape of the state.                                                 *)
Shape ==
  /\ at \in [Writes -> WritePlaces]
  /\ input \in [Writes -> Inputs]
  /\ file \in [Writes -> {"empty", "part", "all"}]
  /\ synced \in SUBSET Writes
  /\ published \in [Bytes -> Writes \cup {NoWrite}]
  /\ survivors \in [Bytes -> SUBSET (Writes \cup {NoWrite})]
  /\ artifact \in Writes \cup {NoWrite}
  /\ losses \in Nat

(* How far the file of a call is.                                          *)
Written ==
  /\ \A w \in synced : file[w] = "all"
  /\ \A w \in Writes :
       /\ at[w] = "sync" => file[w] = "all"
       /\ at[w] \in {"rename", "syncdir", "insert"} => w \in synced

(* A name has, now and after a power loss, a synced file with its bytes.   *)
Named ==
  \A b \in Bytes :
    /\ published[b] \in survivors[b]
    /\ \A w \in survivors[b] \ {NoWrite} : w \in synced /\ input[w].bytes = b

(* The name under which a call published is taken, and stays so.           *)
OnItsWay ==
  \A w \in Writes :
    /\ at[w] \in {"syncdir", "insert"} => published[input[w].bytes] # NoWrite
    /\ at[w] = "insert" /\ w \notin unsynced =>
         NoWrite \notin survivors[input[w].bytes]

(* So does the name of the registered call; the calls that found its row   *)
(* compare themselves with it.                                             *)
Registered ==
  /\ artifact # NoWrite =>
       /\ at[artifact] \in {"ok", "error"}
       /\ losses = 0 => published[input[artifact].bytes] # NoWrite
       /\ artifact \notin unsynced => NoWrite \notin survivors[input[artifact].bytes]
  /\ \A w \in Writes :
       /\ at[w] = "load" => artifact # NoWrite
       /\ at[w] = "ok" => artifact # NoWrite /\ input[w] = input[artifact]

ArtifactInv == Shape /\ Written /\ Named /\ OnItsWay /\ Registered

-----------------------------------------------------------------------------
(* Nothing is written, published or registered before the first call.      *)
LEMMA Initially == ArtifactInit => ArtifactInv
  BY ArtifactAssumption DEF ArtifactInit, ArtifactInv, Shape, Written, Named, OnItsWay,
     Registered, WritePlaces, Returned, Inputs

(* Every step of Write, and every stop, keeps the shape.                   *)
LEMMA ShapeStep == ASSUME Shape, [ArtifactNext]_artifactVars PROVE Shape'
  <1>. USE DEF Shape, WritePlaces, Returned, Inputs, directory, Move
  <1>1. ASSUME NEW w \in Writes, BeginWrite(w) PROVE Shape'  BY <1>1 DEF BeginWrite
  <1>2. ASSUME NEW w \in Writes, CopyBytes(w) PROVE Shape'  BY <1>2 DEF CopyBytes
  <1>3. ASSUME NEW w \in Writes, SyncFile(w) PROVE Shape'  BY <1>3 DEF SyncFile
  <1>4. ASSUME NEW w \in Writes, FailWrite(w) PROVE Shape'  BY <1>4 DEF FailWrite
  <1>5. ASSUME NEW w \in Writes, Publish(w) PROVE Shape'  BY <1>5 DEF Publish
  <1>6. ASSUME NEW w \in Writes, SyncDirectory(w) PROVE Shape'
    BY <1>6 DEF SyncDirectory
  <1>7. ASSUME NEW w \in Writes, Insert(w) PROVE Shape'  BY <1>7 DEF Insert
  <1>8. ASSUME NEW w \in Writes, LoadExisting(w) PROVE Shape'
    BY <1>8 DEF LoadExisting
  <1>9. ASSUME NEW w \in Writes, Kill(w) PROVE Shape'  BY <1>9 DEF Kill
  <1>10. CASE PowerLoss  BY <1>10 DEF PowerLoss
  <1>11. CASE UNCHANGED artifactVars  BY <1>11 DEF artifactVars
  <1>. QED
    BY <1>1, <1>2, <1>3, <1>4, <1>5, <1>6, <1>7, <1>8, <1>9, <1>10, <1>11
    DEF ArtifactNext

(* Only a synced file gets a name: Sync comes before Rename.               *)
LEMMA FileStep ==
  ASSUME Shape, Written, Named, [ArtifactNext]_artifactVars
  PROVE  Written' /\ Named'
  <1>. USE ArtifactAssumption DEF Shape, Written, Named, WritePlaces, Returned, Inputs,
       directory, Move
  <1>. DEFINE Goal == Written' /\ Named'
  <1>1. ASSUME NEW w \in Writes, BeginWrite(w) PROVE Goal  BY <1>1 DEF BeginWrite
  <1>2. ASSUME NEW w \in Writes, CopyBytes(w) PROVE Goal  BY <1>2 DEF CopyBytes
  <1>3. ASSUME NEW w \in Writes, SyncFile(w) PROVE Goal  BY <1>3 DEF SyncFile
  <1>4. ASSUME NEW w \in Writes, FailWrite(w) PROVE Goal  BY <1>4 DEF FailWrite
  <1>5. ASSUME NEW w \in Writes, Publish(w) PROVE Goal  BY <1>5 DEF Publish
  <1>6. ASSUME NEW w \in Writes, SyncDirectory(w) PROVE Goal
    BY <1>6 DEF SyncDirectory
  <1>7. ASSUME NEW w \in Writes, Insert(w) PROVE Goal  BY <1>7 DEF Insert
  <1>8. ASSUME NEW w \in Writes, LoadExisting(w) PROVE Goal
    BY <1>8 DEF LoadExisting
  <1>9. ASSUME NEW w \in Writes, Kill(w) PROVE Goal  BY <1>9 DEF Kill
  <1>10. CASE PowerLoss  BY <1>10 DEF PowerLoss
  <1>11. CASE UNCHANGED artifactVars  BY <1>11 DEF artifactVars
  <1>. QED
    BY <1>1, <1>2, <1>3, <1>4, <1>5, <1>6, <1>7, <1>8, <1>9, <1>10, <1>11
    DEF ArtifactNext

(* Only a published name gets a row: Rename comes before the insert.       *)
LEMMA RowStep ==
  ASSUME Shape, Named, OnItsWay, Registered, [ArtifactNext]_artifactVars
  PROVE  OnItsWay' /\ Registered'
  <1>. USE ArtifactAssumption DEF Shape, Named, OnItsWay, Registered, WritePlaces,
       Returned, Inputs, directory, Move
  <1>. DEFINE Goal == OnItsWay' /\ Registered'
  <1>1. ASSUME NEW w \in Writes, BeginWrite(w) PROVE Goal  BY <1>1 DEF BeginWrite
  <1>2. ASSUME NEW w \in Writes, CopyBytes(w) PROVE Goal  BY <1>2 DEF CopyBytes
  <1>3. ASSUME NEW w \in Writes, SyncFile(w) PROVE Goal  BY <1>3 DEF SyncFile
  <1>4. ASSUME NEW w \in Writes, FailWrite(w) PROVE Goal  BY <1>4 DEF FailWrite
  <1>5. ASSUME NEW w \in Writes, Publish(w) PROVE Goal  BY <1>5 DEF Publish
  <1>6. ASSUME NEW w \in Writes, SyncDirectory(w) PROVE Goal
    BY <1>6 DEF SyncDirectory
  <1>7. ASSUME NEW w \in Writes, Insert(w) PROVE Goal  BY <1>7 DEF Insert
  <1>8. ASSUME NEW w \in Writes, LoadExisting(w) PROVE Goal
    BY <1>8 DEF LoadExisting
  <1>9. ASSUME NEW w \in Writes, Kill(w) PROVE Goal  BY <1>9 DEF Kill
  <1>10. CASE PowerLoss  BY <1>10 DEF PowerLoss
  <1>11. CASE UNCHANGED artifactVars  BY <1>11 DEF artifactVars
  <1>. QED
    BY <1>1, <1>2, <1>3, <1>4, <1>5, <1>6, <1>7, <1>8, <1>9, <1>10, <1>11
    DEF ArtifactNext

(* A registered artifact has complete bytes behind its digest in every     *)
(* reachable state, whoever else writes it and whenever the machine stops. *)
THEOREM ArtifactIsComplete == ArtifactSpec => []RegisteredIsIntact
  <1>1. ArtifactInv /\ [ArtifactNext]_artifactVars => ArtifactInv'
    BY ShapeStep, FileStep, RowStep DEF ArtifactInv
  <1>2. ArtifactInv => RegisteredIsIntact
    BY ArtifactAssumption DEF ArtifactInv, Shape, Written, Named, Registered, Inputs,
       RegisteredIsIntact, Verify
  <1>. QED
    BY <1>1, <1>2, Initially, PTL DEF ArtifactSpec
=============================================================================
