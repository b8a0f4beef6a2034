----------------------------- MODULE LeaseStore -----------------------------
(***************************************************************************)
(* The transactions that share the leases row and the runs row of one Run, *)
(* lock by lock and against the database clock: Acquire, Renew and         *)
(* RecordReceipt of the lease manager, and Append with a fencing token,    *)
(* without one, and for operator intent.  ManagedRun and LegacyRun take    *)
(* each of these as one atomic step; this module is why they may.          *)
(*                                                                         *)
(* A worker is two threads, as in runLeaseSession: one reconciles, one     *)
(* renews; both present the lease of the worker's last acquisition.        *)
(* PostgreSQL is external: a row or advisory lock is held to the end of    *)
(* its transaction, a locking read returns the newest committed row, and a *)
(* transaction may be rolled back at any point.                            *)
(***************************************************************************)
EXTENDS Naturals, Sequences, FiniteSets

CONSTANTS
  Workers,   \* worker ids
  TTL,       \* lease duration, in clock ticks
  MaxTime    \* bound: the clock

ASSUME LeaseAssumption == TTL \in Nat \ {0} /\ MaxTime \in Nat

VARIABLES
  now,    \* clock_timestamp()
  row,    \* the committed leases row; token 0 when there is none
  held,   \* the token each worker presents, 0 before its first acquisition
  tx,     \* the open transaction of each thread
  locks   \* the locks each thread's transaction holds

vars == <<now, row, held, tx, locks>>

Threads == (Workers \X {"reconcile", "renew"}) \cup {<<"operator", "intent">>, <<"caller", "unleased">>}

Operations(t) ==
  CASE t[2] = "reconcile" -> IF held[t[1]] = 0 THEN {"acquire"}
                             ELSE {"acquire", "receipt", "append"}
    [] t[2] = "renew"     -> IF held[t[1]] = 0 THEN {} ELSE {"renew"}
    [] OTHER              -> {t[2]}

-----------------------------------------------------------------------------
(* What each transaction does, in order.  "lease_U" is SELECT .. FOR       *)
(* UPDATE, "lease_S" FOR SHARE, both reading the row; "run_U" is FOR       *)
(* UPDATE, "run_K" the key-share lock of a foreign key to runs; "check"    *)
(* reads the clock after the lock and compares it with the row read.       *)
(* "lease_R" would be a read without a lock; no transaction uses it.       *)

(* Fault: an acquisition reads the lease row without locking it.           *)
AcquireProgram_Unlocked == <<"advisory", "lease_R", "check", "write", "run_K", "commit">>

AcquireProgram == <<"advisory", "lease_U", "check", "write", "run_K", "commit">>

RenewProgram == <<"lease_U", "check", "commit">>

(* Fault: a receipt locks the Run before the lease.                        *)
ReceiptProgram_RunFirst == <<"run_K", "lease_U", "check", "commit">>

(* Fault: a receipt reads the lease row without locking it.                *)
ReceiptProgram_Unlocked == <<"lease_R", "check", "run_K", "commit">>

ReceiptProgram == <<"lease_U", "check", "run_K", "commit">>

(* Fault: the authority of an append is checked only before it waits.      *)
AppendProgram_ChecksOnce == <<"advisory", "lease_S", "check", "run_U", "commit">>

AppendProgram ==
  <<"advisory", "lease_S", "check", "run_U", "lease_S", "check", "commit">>

Program(op) ==
  CASE op = "acquire"  -> AcquireProgram
    [] op = "renew"    -> RenewProgram
    [] op = "receipt"  -> ReceiptProgram
    [] op = "append"   -> AppendProgram
    [] op = "unleased" -> <<"advisory", "mode", "run_U", "commit">>
    [] op = "intent"   -> <<"run_U", "commit">>

Conflicts(mode) ==
  CASE mode = "advisory" -> {"advisory"}
    [] mode = "lease_U"  -> {"lease_U", "lease_S"}
    [] mode = "lease_S"  -> {"lease_U"}
    [] mode = "run_U"    -> {"run_U", "run_K"}
    [] mode = "run_K"    -> {"run_U"}
    [] OTHER             -> {}

LockModes == {"advisory", "lease_U", "lease_S", "lease_R", "run_U", "run_K"}

NoRow == [worker |-> "", token |-> 0, expires |-> 0]

Idle == [op |-> "", at |-> 0, saw |-> NoRow, until |-> 0, since |-> 0]

Init ==
  /\ now = 0
  /\ row = NoRow
  /\ held = [w \in Workers |-> 0]
  /\ tx = [t \in Threads |-> Idle]
  /\ locks = [t \in Threads |-> {}]

-----------------------------------------------------------------------------
Step(t) == IF tx[t].op = "" THEN "none" ELSE Program(tx[t].op)[tx[t].at]

Waits(t, u) ==
  /\ t # u
  /\ Step(t) \in LockModes
  /\ Conflicts(Step(t)) \cap locks[u] # {}

End(t) == tx' = [tx EXCEPT ![t] = Idle] /\ locks' = [locks EXCEPT ![t] = {}]

Begin(t) ==
  /\ tx[t].op = ""
  /\ \E op \in Operations(t) : tx' = [tx EXCEPT ![t] = [Idle EXCEPT !.op = op, !.at = 1]]
  /\ UNCHANGED <<now, row, held, locks>>

(* An absent row cannot be locked.  A takeover does not touch the foreign  *)
(* key to runs; the first acquisition inserts it.                          *)
Lock(t) ==
  LET mode == Step(t)
      absent == \/ mode \in {"lease_U", "lease_S"} /\ row.token = 0
                \/ tx[t].op = "acquire" /\ mode = "run_K" /\ tx[t].saw.token # 0
      reads == mode \in {"lease_U", "lease_S", "lease_R"}
  IN  /\ mode \in LockModes
      /\ absent \/ \A u \in Threads : ~Waits(t, u)
      /\ locks' = IF absent THEN locks ELSE [locks EXCEPT ![t] = @ \cup {mode}]
      /\ tx' = [tx EXCEPT ![t].at = @ + 1,
                          ![t].saw = IF reads THEN row ELSE @,
                          ![t].since = IF mode = "run_U" /\ tx[t].op = "append"
                                        THEN now ELSE @]
      /\ UNCHANGED <<now, row, held>>

Authority(t) ==
  /\ tx[t].saw.worker = t[1] /\ tx[t].saw.token = held[t[1]]
  /\ tx[t].saw.expires > now

(* The owner that acquires again only observes its lease; another worker's *)
(* live lease is held.  Everything else needs the presented authority.     *)
Check(t) ==
  LET s == tx[t].saw
      live == s.expires > now
  IN  /\ Step(t) = "check"
      /\ \/ /\ IF tx[t].op = "acquire" THEN ~live ELSE Authority(t)
            /\ tx' = [tx EXCEPT ![t].at = @ + 1,
                                ![t].saw = IF tx[t].op = "acquire" THEN @ ELSE NoRow,
                                ![t].until = IF tx[t].op = "renew" THEN now + TTL ELSE 0]
            /\ UNCHANGED <<locks, held>>
         \/ /\ tx[t].op = "acquire" /\ live
            /\ held' = IF s.worker = t[1] THEN [held EXCEPT ![t[1]] = s.token] ELSE held
            /\ End(t)
         \/ /\ tx[t].op # "acquire" /\ ~Authority(t)
            /\ End(t) /\ UNCHANGED held
      /\ UNCHANGED <<now, row>>

(* An acquisition computes the expiry in its UPDATE or INSERT, a renewal   *)
(* from the clock it checked; both before they commit.                     *)
Write(t) ==
  /\ Step(t) = "write"
  /\ tx' = [tx EXCEPT ![t].at = @ + 1, ![t].until = now + TTL]
  /\ UNCHANGED <<now, row, held, locks>>

(* An append without authority is refused once the Run has a lease row.    *)
Mode(t) ==
  /\ Step(t) = "mode"
  /\ IF row.token = 0 THEN tx' = [tx EXCEPT ![t].at = @ + 1] /\ UNCHANGED locks ELSE End(t)
  /\ UNCHANGED <<now, row, held>>

(* The renewal updates whatever row is there: it names only the Run.       *)
Commit(t) ==
  LET op == tx[t].op
  IN  /\ Step(t) = "commit"
      /\ row' = CASE op = "acquire" -> [worker |-> t[1], token |-> tx[t].saw.token + 1,
                                        expires |-> tx[t].until]
                  [] op = "renew"   -> [row EXCEPT !.expires = tx[t].until]
                  [] OTHER          -> row
      /\ held' = IF op = "acquire" THEN [held EXCEPT ![t[1]] = row'.token] ELSE held
      /\ End(t)
      /\ UNCHANGED now

(* The connection is lost or the caller's context is cancelled.            *)
Rollback(t) ==
  /\ tx[t].op # ""
  /\ End(t)
  /\ UNCHANGED <<now, row, held>>

Tick ==
  /\ now < MaxTime
  /\ now' = now + 1
  /\ UNCHANGED <<row, held, tx, locks>>

Next ==
  \/ \E t \in Threads :
       Begin(t) \/ Lock(t) \/ Check(t) \/ Write(t) \/ Mode(t) \/ Commit(t) \/ Rollback(t)
  \/ Tick

Spec == Init /\ [][Next]_vars

-----------------------------------------------------------------------------
(* No set of transactions waits for each other in a circle: the lease is   *)
(* locked before the Run everywhere, the advisory lock before both.        *)
DeadlockFree ==
  \A waiting \in (SUBSET Threads) \ {{}} :
    \E t \in waiting : \A u \in waiting : ~Waits(t, u)

(* Fencing holds at the commit, not only at the check: whenever a receipt  *)
(* or an append may become visible, its worker's token is still the row's, *)
(* and an unleased append may only while the Run never had a lease.        *)
FencedAtCommit ==
  \A t \in Threads : Step(t) = "commit" =>
    /\ tx[t].op \in {"receipt", "append"} => row.worker = t[1] /\ row.token = held[t[1]]
    /\ tx[t].op = "unleased" => row.token = 0

(* However long an append waited for the Run row, its lease had not        *)
(* expired when it got it.                                                 *)
AuthorityAfterWait ==
  \A t \in Threads :
    tx[t].op = "append" /\ Step(t) = "commit" => row.expires > tx[t].since

(* A worker that renews in time is never dispossessed: ownership passes    *)
(* only when the committed expiry has passed, and a renewal that commits   *)
(* extends the lease of the worker that asked.                             *)
NoEarlyTakeover ==
  [][/\ row'.token # row.token => row.expires <= now
     /\ row'.token = row.token /\ row'.expires # row.expires =>
          \E t \in Threads : tx[t].op = "renew" /\ tx'[t].op = "" /\ t[1] = row.worker]_vars
=============================================================================
