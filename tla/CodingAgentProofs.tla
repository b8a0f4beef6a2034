-------------------------- MODULE CodingAgentProofs --------------------------
(***************************************************************************)
(* The properties of CodingAgent for any budget, turn limit, number of     *)
(* calls and loss of audit records: one invariant for the token account,   *)
(* one for the audit trail, one for the order of commands and answers, one *)
(* for the shape of the transcript, each kept by every action.             *)
(***************************************************************************)
EXTENDS CodingAgent, FiniteSetTheorems, TLAPS

Messages == [role : {"assistant"}, calls : Seq(Calls)]
              \cup [role : {"tool"}, id : {1, 2}, at : Nat \X Nat]

TypeOK ==
  /\ pc \in {"start", "turn", "stream", "tool_calls", "stop", "invoke", "execute",
             "running", "report", "done"}
  /\ turn \in Nat /\ next \in Nat
  /\ remaining \in Int /\ spent \in Int /\ usage \in Int
  /\ calls \in Seq(Calls)
  /\ failed \in BOOLEAN /\ losses \in Nat
  /\ messages \in Seq(Messages)
  /\ effects \in Seq(Nat \X Nat)
  /\ result = "ok" => pc = "done"

(* Between Settle and the end of its calls, Run is at one of them.         *)
Invoking == pc \in {"invoke", "execute", "running", "report"}

InTurn == Invoking => next \in 1 .. Len(calls)

(* What was spent and what remains make up the budget.                     *)
Account ==
  /\ spent + remaining = TokenLimit
  /\ pc # "done" \/ result = "ok" => remaining >= 0

-----------------------------------------------------------------------------
LEMMA AppendFacts ==
  ASSUME NEW S, NEW s \in Seq(S), NEW e \in S
  PROVE  /\ Append(s, e) \in Seq(S)
         /\ Len(Append(s, e)) = Len(s) + 1 /\ Len(s) \in Nat
         /\ DOMAIN s = 1 .. Len(s) /\ DOMAIN Append(s, e) = 1 .. Len(s) + 1
         /\ \A i \in 1 .. Len(s) : Append(s, e)[i] = s[i]
         /\ Append(s, e)[Len(s) + 1] = e
  OBVIOUS

LEMMA SubsetCount ==
  ASSUME NEW n \in Nat, NEW lost \in SUBSET (1 .. n)
  PROVE  Cardinality(lost) \in Nat
  <1>1. IsFiniteSet(1 .. n)
    BY FS_Interval
  <1>2. IsFiniteSet(lost)
    BY <1>1, FS_Subset
  <1>. QED
    BY <1>2, FS_CardinalityType

Kinds == {"execution_timed_out", "execution_canceled", "execution_failed",
          "output_truncated", "execution_completed"}

LEMMA KindsDomain ==
  ASSUME NEW first \in Seq(Kinds), NEW cut \in Seq(Kinds), NEW left \in Seq(Kinds)
  PROVE  \E n \in Nat : DOMAIN (first \o cut \o left) = 1 .. n
  <1>2. first \o cut \o left \in Seq(Kinds)
    OBVIOUS
  <1>3. DOMAIN (first \o cut \o left) = 1 .. Len(first \o cut \o left)
        /\ Len(first \o cut \o left) \in Nat
    BY <1>2
  <1>. QED
    BY <1>3

LEMMA Parts ==
  /\ <<>> \in Seq(Kinds) /\ <<"output_truncated">> \in Seq(Kinds)
  /\ <<"execution_failed">> \in Seq(Kinds) /\ <<"execution_timed_out">> \in Seq(Kinds)
  /\ <<"execution_canceled">> \in Seq(Kinds)
  BY DEF Kinds

-----------------------------------------------------------------------------
(* What recording does to the trail.                                       *)

LEMMA PersistEffect ==
  ASSUME losses \in Nat, NEW R, NEW n \in Nat, Persist(R, n)
  PROVE  losses' \in Nat /\ losses' = losses + n /\ audit \subseteq audit' /\ R \subseteq audit'
  BY DEF Persist

LEMMA KeptEffect ==
  ASSUME losses \in Nat, NEW by, NEW kind, Kept(by, kind)
  PROVE  losses' = losses /\ audit \subseteq audit' /\ RecordOf(by, kind) \in audit'
  BY PersistEffect DEF Kept

LEMMA LostEffect ==
  ASSUME losses \in Nat, Lost
  PROVE  losses' \in Nat /\ audit \subseteq audit'
  BY PersistEffect DEF Lost

LEMMA RecordEffect ==
  ASSUME losses \in Nat, NEW by, NEW kind, Record(by, kind)
  PROVE  losses' \in Nat /\ audit \subseteq audit'
  BY KeptEffect, LostEffect DEF Record

LEMMA RecordAllEffect ==
  ASSUME losses \in Nat, NEW by, NEW kinds, NEW n \in Nat, DOMAIN kinds = 1 .. n,
         RecordAll(by, kinds)
  PROVE  losses' \in Nat /\ audit \subseteq audit'
  <1>1. PICK lost \in SUBSET DOMAIN kinds :
          Persist({RecordOf(by, kinds[i]) : i \in DOMAIN kinds \ lost}, Cardinality(lost))
    BY DEF RecordAll
  <1>2. Cardinality(lost) \in Nat
    BY SubsetCount
  <1>. QED
    BY <1>1, <1>2, PersistEffect

LEMMA LastOfConcat ==
  ASSUME NEW S, NEW s \in Seq(S), NEW e \in S
  PROVE  \E i \in DOMAIN (s \o <<e>>) : (s \o <<e>>)[i] = e
  <1>1. s \o <<e>> = Append(s, e)
    OBVIOUS
  <1>. QED
    BY <1>1, AppendFacts

(* EndCommand: whatever failed leaves failed set; otherwise every record,  *)
(* the completion among them, has persisted.                               *)
LEMMA EndCommandEffect ==
  ASSUME losses \in Nat, EndCommand
  PROVE  /\ losses' \in Nat /\ audit \subseteq audit' /\ failed' \in BOOLEAN
         /\ ~failed' => /\ losses' = losses
                        /\ RecordOf("sandbox", "execution_completed") \in audit'
  <1>1. PICK cut \in {<<>>, <<"output_truncated">>}, left \in {<<>>, <<"execution_failed">>} :
          \/ /\ RecordAll("sandbox", <<"execution_timed_out">> \o cut \o left)
             /\ failed' = TRUE
          \/ /\ cancelled
             /\ RecordAll("sandbox", <<"execution_canceled">> \o cut \o left)
             /\ failed' = TRUE
          \/ /\ ~cancelled
             /\ RecordAll("sandbox", cut \o <<"execution_failed">> \o left)
             /\ failed' = TRUE
          \/ /\ ~cancelled
             /\ \/ KeepAll("sandbox", cut \o <<"execution_completed">>)
                   /\ failed' = FALSE
                \/ Lost /\ failed' = TRUE
                \/ LoseNext("sandbox", cut) /\ failed' = TRUE
    BY DEF EndCommand
  <1>2. cut \in Seq(Kinds) /\ left \in Seq(Kinds)
    BY Parts
  <1>3. ASSUME NEW first \in Seq(Kinds), NEW second \in Seq(Kinds),
               RecordAll("sandbox", first \o second \o left)
        PROVE  losses' \in Nat /\ audit \subseteq audit'
    <2>1. PICK n \in Nat : DOMAIN (first \o second \o left) = 1 .. n
      BY <1>2, KindsDomain
    <2>. QED
      BY <1>3, <2>1, RecordAllEffect
  <1>4. CASE /\ KeepAll("sandbox", cut \o <<"execution_completed">>)
             /\ failed' = FALSE
    <2>1. PICK i \in DOMAIN (cut \o <<"execution_completed">>) :
            (cut \o <<"execution_completed">>)[i] = "execution_completed"
      BY <1>2, LastOfConcat DEF Kinds
    <2>. DEFINE R == {RecordOf("sandbox", (cut \o <<"execution_completed">>)[j]) :
                        j \in DOMAIN (cut \o <<"execution_completed">>)}
    <2>2. Persist(R, 0)
      BY <1>4 DEF KeepAll
    <2>3. RecordOf("sandbox", "execution_completed") \in R
      BY <2>1
    <2>. HIDE DEF R
    <2>4. losses' = losses /\ audit \subseteq audit' /\ R \subseteq audit'
      BY <2>2, PersistEffect
    <2>. QED
      BY <1>4, <2>3, <2>4
  <1>5. CASE Lost /\ failed' = TRUE
    BY <1>5, LostEffect
  <1>6. CASE LoseNext("sandbox", cut) /\ failed' = TRUE
    BY <1>6, PersistEffect DEF LoseNext
  <1>. QED
    BY <1>1, <1>2, <1>3, <1>4, <1>5, <1>6, Parts
-----------------------------------------------------------------------------
(* Types, the place in the turn, and the token account.                    *)

LEMMA AnswerType ==
  ASSUME TypeOK, InTurn, Invoking
  PROVE  /\ [role |-> "tool", id |-> Call.id, at |-> At] \in Messages
         /\ At \in Nat \X Nat
  <1>1. calls[next] \in Calls
    BY DEF TypeOK, InTurn
  <1>2. Call.id \in {1, 2}
    BY <1>1 DEF Call, Calls
  <1>3. At \in Nat \X Nat
    BY DEF At, TypeOK
  <1>. QED
    BY <1>2, <1>3 DEF Messages

LEMMA TypeInit == Init => TypeOK /\ InTurn /\ Account
  <1>1. Init => TypeOK
    <2>. SUFFICES ASSUME Init PROVE TypeOK
      OBVIOUS
    <2>1. /\ pc = "start" /\ turn = 0 /\ next = 0 /\ losses = 0 /\ spent = 0
          /\ usage = NoUsage /\ failed = FALSE /\ result = "none"
          /\ calls = <<>> /\ messages = <<>> /\ effects = <<>>
      BY Zenon DEF Init
    <2>2. remaining \in Int /\ NoUsage \in Int
      BY CodingAgentAssumption DEF Init, NoUsage
    <2>3. calls \in Seq(Calls) /\ messages \in Seq(Messages) /\ effects \in Seq(Nat \X Nat)
      BY <2>1
    <2>4. turn \in Nat /\ next \in Nat /\ losses \in Nat /\ spent \in Int
      BY <2>1
    <2>. QED
      BY <2>1, <2>2, <2>3, <2>4 DEF TypeOK
  <1>2. Init => InTurn
    BY DEF Init, InTurn, Invoking
  <1>3. Init => Account
    BY CodingAgentAssumption DEF Init, Account
  <1>. QED
    BY <1>1, <1>2, <1>3

LEMMA TypeStep == TypeOK /\ InTurn /\ [Next]_vars => TypeOK'
  <1>. SUFFICES ASSUME TypeOK, InTurn, [Next]_vars PROVE TypeOK'
    OBVIOUS
  <1>1. CASE Start
    BY <1>1 DEF Start, Goto, Return, TypeOK, books, stream, trail
  <1>2. CASE Stop
    BY <1>2 DEF Stop, Return, TypeOK, books, stream, trail
  <1>3. CASE BeginTurn
    BY <1>3 DEF BeginTurn, Goto, Return, TypeOK, trail, NoUsage
  <1>4. CASE Recv
    <2>0. \/ usage' = usage /\ \E call \in Calls : calls' = Append(calls, call)
          \/ usage' \in Totals /\ calls' = calls
      BY <1>4 DEF Recv
    <2>1. calls' \in Seq(Calls) /\ usage' \in Int
      <3>1. \A call \in Calls : Append(calls, call) \in Seq(Calls)
        BY DEF TypeOK
      <3>2. Totals \subseteq Int
        BY CodingAgentAssumption
      <3>. QED
        BY <2>0, <3>1, <3>2 DEF TypeOK
    <2>. QED
      BY <1>4, <2>1 DEF Recv, TypeOK, books, trail
  <1>5. CASE Interrupt
    BY <1>5 DEF Interrupt, Return, TypeOK, books, stream, trail
  <1>6. CASE Collect
    BY <1>6 DEF Collect, Goto, TypeOK, books, stream, trail
  <1>7. CASE Settle
    <2>1. [role |-> "assistant", calls |-> calls] \in Messages
      BY DEF TypeOK, Messages
    <2>2. messages' \in Seq(Messages)
      <3>. DEFINE m == [role |-> "assistant", calls |-> calls]
      <3>1. messages' = messages \/ messages' = Append(messages, m)
        BY <1>7 DEF Settle
      <3>2. m \in Messages /\ messages \in Seq(Messages)
        BY <2>1 DEF TypeOK
      <3>. HIDE DEF m
      <3>. QED
        BY <3>1, <3>2
    <2>3. spent' \in Int /\ remaining' \in Int /\ next' \in Nat
      BY <1>7 DEF Settle, TypeOK
    <2>4. pc' \in {"done", "invoke"} /\ (result' = "ok" => pc' = "done")
      BY <1>7 DEF Settle, Goto, Return, TypeOK
    <2>. QED
      BY <1>7, <2>2, <2>3, <2>4 DEF Settle, TypeOK, stream, trail
  <1>8. CASE Refuse
    <2>1. losses' \in Nat
      BY <1>8, RecordEffect DEF Refuse, TypeOK
    <2>. QED
      BY <1>8, <2>1 DEF Refuse, Return, TypeOK, books, stream
  <1>9. CASE Allow
    <2>1. losses' \in Nat
      BY <1>9, KeptEffect, LostEffect DEF Allow, TypeOK
    <2>. QED
      BY <1>9, <2>1 DEF Allow, Goto, Return, TypeOK, books, stream
  <1>10. CASE NotStarted
    <2>1. losses' \in Nat
      BY <1>10, RecordEffect DEF NotStarted, TypeOK
    <2>. QED
      BY <1>10, <2>1 DEF NotStarted, Goto, TypeOK, books, stream
  <1>11. CASE StartCommand
    <2>1. effects' \in Seq(Nat \X Nat)
      BY <1>11 DEF StartCommand, TypeOK, At
    <2>. QED
      BY <1>11, <2>1 DEF StartCommand, Goto, TypeOK, books, stream, trail
  <1>12. CASE EndCommand
    <2>1. losses' \in Nat /\ failed' \in BOOLEAN
      BY <1>12, EndCommandEffect DEF TypeOK
    <2>. QED
      BY <1>12, <2>1 DEF EndCommand, Goto, TypeOK, books, stream
  <1>13. CASE Respond
    <2>1. losses' \in Nat
      BY <1>13, KeptEffect DEF Respond, TypeOK
    <2>2. messages' \in Seq(Messages)
      BY <1>13, AnswerType, AppendFacts DEF Respond, Answer, TypeOK, Invoking
    <2>3. next' \in Nat /\ pc' \in {"turn", "invoke"} /\ result' = result
      BY <1>13 DEF Respond, Answer, Goto, TypeOK
    <2>. QED
      BY <1>13, <2>1, <2>2, <2>3 DEF Respond, TypeOK, books, stream
  <1>14. CASE Abort
    <2>1. losses' \in Nat
      BY <1>14, RecordEffect, LostEffect DEF Abort, TypeOK
    <2>. QED
      BY <1>14, <2>1 DEF Abort, Return, TypeOK, books, stream
  <1>15. CASE Cancel
    BY <1>15 DEF Cancel, TypeOK, books, stream, trail
  <1>16. CASE UNCHANGED vars
    BY <1>16 DEF vars, TypeOK
  <1>. QED
    BY <1>1, <1>2, <1>3, <1>4, <1>5, <1>6, <1>7, <1>8, <1>9, <1>10, <1>11, <1>12,
       <1>13, <1>14, <1>15, <1>16 DEF Next

LEMMA InTurnStep == TypeOK /\ InTurn /\ [Next]_vars => InTurn'
  <1>. SUFFICES ASSUME TypeOK, InTurn, [Next]_vars, Invoking'
                PROVE  next' \in 1 .. Len(calls')
    BY DEF InTurn
  <1>1. CASE Settle
    <2>1. next' = 1 /\ calls' = calls /\ calls # <<>>
      BY <1>1 DEF Settle, Goto, Return, Invoking, stream
    <2>. QED
      BY <2>1 DEF TypeOK
  <1>2. CASE Respond
    <2>1. next' = next + 1 /\ calls' = calls /\ next # Len(calls)
      BY <1>2 DEF Respond, Answer, Goto, Invoking, stream
    <2>2. next \in 1 .. Len(calls)
      BY <1>2 DEF InTurn, Invoking, Respond
    <2>. QED
      BY <2>1, <2>2 DEF TypeOK
  <1>3. CASE ~Settle /\ ~Respond
    <2>1. Invoking /\ next' = next /\ calls' = calls
      BY <1>3 DEF Next, Start, Stop, BeginTurn, Recv, Interrupt, Collect, Refuse, Allow,
        NotStarted, StartCommand, EndCommand, Abort, Cancel, Goto, Return, Invoking,
        vars, stream
    <2>. QED
      BY <2>1 DEF InTurn
  <1>. QED
    BY <1>1, <1>2, <1>3

LEMMA AccountStep == TypeOK /\ Account /\ [Next]_vars => Account'
  <1>. SUFFICES ASSUME TypeOK, Account, [Next]_vars PROVE Account'
    OBVIOUS
  <1>1. CASE Settle
    <2>1. spent' = spent + usage /\ remaining' = remaining - usage
      BY <1>1 DEF Settle
    <2>2. spent' + remaining' = TokenLimit
      BY <2>1, CodingAgentAssumption DEF TypeOK, Account
    <2>3. pc' # "done" \/ result' = "ok" => remaining' >= 0
      BY <1>1, <2>1 DEF Settle, Affordable, Return, Goto
    <2>. QED
      BY <2>2, <2>3 DEF Account
  <1>2. CASE ~Settle
    <2>1. spent' = spent /\ remaining' = remaining
      BY <1>2 DEF Next, Start, Stop, BeginTurn, Recv, Interrupt, Collect, Refuse, Allow,
        NotStarted, StartCommand, EndCommand, Respond, Abort, Cancel, vars, books
    <2>2. pc' # "done" \/ result' = "ok" => pc # "done" \/ result = "ok"
      BY <1>2 DEF Next, Start, Stop, BeginTurn, Recv, Interrupt, Collect, Refuse, Allow,
        NotStarted, StartCommand, EndCommand, Respond, Answer, Abort, Cancel, vars,
        Goto, Return
    <2>. QED
      BY <2>1, <2>2 DEF Account
  <1>. QED
    BY <1>1, <1>2

(* Run keeps its types and its token account (what is left and what was    *)
(* spent add up to the budget), and invokes only calls of its turn.        *)
THEOREM AgentTypes == Spec => [](TypeOK /\ InTurn /\ Account)
  <1>1. TypeOK /\ InTurn /\ Account /\ [Next]_vars => (TypeOK /\ InTurn /\ Account)'
    BY TypeStep, InTurnStep, AccountStep
  <1>. QED
    BY <1>1, TypeInit, PTL DEF Spec

(* WithinBudget: no tool runs for, and no result comes from, a turn that   *)
(* takes the run over its token budget, whatever totals the streams report *)
(* and in however many turns.                                              *)
THEOREM BudgetIsKept == Spec => []WithinBudget
  <1>1. TypeOK /\ Account => WithinBudget
    BY CodingAgentAssumption DEF TypeOK, Account, WithinBudget
  <1>. QED
    BY <1>1, AgentTypes, PTL

-----------------------------------------------------------------------------
(* The audit trail.                                                        *)

(* Between two audit-dependent steps, the record the next one relies on is *)
(* there; after a loss only the report of the failed call is left to do.   *)
Trail ==
  /\ losses > 0 => (pc = "done" /\ result # "ok") \/ (pc = "report" /\ failed)
  /\ pc = "execute" => Recorded("policy", "policy_allowed", At)
  /\ pc = "report" /\ ~failed => Recorded("sandbox", "execution_completed", At)
  /\ EffectsOnRecord

(* What a message appended to the transcript adds to its answers.          *)
LEMMA AnswersAppend ==
  ASSUME messages \in Seq(Messages), NEW m \in Messages, messages' = Append(messages, m)
  PROVE  /\ Len(messages) \in Nat /\ Len(messages') = Len(messages) + 1
         /\ DOMAIN messages = 1 .. Len(messages) /\ DOMAIN messages' = 1 .. Len(messages) + 1
         /\ \A k \in Answers : k \in 1 .. Len(messages) /\ k \in Answers' /\ messages'[k] = messages[k]
         /\ \A k \in Answers' : \/ k \in Answers
                                \/ k = Len(messages) + 1 /\ m.role = "tool" /\ messages'[k] = m
         /\ m.role = "tool" => Len(messages) + 1 \in Answers'
         /\ messages'[Len(messages) + 1] = m
         /\ \A k \in 1 .. Len(messages) : messages'[k] = messages[k]
  <1>1. /\ Len(messages) \in Nat /\ Len(messages') = Len(messages) + 1
        /\ DOMAIN messages = 1 .. Len(messages) /\ DOMAIN messages' = 1 .. Len(messages) + 1
        /\ \A k \in 1 .. Len(messages) : messages'[k] = messages[k]
        /\ messages'[Len(messages) + 1] = m
    BY AppendFacts
  <1>. QED
    BY <1>1 DEF Answers

(* A record that is there stays; answers and effects are only added.       *)
LEMMA EffectsOnRecordKept ==
  ASSUME EffectsOnRecord, audit \subseteq audit',
         \A i \in DOMAIN effects' : \/ i \in DOMAIN effects /\ effects'[i] = effects[i]
                                    \/ [by |-> "policy", kind |-> "policy_allowed", at |-> effects'[i]] \in audit',
         \A k \in Answers' : \/ k \in Answers /\ messages'[k] = messages[k]
                             \/ /\ [by |-> "sandbox", kind |-> "execution_completed", at |-> messages'[k].at] \in audit'
                                /\ [by |-> "service", kind |-> "execution_completed", at |-> messages'[k].at] \in audit'
  PROVE  EffectsOnRecord'
  BY DEF EffectsOnRecord, Recorded

LEMMA TrailStep == TypeOK /\ InTurn /\ Trail /\ [Next]_vars => Trail'
  <1>. SUFFICES ASSUME TypeOK, InTurn, Trail, [Next]_vars PROVE Trail'
    OBVIOUS
  <1>. losses \in Nat /\ losses' \in Nat /\ messages \in Seq(Messages)
    BY TypeStep DEF TypeOK
  <1>1. ASSUME pc \notin {"report", "done"} PROVE losses = 0
    BY <1>1 DEF Trail
  <1>2. CASE Start \/ Stop \/ BeginTurn \/ Recv \/ Interrupt \/ Collect
    <2>1. /\ pc \notin {"report", "done"} /\ pc' \notin {"execute", "report"}
          /\ UNCHANGED <<audit, losses, effects, messages>>
      BY <1>2 DEF Start, Stop, BeginTurn, Recv, Interrupt, Collect, Goto, Return, trail
    <2>2. EffectsOnRecord'
      BY <2>1 DEF Trail, EffectsOnRecord, Recorded, Answers
    <2>. QED
      BY <1>1, <2>1, <2>2 DEF Trail
  <1>3. CASE Settle
    <2>1. /\ pc \notin {"report", "done"} /\ pc' \notin {"execute", "report"}
          /\ UNCHANGED <<audit, losses, effects>>
      BY <1>3 DEF Settle, Goto, Return, trail
    <2>. DEFINE m == [role |-> "assistant", calls |-> calls]
    <2>2. messages' = messages \/ messages' = Append(messages, m)
      BY <1>3 DEF Settle
    <2>3. m \in Messages /\ m.role # "tool"
      BY DEF TypeOK, Messages
    <2>. HIDE DEF m
    <2>4. \A k \in Answers' : k \in Answers /\ messages'[k] = messages[k]
      <3>1. CASE messages' = messages
        BY <3>1 DEF Answers
      <3>2. CASE messages' = Append(messages, m)
        BY <2>3, <3>2, AnswersAppend
      <3>. QED
        BY <2>2, <3>1, <3>2
    <2>5. EffectsOnRecord'
      BY <2>1, <2>4, EffectsOnRecordKept DEF Trail
    <2>. QED
      BY <1>1, <2>1, <2>5 DEF Trail
  <1>4. CASE Refuse
    <2>1. pc' = "done" /\ result' # "ok" /\ UNCHANGED <<effects, messages>>
      BY <1>4 DEF Refuse, Return
    <2>2. audit \subseteq audit'
      BY <1>4, RecordEffect DEF Refuse
    <2>3. EffectsOnRecord'
      BY <2>1, <2>2, EffectsOnRecordKept DEF Trail, Answers
    <2>. QED
      BY <2>1, <2>3 DEF Trail
  <1>5. CASE Allow
    <2>1. UNCHANGED <<effects, messages, turn, next>> /\ pc = "invoke"
      BY <1>5 DEF Allow, books
    <2>2. CASE Kept("policy", "policy_allowed") /\ Goto("execute")
      <3>1. losses' = losses /\ audit \subseteq audit' /\ pc' = "execute"
        BY <2>2, KeptEffect DEF Goto
      <3>2. RecordOf("policy", "policy_allowed") \in audit'
        BY <2>2, KeptEffect
      <3>3. Recorded("policy", "policy_allowed", At)'
        BY <2>1, <3>2 DEF Recorded, RecordOf, At
      <3>4. EffectsOnRecord'
        BY <2>1, <3>1, EffectsOnRecordKept DEF Trail, Answers
      <3>. QED
        BY <1>1, <2>1, <3>1, <3>3, <3>4 DEF Trail
    <2>3. CASE Lost /\ Return("refused")
      <3>1. audit \subseteq audit' /\ pc' = "done" /\ result' # "ok"
        BY <2>3, LostEffect DEF Return
      <3>2. EffectsOnRecord'
        BY <2>1, <3>1, EffectsOnRecordKept DEF Trail, Answers
      <3>. QED
        BY <3>1, <3>2 DEF Trail
    <2>. QED
      BY <1>5, <2>2, <2>3 DEF Allow
  <1>6. CASE NotStarted
    <2>1. pc' = "report" /\ failed' = TRUE /\ UNCHANGED <<effects, messages>>
      BY <1>6 DEF NotStarted, Goto
    <2>2. audit \subseteq audit'
      BY <1>6, RecordEffect DEF NotStarted
    <2>3. EffectsOnRecord'
      BY <2>1, <2>2, EffectsOnRecordKept DEF Trail, Answers
    <2>. QED
      BY <2>1, <2>3 DEF Trail
  <1>7. CASE StartCommand
    <2>1. /\ pc = "execute" /\ pc' = "running" /\ UNCHANGED <<audit, losses, messages>>
          /\ effects' = Append(effects, At) /\ effects \in Seq(Nat \X Nat) /\ At \in Nat \X Nat
      BY <1>7 DEF StartCommand, Goto, trail, TypeOK, At
    <2>2. Recorded("policy", "policy_allowed", At)'
      BY <1>7, <2>1 DEF Trail, Recorded, StartCommand, books, At
    <2>3. ASSUME NEW i \in DOMAIN effects'
          PROVE  \/ i \in DOMAIN effects /\ effects'[i] = effects[i]
                 \/ effects'[i] = At
      <3>1. /\ DOMAIN effects = 1 .. Len(effects) /\ DOMAIN effects' = 1 .. Len(effects) + 1
            /\ \A j \in 1 .. Len(effects) : effects'[j] = effects[j]
            /\ effects'[Len(effects) + 1] = At /\ Len(effects) \in Nat
        BY <2>1, AppendFacts
      <3>. QED
        BY <3>1
    <2>4. \A i \in DOMAIN effects' : \/ i \in DOMAIN effects /\ effects'[i] = effects[i]
                                     \/ [by |-> "policy", kind |-> "policy_allowed", at |-> effects'[i]] \in audit'
      BY <2>1, <2>3 DEF Recorded, Trail
    <2>5. EffectsOnRecord'
      BY <2>1, <2>4, EffectsOnRecordKept DEF Trail, Answers
    <2>. QED
      BY <1>1, <2>1, <2>5 DEF Trail
  <1>8. CASE EndCommand
    <2>1. /\ pc = "running" /\ pc' = "report" /\ UNCHANGED <<effects, messages, turn, next>>
      BY <1>8 DEF EndCommand, Goto, books
    <2>2. /\ audit \subseteq audit' /\ failed' \in BOOLEAN
          /\ ~failed' => losses' = losses
      BY <1>8, EndCommandEffect
    <2>3. ~failed' => Recorded("sandbox", "execution_completed", At)'
      BY <1>8, <2>1, EndCommandEffect DEF Recorded, RecordOf, At
    <2>4. EffectsOnRecord'
      BY <2>1, <2>2, EffectsOnRecordKept DEF Trail, Answers
    <2>. QED
      BY <1>1, <2>1, <2>2, <2>3, <2>4 DEF Trail
  <1>9. CASE Respond
    <2>. DEFINE m == [role |-> "tool", id |-> Call.id, at |-> At]
    <2>1. /\ pc = "report" /\ ~failed /\ pc' \notin {"execute", "report"}
          /\ effects' = effects /\ messages' = Append(messages, m)
      BY <1>9 DEF Respond, Answer, Goto
    <2>2. m \in Messages /\ m.at = At
      BY <2>1, AnswerType DEF Invoking
    <2>3. losses' = losses /\ audit \subseteq audit'
      BY <1>9, KeptEffect DEF Respond
    <2>4. /\ [by |-> "sandbox", kind |-> "execution_completed", at |-> m.at] \in audit'
          /\ [by |-> "service", kind |-> "execution_completed", at |-> m.at] \in audit'
      <3>1. RecordOf("service", "execution_completed") \in audit'
        BY <1>9, KeptEffect DEF Respond
      <3>2. RecordOf("sandbox", "execution_completed") \in audit
        BY <2>1 DEF Trail, Recorded, RecordOf
      <3>3. [by |-> "service", kind |-> "execution_completed", at |-> At] \in audit'
            /\ [by |-> "sandbox", kind |-> "execution_completed", at |-> At] \in audit'
        BY <2>3, <3>1, <3>2 DEF RecordOf
      <3>. QED
        BY <2>2, <3>3
    <2>5. EffectsOnRecord'
      <3>. HIDE DEF m
      <3>1. \A k \in Answers' : (k \in Answers /\ messages'[k] = messages[k]) \/ messages'[k] = m
        BY <2>1, <2>2, AnswersAppend
      <3>. QED
        BY <2>1, <2>3, <2>4, <3>1, EffectsOnRecordKept DEF Trail
    <2>. QED
      BY <2>1, <2>3, <2>5 DEF Trail
  <1>10. CASE Abort
    <2>1. pc' = "done" /\ result' # "ok" /\ UNCHANGED <<effects, messages>>
      BY <1>10 DEF Abort, Return
    <2>2. audit \subseteq audit'
      BY <1>10, RecordEffect, LostEffect DEF Abort
    <2>3. EffectsOnRecord'
      BY <2>1, <2>2, EffectsOnRecordKept DEF Trail, Answers
    <2>. QED
      BY <2>1, <2>3 DEF Trail
  <1>11. CASE Cancel \/ UNCHANGED vars
    <2>1. UNCHANGED <<pc, turn, next, failed, messages, audit, losses, effects, result>>
      BY <1>11 DEF Cancel, vars, books, trail
    <2>. QED
      BY <2>1 DEF Trail, EffectsOnRecord, Answers, Recorded, At
  <1>. QED
    BY <1>2, <1>3, <1>4, <1>5, <1>6, <1>7, <1>8, <1>9, <1>10, <1>11 DEF Next

(* Whatever was started or answered left its records in the audit trail.   *)
THEOREM TrailInvariant == Spec => []Trail
  <1>1. Init => Trail
    BY DEF Init, Trail, EffectsOnRecord, Answers
  <1>2. TypeOK /\ InTurn /\ Trail /\ [Next]_vars => Trail'
    BY TrailStep
  <1>. QED
    BY <1>1, <1>2, AgentTypes, PTL DEF Spec

(* EffectsOnRecord: a command is started only after its allow decision is  *)
(* on record, and an answer reaches the model only after the sandbox and   *)
(* the service have put its completion on record, whichever records fail   *)
(* to persist.                                                             *)
THEOREM EffectsAreOnRecord == Spec => []EffectsOnRecord
  BY TrailInvariant, PTL DEF Trail

(* LostAuditStops: once a record is lost no further command is started and *)
(* the run does not succeed.                                               *)
THEOREM LossStopsTheRun == Spec => LostAuditStops
  <1>1. TypeOK /\ Trail /\ [Next]_vars =>
          [losses > 0 => effects' = effects /\ result' # "ok"]_vars
    <2>. SUFFICES ASSUME TypeOK, Trail, [Next]_vars, losses > 0
                  PROVE  (effects' = effects /\ result' # "ok") \/ UNCHANGED vars
      OBVIOUS
    <2>1. (pc = "done" /\ result # "ok") \/ (pc = "report" /\ failed)
      BY DEF Trail
    <2>2. Abort \/ Cancel \/ UNCHANGED vars
      BY <2>1 DEF Next, Start, Stop, BeginTurn, Recv, Interrupt, Collect, Settle, Refuse,
        Allow, NotStarted, StartCommand, EndCommand, Respond
    <2>. QED
      BY <2>1, <2>2 DEF Abort, Cancel, Return, TypeOK
  <1>. QED
    BY <1>1, TrailInvariant, AgentTypes, PTL DEF LostAuditStops, Spec

-----------------------------------------------------------------------------
(* The order of commands and answers.                                      *)

AllAnswered == \A i \in DOMAIN effects : effects[i] \in AnsweredAt

(* Commands and answers so far are in order, and every command but the     *)
(* last is answered.                                                       *)
Ordered ==
  /\ \A i, j \in DOMAIN effects : i < j => Earlier(effects[i], effects[j])
  /\ \A k, l \in Answers : k < l => Earlier(messages[k].at, messages[l].at)
  /\ AnsweredAt \subseteq {effects[i] : i \in DOMAIN effects}
  /\ \A i \in DOMAIN effects : effects[i] \in AnsweredAt \/ i = Len(effects)

(* Where Run is, relative to the commands it has started: past all of them *)
(* and their answers, or at the last of them, whose answer is due.         *)
Place ==
  /\ pc \notin {"running", "report", "done"} \/ result = "ok" => AllAnswered
  /\ \A i \in DOMAIN effects : effects[i][1] <= turn
  /\ pc \in {"stream", "tool_calls", "stop"} => \A i \in DOMAIN effects : effects[i][1] < turn
  /\ pc \in {"invoke", "execute"} => \A i \in DOMAIN effects : Earlier(effects[i], At)
  /\ pc = "running" \/ (pc = "report" /\ ~failed) =>
       effects # <<>> /\ effects[Len(effects)] = At
  /\ Invoking => \A k \in Answers : Earlier(messages[k].at, At)

LEMMA OrderInit == Init => Ordered /\ Place
  BY DEF Init, Ordered, Place, AllAnswered, AnsweredAt, Answers, Invoking

LEMMA QuietOrder ==
  ASSUME Ordered, UNCHANGED <<effects, messages>>
  PROVE  Ordered' /\ AnsweredAt' = AnsweredAt /\ Answers' = Answers
         /\ (AllAnswered => AllAnswered')
  <1>1. Answers' = Answers
    BY DEF Answers
  <1>2. AnsweredAt' = AnsweredAt
    BY <1>1 DEF AnsweredAt
  <1>3. Ordered'
    BY <1>1, <1>2 DEF Ordered, Earlier
  <1>. QED
    BY <1>1, <1>2, <1>3 DEF AllAnswered

LEMMA SettleOrder ==
  ASSUME TypeOK, Ordered, Place, Settle
  PROVE  Ordered' /\ Place'
  <1>. DEFINE m == [role |-> "assistant", calls |-> calls]
  <1>1. /\ messages' = messages \/ messages' = Append(messages, m)
        /\ effects' = effects /\ turn' = turn /\ pc \in {"tool_calls", "stop"}
        /\ pc' \in {"invoke", "done"} /\ next' = 1
    BY DEF Settle, Goto, Return
  <1>2. m \in Messages /\ m.role # "tool" /\ messages \in Seq(Messages)
    BY DEF TypeOK, Messages
  <1>. HIDE DEF m
  <1>3. Answers' = Answers /\ \A k \in Answers : messages'[k] = messages[k]
    <2>1. CASE messages' = messages
      BY <2>1 DEF Answers
    <2>2. CASE messages' = Append(messages, m)
      BY <1>2, <2>2, AnswersAppend
    <2>. QED
      BY <1>1, <2>1, <2>2
  <1>4. AnsweredAt' = AnsweredAt
    BY <1>3 DEF AnsweredAt
  <1>5. Ordered'
    BY <1>1, <1>3, <1>4 DEF Ordered, Earlier
  <1>6. AllAnswered /\ AllAnswered'
    BY <1>1, <1>4 DEF Place, AllAnswered
  <1>7. effects \in Seq(Nat \X Nat) /\ turn \in Nat /\ At' = <<turn, 1>>
    BY <1>1 DEF TypeOK, At
  <1>8. \A i \in DOMAIN effects : effects[i][1] < turn
    BY <1>1 DEF Place
  <1>9. \A i \in DOMAIN effects : Earlier(effects[i], At')
    BY <1>7, <1>8 DEF Earlier
  <1>10. \A k \in Answers' : Earlier(messages'[k].at, At')
    BY <1>3, <1>9 DEF Ordered, AnsweredAt
  <1>. QED
    BY <1>1, <1>5, <1>6, <1>7, <1>8, <1>9, <1>10 DEF Place, Earlier

LEMMA StartOrder ==
  ASSUME TypeOK, Ordered, Place, StartCommand
  PROVE  Ordered' /\ Place'
  <1>1. /\ effects' = Append(effects, At) /\ pc = "execute" /\ pc' = "running"
        /\ UNCHANGED <<messages, turn, next, result>>
    BY DEF StartCommand, Goto, books
  <1>2. effects \in Seq(Nat \X Nat) /\ At \in Nat \X Nat /\ At' = At /\ turn \in Nat /\ At[1] = turn
    BY <1>1 DEF TypeOK, At
  <1>3. Answers' = Answers /\ AnsweredAt' = AnsweredAt /\ AllAnswered
    BY <1>1 DEF Answers, AnsweredAt, Place
  <1>4. /\ Len(effects) \in Nat /\ DOMAIN effects = 1 .. Len(effects)
        /\ Len(effects') = Len(effects) + 1 /\ DOMAIN effects' = 1 .. Len(effects) + 1
        /\ \A i \in 1 .. Len(effects) : effects'[i] = effects[i]
        /\ effects'[Len(effects) + 1] = At
    BY <1>1, <1>2, AppendFacts
  <1>5. \A i \in DOMAIN effects : Earlier(effects[i], At) /\ effects[i][1] <= turn
    BY <1>1 DEF Place
  <1>6. \A i, j \in DOMAIN effects' : i < j => Earlier(effects'[i], effects'[j])
    <2>. SUFFICES ASSUME NEW i \in 1 .. Len(effects) + 1, NEW j \in 1 .. Len(effects) + 1, i < j
                  PROVE  Earlier(effects'[i], effects'[j])
      BY <1>4
    <2>1. i \in DOMAIN effects /\ effects'[i] = effects[i]
      BY <1>4
    <2>2. CASE j \in DOMAIN effects
      <3>1. Earlier(effects[i], effects[j])
        BY <2>1, <2>2 DEF Ordered
      <3>. QED
        BY <1>4, <2>1, <2>2, <3>1
    <2>3. CASE j = Len(effects) + 1
      <3>1. Earlier(effects[i], At)
        BY <1>5, <2>1
      <3>. QED
        BY <1>4, <2>1, <2>3, <3>1
    <2>. QED
      BY <1>4, <2>2, <2>3
  <1>7. AnsweredAt' \subseteq {effects'[i] : i \in DOMAIN effects'}
    BY <1>3, <1>4 DEF Ordered
  <1>8. \A i \in DOMAIN effects' : effects'[i] \in AnsweredAt' \/ i = Len(effects')
    BY <1>3, <1>4 DEF AllAnswered
  <1>9. Ordered'
    <2>1. \A k, l \in Answers' : k < l => Earlier(messages'[k].at, messages'[l].at)
      BY <1>1, <1>3 DEF Ordered
    <2>. QED
      BY <1>6, <1>7, <1>8, <2>1 DEF Ordered, Earlier
  <1>10. \A i \in DOMAIN effects' : effects'[i][1] <= turn'
    BY <1>1, <1>2, <1>4, <1>5
  <1>11. \A k \in Answers' : Earlier(messages'[k].at, At')
    BY <1>1, <1>2, <1>3 DEF Place, Invoking
  <1>12. effects' # <<>> /\ effects'[Len(effects')] = At'
    BY <1>1, <1>2, <1>4
  <1>13. result' # "ok"
    BY <1>1 DEF TypeOK
  <1>. QED
    BY <1>1, <1>9, <1>10, <1>11, <1>12, <1>13 DEF Place, Earlier

LEMMA EarlierTransitive ==
  ASSUME NEW a \in Nat \X Nat, NEW b \in Nat \X Nat, NEW c \in Nat \X Nat,
         Earlier(a, b), Earlier(b, c)
  PROVE  Earlier(a, c)
  BY DEF Earlier

LEMMA RespondOrder ==
  ASSUME TypeOK, InTurn, Ordered, Place, Respond
  PROVE  Ordered' /\ Place'
  <1>. DEFINE m == [role |-> "tool", id |-> Call.id, at |-> At]
              last == Len(effects)
              new == Len(messages) + 1
  <1>1. /\ pc = "report" /\ ~failed /\ pc' \in {"invoke", "turn"}
        /\ effects' = effects /\ messages' = Append(messages, m)
        /\ turn' = turn /\ next' = next + 1 /\ result' = result
    BY DEF Respond, Answer, Goto, books
  <1>2. m \in Messages /\ m.at = At /\ m.role = "tool" /\ At \in Nat \X Nat
    BY <1>1, AnswerType DEF Invoking
  <1>3. messages \in Seq(Messages) /\ effects \in Seq(Nat \X Nat) /\ turn \in Nat /\ next \in Nat
    BY DEF TypeOK
  <1>4. effects # <<>> /\ effects[last] = At
    BY <1>1 DEF Place
  <1>. HIDE DEF m
  <1>5. /\ Len(messages) \in Nat
        /\ \A k \in Answers : k \in 1 .. Len(messages) /\ k \in Answers' /\ messages'[k] = messages[k]
        /\ \A k \in Answers' : k \in Answers \/ k = new
        /\ new \in Answers' /\ messages'[new].at = At
    BY <1>1, <1>2, <1>3, AnswersAppend
  <1>6. AnsweredAt' = AnsweredAt \cup {At}
    <2>1. ASSUME NEW x \in AnsweredAt' PROVE x \in AnsweredAt \cup {At}
      <3>1. PICK k \in Answers' : x = messages'[k].at
        BY <2>1 DEF AnsweredAt
      <3>. QED
        BY <1>5, <3>1 DEF AnsweredAt
    <2>2. ASSUME NEW x \in AnsweredAt PROVE x \in AnsweredAt'
      <3>1. PICK k \in Answers : x = messages[k].at
        BY <2>2 DEF AnsweredAt
      <3>. QED
        BY <1>5, <3>1 DEF AnsweredAt
    <2>3. At \in AnsweredAt'
      BY <1>5 DEF AnsweredAt
    <2>. QED
      BY <2>1, <2>2, <2>3
  <1>7. \A k \in Answers : Earlier(messages[k].at, At)
    BY <1>1 DEF Place, Invoking
  <1>8. \A k, l \in Answers' : k < l => Earlier(messages'[k].at, messages'[l].at)
    <2>. SUFFICES ASSUME NEW k \in Answers', NEW l \in Answers', k < l
                  PROVE  Earlier(messages'[k].at, messages'[l].at)
      OBVIOUS
    <2>1. k \in Answers /\ messages'[k].at = messages[k].at
      BY <1>5
    <2>2. CASE l \in Answers
      <3>1. Earlier(messages[k].at, messages[l].at)
        BY <2>1, <2>2 DEF Ordered
      <3>. QED
        BY <1>5, <2>1, <2>2, <3>1
    <2>3. CASE l = new
      BY <1>5, <1>7, <2>1, <2>3
    <2>. QED
      BY <1>5, <2>2, <2>3
  <1>9. last \in DOMAIN effects
    BY <1>3, <1>4
  <1>10. AllAnswered'
    BY <1>1, <1>4, <1>6 DEF Ordered, AllAnswered
  <1>11. Ordered'
    <2>1. AnsweredAt' \subseteq {effects'[i] : i \in DOMAIN effects'}
      BY <1>1, <1>4, <1>6, <1>9 DEF Ordered
    <2>2. \A i, j \in DOMAIN effects' : i < j => Earlier(effects'[i], effects'[j])
      BY <1>1 DEF Ordered
    <2>3. \A i \in DOMAIN effects' : effects'[i] \in AnsweredAt' \/ i = Len(effects')
      BY <1>10 DEF AllAnswered
    <2>. QED
      BY <1>8, <2>1, <2>2, <2>3 DEF Ordered, Earlier
  <1>12. At' = <<turn, next + 1>> /\ At' \in Nat \X Nat /\ Earlier(At, At')
    BY <1>1, <1>3 DEF At, Earlier
  <1>13. \A i \in DOMAIN effects' : Earlier(effects'[i], At')
    <2>. SUFFICES ASSUME NEW i \in DOMAIN effects PROVE Earlier(effects[i], At')
      BY <1>1
    <2>1. effects[i] \in Nat \X Nat /\ i \in 1 .. last /\ last \in Nat
      BY <1>3
    <2>2. CASE i = last
      BY <1>4, <1>12, <2>2
    <2>3. CASE i # last
      <3>1. Earlier(effects[i], effects[last])
        BY <1>9, <2>1, <2>3 DEF Ordered
      <3>. QED
        BY <1>2, <1>4, <1>12, <2>1, <3>1, EarlierTransitive
    <2>. QED
      BY <2>2, <2>3
  <1>14. \A k \in Answers' : Earlier(messages'[k].at, At')
    <2>. SUFFICES ASSUME NEW k \in Answers' PROVE Earlier(messages'[k].at, At')
      OBVIOUS
    <2>1. messages'[k].at \in AnsweredAt'
      BY DEF AnsweredAt
    <2>2. PICK i \in DOMAIN effects' : messages'[k].at = effects'[i]
      BY <1>11, <2>1 DEF Ordered
    <2>. QED
      BY <1>13, <2>2
  <1>15. \A i \in DOMAIN effects' : effects'[i][1] <= turn'
    BY <1>1 DEF Place
  <1>. QED
    BY <1>1, <1>10, <1>11, <1>13, <1>14, <1>15 DEF Place, Earlier

(* The other actions start nothing and answer nothing.                     *)
QuietActions ==
  \/ Start \/ Stop \/ BeginTurn \/ Recv \/ Interrupt \/ Collect \/ Refuse \/ Allow
  \/ NotStarted \/ EndCommand \/ Abort \/ Cancel \/ UNCHANGED vars

LEMMA QuietPlace ==
  ASSUME TypeOK, Ordered, Place, QuietActions
  PROVE  Ordered' /\ Place'
  <1>1. UNCHANGED <<effects, messages>>
    BY DEF QuietActions, Start, Stop, BeginTurn, Recv, Interrupt, Collect, Refuse, Allow,
      NotStarted, EndCommand, Abort, Cancel, vars
  <1>2. /\ Ordered' /\ AnsweredAt' = AnsweredAt /\ Answers' = Answers
        /\ AllAnswered => AllAnswered'
    BY <1>1, QuietOrder
  <1>3. effects \in Seq(Nat \X Nat) /\ turn \in Nat
    BY DEF TypeOK
  <1>4. CASE BeginTurn
    <2>1. turn' = turn + 1 /\ pc = "turn" /\ pc' \in {"stream", "done"} /\ result' # "ok"
      BY <1>4 DEF BeginTurn, Goto, Return, TypeOK
    <2>2. \A i \in DOMAIN effects : effects[i][1] <= turn /\ effects[i][1] \in Nat
      BY <1>3 DEF Place
    <2>3. \A i \in DOMAIN effects' : effects'[i][1] <= turn' /\ effects'[i][1] < turn'
      BY <1>1, <1>3, <2>1, <2>2
    <2>4. AllAnswered'
      BY <1>2, <2>1 DEF Place
    <2>. QED
      BY <1>2, <2>1, <2>3, <2>4 DEF Place, Invoking
  <1>5. CASE ~BeginTurn
    <2>1. At' = At /\ turn' = turn
      BY <1>5 DEF QuietActions, Start, Stop, Recv, Interrupt, Collect, Refuse, Allow,
        NotStarted, EndCommand, Abort, Cancel, vars, books, At
    <2>2. /\ pc' \in {"stream", "tool_calls", "stop"} => pc \in {"stream", "tool_calls", "stop"}
          /\ pc' \in {"invoke", "execute"} => pc \in {"invoke", "execute"}
          /\ Invoking' => Invoking
      BY <1>5 DEF QuietActions, Start, Stop, Recv, Interrupt, Collect, Refuse, Allow,
        NotStarted, EndCommand, Abort, Cancel, vars, Goto, Return, Invoking
    <2>3. /\ pc' = "running" => pc = "running"
          /\ pc' = "report" /\ ~failed' => pc = "running" \/ (pc = "report" /\ ~failed)
      <3>1. EndCommand => pc = "running" /\ pc' = "report"
        BY DEF EndCommand, Goto
      <3>2. NotStarted => failed' = TRUE /\ pc' = "report"
        BY DEF NotStarted, Goto
      <3>3. Start \/ Stop \/ Interrupt \/ Collect \/ Refuse \/ Allow \/ Abort =>
              pc' \notin {"running", "report"}
        BY DEF Start, Stop, Interrupt, Collect, Refuse, Allow, Abort, Goto, Return
      <3>4. Recv \/ Cancel \/ UNCHANGED vars => UNCHANGED <<pc, failed>>
        BY DEF Recv, Cancel, vars
      <3>. QED
        BY <1>5, <3>1, <3>2, <3>3, <3>4 DEF QuietActions
    <2>4. pc' \notin {"running", "report", "done"} \/ result' = "ok" =>
            pc \notin {"running", "report", "done"} \/ result = "ok"
      BY <1>5 DEF QuietActions, Start, Stop, Recv, Interrupt, Collect, Refuse, Allow,
        NotStarted, EndCommand, Abort, Cancel, vars, Goto, Return
    <2>. QED
      BY <1>1, <1>2, <2>1, <2>2, <2>3, <2>4 DEF Place, Earlier
  <1>. QED
    BY <1>4, <1>5

(* Commands and answers are in the order of the turns and of their calls.  *)
THEOREM OrderInvariant == Spec => [](Ordered /\ Place)
  <1>1. TypeOK /\ InTurn /\ Ordered /\ Place /\ [Next]_vars => Ordered' /\ Place'
    BY SettleOrder, StartOrder, RespondOrder, QuietPlace DEF Next, QuietActions
  <1>. QED
    BY <1>1, OrderInit, AgentTypes, PTL DEF Spec

(* TranscriptTellsEffects: no command is started twice, the answers are to *)
(* started commands, once each and in their order, and only the last       *)
(* command may be unanswered, in a transcript of any length.               *)
THEOREM TranscriptIsTrue == Spec => []TranscriptTellsEffects
  <1>1. TypeOK /\ Ordered /\ Place => TranscriptTellsEffects
    BY DEF TypeOK, Ordered, Place, AllAnswered, TranscriptTellsEffects
  <1>. QED
    BY <1>1, OrderInvariant, AgentTypes, PTL

-----------------------------------------------------------------------------
(* The shape of the transcript.                                            *)

(* The calls of the assistant message at k are answered, and the next      *)
(* message after the answers, if there is one, is an assistant's.          *)
Complete(ms, k) ==
  /\ k + Len(ms[k].calls) <= Len(ms)
  /\ \A i \in DOMAIN ms[k].calls :
       /\ ms[k + i].role = "tool"
       /\ ms[k + i].id = ms[k].calls[i].id
  /\ k + Len(ms[k].calls) < Len(ms) =>
       ms[k + Len(ms[k].calls) + 1].role = "assistant"

(* The assistant message whose calls are being invoked.                    *)
Asking == Len(messages) - next + 1

Shape ==
  /\ ~Invoking /\ (pc # "done" \/ result = "ok") =>
       \A k \in DOMAIN messages : messages[k].role = "assistant" => Complete(messages, k)
  /\ Invoking =>
       /\ Asking >= 1
       /\ messages[Asking].role = "assistant" /\ messages[Asking].calls = calls
       /\ \A i \in 1 .. next - 1 : /\ messages[Asking + i].role = "tool"
                                   /\ messages[Asking + i].id = calls[i].id
       /\ \A k \in DOMAIN messages :
            messages[k].role = "assistant" /\ k # Asking =>
              Complete(messages, k) /\ k + Len(messages[k].calls) < Asking

LEMMA AssistantCalls ==
  ASSUME messages \in Seq(Messages), NEW k \in DOMAIN messages,
         messages[k].role = "assistant"
  PROVE  /\ messages[k].calls \in Seq(Calls) /\ Len(messages[k].calls) \in Nat
         /\ DOMAIN messages[k].calls = 1 .. Len(messages[k].calls)
  <1>1. messages[k] \in Messages
    OBVIOUS
  <1>2. messages[k].calls \in Seq(Calls)
    BY <1>1 DEF Messages
  <1>. QED
    BY <1>2

LEMMA CompleteAppend ==
  ASSUME messages \in Seq(Messages), NEW m \in Messages, messages' = Append(messages, m),
         NEW k \in DOMAIN messages, messages[k].role = "assistant", Complete(messages, k),
         k + Len(messages[k].calls) < Len(messages) \/ m.role = "assistant"
  PROVE  Complete(messages', k)
  <1>. DEFINE asked == messages[k].calls
              n == Len(asked)
              size == Len(messages)
  <1>1. /\ size \in Nat /\ Len(messages') = size + 1
        /\ k \in 1 .. size /\ messages'[size + 1] = m
        /\ \A j \in 1 .. size : messages'[j] = messages[j]
    BY AnswersAppend
  <1>2. n \in Nat /\ DOMAIN asked = 1 .. n
    BY AssistantCalls
  <1>3. k + n <= size
    BY DEF Complete
  <1>4. k + n < size => messages[k + n + 1].role = "assistant"
    BY DEF Complete
  <1>5. \A i \in DOMAIN asked : messages[k + i].role = "tool" /\ messages[k + i].id = asked[i].id
    BY DEF Complete
  <1>6. messages'[k].calls = asked
    BY <1>1
  <1>7. k + n < size \/ m.role = "assistant"
    OBVIOUS
  <1>. HIDE DEF asked, n, size
  <1>8. ASSUME NEW i \in 1 .. n PROVE messages'[k + i] = messages[k + i]
    <2>1. k + i \in 1 .. size
      BY <1>1, <1>2, <1>3
    <2>. QED
      BY <1>1, <2>1
  <1>9. messages'[k + n + 1].role = "assistant"
    <2>1. CASE k + n < size
      <3>1. k + n + 1 \in 1 .. size
        BY <1>1, <1>2, <2>1
      <3>. QED
        BY <1>1, <1>4, <2>1, <3>1
    <2>2. CASE k + n = size
      BY <1>1, <1>7, <2>2
    <2>3. k + n \in Int /\ size \in Int
      BY <1>1, <1>2
    <2>4. k + n < size \/ k + n = size
      BY <1>3, <2>3
    <2>. QED
      BY <2>1, <2>2, <2>4
  <1>10. \A i \in DOMAIN asked : messages'[k + i].role = "tool" /\ messages'[k + i].id = asked[i].id
    BY <1>2, <1>5, <1>8
  <1>11. k + n <= Len(messages')
    BY <1>1, <1>2, <1>3
  <1>. QED
    BY <1>6, <1>9, <1>10, <1>11 DEF Complete, n

LEMMA SettleShape ==
  ASSUME TypeOK, Shape, Settle
  PROVE  Shape'
  <1>. DEFINE m == [role |-> "assistant", calls |-> calls]
  <1>1. \/ UNCHANGED messages /\ pc' = "done" /\ result' # "ok"
        \/ /\ messages' = Append(messages, m)
           /\ pc' = "invoke" \/ (pc' = "done" /\ (result' = "ok" => calls = <<>>))
    BY DEF Settle, Goto, Return
  <1>2. /\ m \in Messages /\ m.role = "assistant" /\ m.calls = calls
        /\ messages \in Seq(Messages) /\ calls \in Seq(Calls)
    BY DEF TypeOK, Messages
  <1>. HIDE DEF m
  <1>3. CASE pc' = "done" /\ result' # "ok"
    BY <1>3 DEF Shape, Invoking
  <1>4. CASE /\ messages' = Append(messages, m)
             /\ pc' = "invoke" \/ (pc' = "done" /\ result' = "ok" /\ calls = <<>>)
    <2>1. /\ Len(messages) \in Nat /\ Len(messages') = Len(messages) + 1
          /\ DOMAIN messages = 1 .. Len(messages)
          /\ \A j \in 1 .. Len(messages) : messages'[j] = messages[j]
          /\ messages'[Len(messages) + 1] = m
      BY <1>2, <1>4, AnswersAppend
    <2>2. DOMAIN messages' = 1 .. Len(messages) + 1
      BY <1>2, <1>4, AnswersAppend
    <2>3. \A k \in DOMAIN messages : messages[k].role = "assistant" => Complete(messages, k)
      BY DEF Shape, Settle, Invoking
    <2>4. ASSUME NEW k \in DOMAIN messages, messages'[k].role = "assistant"
          PROVE  Complete(messages', k) /\ k + Len(messages'[k].calls) < Len(messages')
      <3>1. messages[k].role = "assistant" /\ messages'[k] = messages[k] /\ Complete(messages, k)
        BY <2>1, <2>3, <2>4
      <3>2. Complete(messages', k)
        BY <1>2, <1>4, <3>1, CompleteAppend
      <3>3. k + Len(messages[k].calls) <= Len(messages) /\ Len(messages[k].calls) \in Nat
        BY <1>2, <3>1, AssistantCalls DEF Complete
      <3>. QED
        BY <2>1, <3>1, <3>2, <3>3
    <2>5. next' = 1 /\ calls' = calls
      BY DEF Settle, stream
    <2>6. CASE pc' = "invoke"
      <3>1. Asking' = Len(messages) + 1
        BY <2>1, <2>5 DEF Asking
      <3>2. /\ Asking' >= 1 /\ messages'[Asking'].role = "assistant"
            /\ messages'[Asking'].calls = calls'
        BY <1>2, <2>1, <2>5, <3>1
      <3>3. \A k \in DOMAIN messages' : messages'[k].role = "assistant" /\ k # Asking' =>
              Complete(messages', k) /\ k + Len(messages'[k].calls) < Asking'
        BY <2>1, <2>2, <2>4, <3>1
      <3>4. 1 .. next' - 1 = {}
        BY <2>5
      <3>. QED
        BY <2>6, <3>2, <3>3, <3>4 DEF Shape, Invoking
    <2>7. CASE pc' = "done" /\ calls = <<>>
      <3>1. Complete(messages', Len(messages) + 1)
        <4>1. messages'[Len(messages) + 1].calls = <<>> /\ Len(<<>>) = 0 /\ DOMAIN <<>> = {}
          BY <1>2, <2>1, <2>7
        <4>2. Len(messages) + 1 + 0 <= Len(messages') /\ ~(Len(messages) + 1 + 0 < Len(messages'))
          BY <2>1
        <4>. QED
          BY <4>1, <4>2 DEF Complete
      <3>2. \A k \in DOMAIN messages' : messages'[k].role = "assistant" => Complete(messages', k)
        BY <2>1, <2>2, <2>4, <3>1
      <3>. QED
        BY <2>7, <3>2 DEF Shape, Invoking
    <2>. QED
      BY <1>4, <2>6, <2>7
  <1>. QED
    BY <1>1, <1>3, <1>4

LEMMA RespondShape ==
  ASSUME TypeOK, InTurn, Shape, Respond
  PROVE  Shape'
  <1>. DEFINE m == [role |-> "tool", id |-> Call.id, at |-> At]
              k0 == Asking
  <1>1. /\ pc = "report" /\ Invoking /\ messages' = Append(messages, m)
        /\ next' = next + 1 /\ calls' = calls
        /\ IF next = Len(calls) THEN pc' = "turn" ELSE pc' = "invoke"
    BY DEF Respond, Answer, Goto, stream, Invoking
  <1>2. /\ m \in Messages /\ m.role = "tool" /\ m.id = calls[next].id
        /\ messages \in Seq(Messages) /\ next \in 1 .. Len(calls) /\ Len(calls) \in Nat
        /\ DOMAIN calls = 1 .. Len(calls)
    BY <1>1, AnswerType DEF TypeOK, Call, InTurn
  <1>. HIDE DEF m
  <1>3. /\ Len(messages) \in Nat /\ Len(messages') = Len(messages) + 1
        /\ DOMAIN messages = 1 .. Len(messages)
        /\ \A j \in 1 .. Len(messages) : messages'[j] = messages[j]
        /\ messages'[Len(messages) + 1] = m
    BY <1>1, <1>2, AnswersAppend
  <1>4. DOMAIN messages' = 1 .. Len(messages) + 1
    BY <1>1, <1>2, AnswersAppend
  <1>5. /\ k0 = Len(messages) - next + 1 /\ k0 \in 1 .. Len(messages)
        /\ Asking' = k0
    <2>1. k0 >= 1 /\ k0 = Len(messages) - next + 1
      BY <1>1 DEF Asking, Shape
    <2>2. Asking' = Len(messages) + 1 - (next + 1) + 1
      BY <1>1, <1>3 DEF Asking
    <2>. HIDE DEF k0
    <2>. QED
      BY <1>2, <1>3, <2>1, <2>2
  <1>6. messages'[k0] = messages[k0] /\ messages[k0].role = "assistant" /\ messages[k0].calls = calls
    BY <1>1, <1>3, <1>5 DEF Shape
  <1>7. ASSUME NEW i \in 1 .. next
        PROVE  messages'[k0 + i].role = "tool" /\ messages'[k0 + i].id = calls[i].id
    <2>1. CASE i = next
      BY <1>2, <1>3, <1>5, <2>1
    <2>2. CASE i \in 1 .. next - 1
      <3>1. messages[k0 + i].role = "tool" /\ messages[k0 + i].id = calls[i].id
        BY <1>1, <2>2 DEF Shape
      <3>2. k0 + i \in 1 .. Len(messages)
        <4>. HIDE DEF k0
        <4>1. k0 \in Int /\ k0 >= 1 /\ next \in Int
          BY <1>2, <1>5
        <4>2. k0 + next = Len(messages) + 1
          BY <1>3, <1>5, <4>1
        <4>. QED
          BY <1>3, <2>2, <4>1, <4>2
      <3>. QED
        BY <1>3, <3>1, <3>2
    <2>. QED
      BY <1>2, <2>1, <2>2
  <1>8. ASSUME NEW k \in DOMAIN messages', messages'[k].role = "assistant", k # k0
        PROVE  Complete(messages', k) /\ k + Len(messages'[k].calls) < k0
    <2>1. k \in DOMAIN messages /\ messages'[k] = messages[k]
      BY <1>2, <1>3, <1>4, <1>8
    <2>2. Complete(messages, k) /\ k + Len(messages[k].calls) < k0 /\ messages[k].role = "assistant"
      BY <1>1, <1>8, <2>1 DEF Shape
    <2>3. Len(messages[k].calls) \in Nat
      BY <1>2, <2>1, <2>2, AssistantCalls
    <2>4. k + Len(messages[k].calls) < Len(messages)
      BY <1>3, <1>5, <2>1, <2>2, <2>3
    <2>5. Complete(messages', k)
      BY <1>1, <1>2, <2>1, <2>2, <2>4, CompleteAppend
    <2>. QED
      BY <2>1, <2>2, <2>5
  <1>. HIDE DEF k0
  <1>9. CASE next = Len(calls)
    <2>1. pc' = "turn" /\ Len(messages') = k0 + Len(calls)
      BY <1>1, <1>2, <1>3, <1>5, <1>9
    <2>2. Complete(messages', k0)
      <3>1. messages'[k0].calls = calls
        BY <1>6
      <3>2. \A i \in DOMAIN calls : messages'[k0 + i].role = "tool" /\ messages'[k0 + i].id = calls[i].id
        BY <1>2, <1>7, <1>9
      <3>3. k0 + Len(calls) <= Len(messages') /\ ~(k0 + Len(calls) < Len(messages'))
        BY <1>2, <1>5, <2>1
      <3>. QED
        BY <3>1, <3>2, <3>3 DEF Complete
    <2>3. \A k \in DOMAIN messages' : messages'[k].role = "assistant" => Complete(messages', k)
      BY <1>8, <2>2
    <2>. QED
      BY <2>1, <2>3 DEF Shape, Invoking
  <1>10. CASE next # Len(calls)
    <2>1. pc' = "invoke" /\ next' - 1 = next
      <3>1. next \in Int
        BY <1>2
      <3>. QED
        BY <1>1, <1>10, <3>1
    <2>2. Asking' >= 1
      BY <1>5
    <2>3. messages'[Asking'].role = "assistant" /\ messages'[Asking'].calls = calls'
      BY <1>1, <1>5, <1>6
    <2>4. \A i \in 1 .. next' - 1 : /\ messages'[Asking' + i].role = "tool"
                                    /\ messages'[Asking' + i].id = calls'[i].id
      BY <1>1, <1>5, <1>7, <2>1
    <2>5. \A k \in DOMAIN messages' : messages'[k].role = "assistant" /\ k # Asking' =>
            Complete(messages', k) /\ k + Len(messages'[k].calls) < Asking'
      BY <1>5, <1>8
    <2>. QED
      BY <2>1, <2>2, <2>3, <2>4, <2>5 DEF Shape, Invoking
  <1>. QED
    BY <1>9, <1>10

LEMMA QuietShape ==
  ASSUME Shape, QuietActions \/ StartCommand
  PROVE  Shape'
  <1>1. messages' = messages
    BY DEF QuietActions, Start, Stop, BeginTurn, Recv, Interrupt, Collect, Refuse, Allow,
      NotStarted, EndCommand, Abort, Cancel, StartCommand, vars
  <1>2. \A k \in DOMAIN messages : Complete(messages, k) => Complete(messages', k)
    BY <1>1 DEF Complete
  <1>3. CASE Invoking'
    <2>1. Invoking /\ UNCHANGED <<next, calls>>
      BY <1>3 DEF QuietActions, Start, Stop, BeginTurn, Recv, Interrupt, Collect, Refuse,
        Allow, NotStarted, EndCommand, Abort, Cancel, StartCommand, vars, Goto, Return,
        Invoking, stream
    <2>2. Asking' = Asking
      BY <1>1, <2>1 DEF Asking
    <2>. QED
      BY <1>1, <1>2, <1>3, <2>1, <2>2 DEF Shape
  <1>4. CASE ~Invoking'
    <2>1. pc' # "done" \/ result' = "ok" => ~Invoking /\ (pc # "done" \/ result = "ok")
      BY <1>4 DEF QuietActions, Start, Stop, BeginTurn, Recv, Interrupt, Collect, Refuse,
        Allow, NotStarted, EndCommand, Abort, Cancel, StartCommand, vars, Goto, Return,
        Invoking
    <2>. QED
      BY <1>1, <1>2, <1>4, <2>1 DEF Shape
  <1>. QED
    BY <1>3, <1>4

(* The transcript is a sequence of assistant messages, each followed by    *)
(* the answers given to its calls so far.                                  *)
THEOREM ShapeInvariant == Spec => []Shape
  <1>1. Init => Shape
    BY DEF Init, Shape, Invoking
  <1>2. TypeOK /\ InTurn /\ Shape /\ [Next]_vars => Shape'
    BY SettleShape, RespondShape, QuietShape DEF Next, QuietActions
  <1>. QED
    BY <1>1, <1>2, AgentTypes, PTL DEF Spec

(* EveryCallAnswered: what the provider is shown at the start of a turn,   *)
(* and what a successful run returns, has after each assistant message the *)
(* answers to all its calls, in their order, in a transcript of any        *)
(* length.                                                                 *)
THEOREM CallsAreAnswered == Spec => []EveryCallAnswered
  <1>1. TypeOK /\ Shape => EveryCallAnswered
    BY DEF TypeOK, Shape, Invoking, Complete, EveryCallAnswered
  <1>. QED
    BY <1>1, ShapeInvariant, AgentTypes, PTL
=============================================================================
