----------------------------- MODULE CodingAgent -----------------------------
(***************************************************************************)
(* One CodingAgent.Run: model turns over a normalized stream, and the tool *)
(* calls of each turn through the Tool Service, the policy engine and the  *)
(* sandbox, every stage leaving audit records that may fail to persist.    *)
(*                                                                         *)
(* Message text, schemas and output bytes are abstracted away.  A call is  *)
(* an identifier and the first check that would refuse it ("none" if every *)
(* check admits it).  A call is located by its turn and its place in it.   *)
(***************************************************************************)
EXTENDS Integers, Sequences, FiniteSets

CONSTANTS
  TokenLimit,   \* Request.Budget.TokenLimit
  MaxTurns,     \* CodingAgent.maxTurns
  MaxCalls,     \* bound: tool calls streamed in a turn
  Totals,       \* TotalTokens a Usage event may report
  Refusals,     \* checks that may refuse a call of this run
  MaxLosses     \* bound: audit records that fail to persist

(* The checks a call meets, in the order it meets them.                    *)
StreamChecks == {"unknown", "schema"}

ServiceChecks == {"build", "path", "contract", "policy"}

ASSUME CodingAgentAssumption ==
  /\ TokenLimit \in Nat \ {0} /\ MaxTurns \in Nat \ {0}
  /\ MaxCalls \in Nat \ {0} /\ MaxLosses \in Nat
  /\ Totals \subseteq Nat
  /\ Refusals \subseteq StreamChecks \cup ServiceChecks

VARIABLES
  input,      \* the request: its adapter, its scope and whether it is complete
  pc,         \* where Run is
  turn,       \* the loop's turn
  remaining,  \* remainingTokens
  spent,      \* result.Usage.TotalTokens
  usage,      \* TotalTokens of this turn, -1 until the Usage event
  calls,      \* tool calls collected in this turn
  next,       \* the call being invoked
  failed,     \* the sandbox returned an error for that call
  messages,   \* result.Messages after the request's own
  audit,      \* the audit records that persisted
  losses,     \* audit records that did not
  effects,    \* history: the calls whose command was started
  cancelled,  \* the caller's context is cancelled
  result      \* what Run returned

vars == <<input, pc, turn, remaining, spent, usage, calls, next, failed,
          messages, audit, losses, effects, cancelled, result>>

stream == <<usage, calls>>
books == <<turn, remaining, spent>>
trail == <<audit, losses>>

NoUsage == -1

(* A call's arguments matter only for the check they fail first.           *)
Calls == [id : {1, 2}, refusedBy : Refusals \cup {"none"}]

(* The Eino adapter validates every turn's request, a recorded cassette    *)
(* does not.  A request is rejected before the first turn when it is       *)
(* incomplete or its contracts are not those of the bound service.         *)
Inputs == [adapter : {"eino", "replay"}, request : {"complete", "rejected"},
           scope : {"bound", "other"}]

Init ==
  /\ input \in Inputs
  /\ pc = "start"
  /\ turn = 0 /\ remaining = TokenLimit /\ spent = 0
  /\ usage = NoUsage /\ calls = <<>> /\ next = 0 /\ failed = FALSE
  /\ messages = <<>> /\ audit = {} /\ losses = 0 /\ effects = <<>>
  /\ cancelled = FALSE
  /\ result = "none"

-----------------------------------------------------------------------------

At == <<turn, next>>

RecordOf(by, kind) == [by |-> by, kind |-> kind, at |-> At]

(* RecordBounded: a record persists, or the caller is told it did not.     *)
Persist(records, lost) ==
  /\ losses + lost <= MaxLosses
  /\ losses' = losses + lost
  /\ audit' = audit \cup records

Kept(by, kind) == Persist({RecordOf(by, kind)}, 0)

Lost == Persist({}, 1)

Record(by, kind) == Kept(by, kind) \/ Lost

KeepAll(by, kinds) == Persist({RecordOf(by, kinds[i]) : i \in DOMAIN kinds}, 0)

(* The kinds are recorded and the record after them is lost.               *)
LoseNext(by, kinds) == Persist({RecordOf(by, kinds[i]) : i \in DOMAIN kinds}, 1)

(* Every kind is attempted, whatever became of the ones before it.         *)
RecordAll(by, kinds) ==
  \E lost \in SUBSET DOMAIN kinds :
    Persist({RecordOf(by, kinds[i]) : i \in DOMAIN kinds \ lost}, Cardinality(lost))

(* What Run returns; an error carries no result.                           *)
Return(outcome) ==
  /\ pc' = "done"
  /\ result' = outcome

Goto(place) ==
  /\ pc' = place
  /\ UNCHANGED result

-----------------------------------------------------------------------------
(* The request is validated once, before the loop.                         *)
Start ==
  /\ pc = "start"
  /\ IF input.request = "complete" THEN Goto("turn") ELSE Return("invalid")
  /\ UNCHANGED <<input, books, stream, next, failed, messages, trail, effects,
                 cancelled>>

(* The head of the loop: the turn budget, then the context.                *)
Stop ==
  /\ pc = "turn"
  /\ \/ turn = MaxTurns /\ Return("turns")
     \/ turn < MaxTurns /\ cancelled /\ Return("cancelled")
  /\ UNCHANGED <<input, books, stream, next, failed, messages, trail, effects,
                 cancelled>>

(* Reason opens a stream.  Eino refuses a request without a positive       *)
(* budget; the provider, or an exhausted cassette, may refuse any.         *)
CanOpen == input.adapter = "eino" => remaining > 0

BeginTurn ==
  /\ pc = "turn" /\ turn < MaxTurns /\ ~cancelled
  /\ turn' = turn + 1
  /\ usage' = NoUsage /\ calls' = <<>>
  /\ \/ CanOpen /\ Goto("stream")
     \/ Return("stream_error")
  /\ UNCHANGED <<input, remaining, spent, next, failed, messages, trail,
                 effects, cancelled>>

-----------------------------------------------------------------------------
(* The events of the stream.  An event that does not validate, an Error    *)
(* event, an interruption and an end before Finish all reach Collect as    *)
(* one terminal Error: the calls collected so far are dropped.             *)
UsageAccepted(total) ==
  /\ usage = NoUsage
  /\ remaining > 0 => total <= remaining

FinishAccepted == usage # NoUsage

Recv ==
  /\ pc = "stream"
  /\ \/ \E call \in Calls :
          /\ call.refusedBy \notin StreamChecks
          /\ Len(calls) < MaxCalls
          /\ calls' = Append(calls, call)
          /\ UNCHANGED usage
     \/ \E total \in Totals :
          /\ UsageAccepted(total)
          /\ usage' = total
          /\ UNCHANGED calls
  /\ UNCHANGED <<input, pc, books, next, failed, messages, trail, effects,
                 cancelled, result>>

Interrupt ==
  /\ pc = "stream"
  /\ Return("stream_error")
  /\ UNCHANGED <<input, books, stream, next, failed, messages, trail, effects,
                 cancelled>>

(* Finish ends the stream, and Collect returns the turn with its reason.   *)
Collect ==
  /\ pc = "stream"
  /\ FinishAccepted
  /\ \E reason \in {"tool_calls", "stop"} : Goto(reason)
  /\ UNCHANGED <<input, books, stream, next, failed, messages, trail, effects,
                 cancelled>>

(* Fault: the budget is only checked by the stream.                        *)
Affordable_Always(rest) == TRUE

Affordable(rest) == rest >= 0

(* After Collect: the turn is charged, and its calls are scheduled unless  *)
(* the cumulative budget is gone.                                          *)
Settle ==
  /\ pc \in {"tool_calls", "stop"}
  /\ LET rest == remaining - usage IN
       /\ spent' = spent + usage
       /\ remaining' = rest
       /\ \/ ~Affordable(rest) /\ Return("over_budget") /\ UNCHANGED messages
          \/ /\ Affordable(rest)
             /\ messages' = Append(messages, [role |-> "assistant",
                                              calls |-> calls])
             /\ CASE calls # <<>> -> Goto("invoke")
                  [] calls = <<>> /\ pc = "stop" -> Return("ok")
                  [] OTHER -> Return("invalid")
  /\ next' = 1
  /\ UNCHANGED <<input, turn, stream, failed, trail, effects, cancelled>>

-----------------------------------------------------------------------------
(* Tool Service: Invoke.  Any refusal ends the run.                        *)
Call == calls[next]

Admitted == input.scope = "bound" /\ Call.refusedBy = "none"

(* Fault: a denial that could not be recorded is skipped over.             *)
Refuse_SkipsUnrecorded ==
  /\ pc = "invoke" /\ ~Admitted /\ next < Len(calls)
  /\ Lost
  /\ next' = next + 1
  /\ UNCHANGED <<input, pc, books, stream, failed, messages, effects,
                 cancelled, result>>

Refuse ==
  /\ pc = "invoke" /\ ~Admitted
  /\ Record(IF Call.refusedBy = "policy" /\ input.scope = "bound"
              THEN "policy" ELSE "service", "policy_denied")
  /\ Return("refused")
  /\ UNCHANGED <<input, books, stream, next, failed, messages, effects,
                 cancelled>>

(* An allow decision whose audit record is lost is a denial.               *)
Allow ==
  /\ pc = "invoke" /\ Admitted
  /\ \/ Kept("policy", "policy_allowed") /\ Goto("execute")
     \/ Lost /\ Return("refused")
  /\ UNCHANGED <<input, books, stream, next, failed, messages, effects,
                 cancelled>>

(* The sandbox rejects the command or is being destroyed, sees the context *)
(* cancelled, or cannot create the container: nothing was started.         *)
NotStarted ==
  /\ pc = "execute"
  /\ \/ Record("sandbox", "policy_denied")
     \/ cancelled /\ Record("sandbox", "execution_canceled")
     \/ ~cancelled /\ Record("sandbox", "execution_failed")
  /\ failed' = TRUE
  /\ Goto("report")
  /\ UNCHANGED <<input, books, stream, next, messages, effects, cancelled>>

StartCommand ==
  /\ pc = "execute" /\ ~cancelled
  /\ effects' = Append(effects, At)
  /\ Goto("running")
  /\ UNCHANGED <<input, books, stream, next, failed, messages, trail,
                 cancelled>>

(* Fault: the sandbox reports success though its record was lost.          *)
EndCommand_TrustsAudit ==
  /\ pc = "running"
  /\ Record("sandbox", "execution_completed")
  /\ failed' = FALSE
  /\ Goto("report")
  /\ UNCHANGED <<input, books, stream, next, messages, effects, cancelled>>

(* The command ends by a deadline, a cancellation, a failure or well.      *)
(* "cut" is the record of a truncated output, "left" that of a container   *)
(* that could not be removed; a failed command and a failed removal leave  *)
(* the same record.  A command that ended well is still an error when one  *)
(* of its records is lost, and a lost truncation record is the last.       *)
EndCommand ==
  /\ pc = "running"
  /\ \E cut \in {<<>>, <<"output_truncated">>},
        left \in {<<>>, <<"execution_failed">>} :
       \/ /\ RecordAll("sandbox", <<"execution_timed_out">> \o cut \o left)
          /\ failed' = TRUE
       \/ /\ cancelled
          /\ RecordAll("sandbox", <<"execution_canceled">> \o cut \o left)
          /\ failed' = TRUE
       \/ /\ ~cancelled
          /\ RecordAll("sandbox", cut \o <<"execution_failed">> \o left)
          /\ failed' = TRUE
       \/ /\ ~cancelled
          /\ \/ KeepAll("sandbox", cut \o <<"execution_completed">>)
                /\ failed' = FALSE
             \/ Lost /\ failed' = TRUE
             \/ LoseNext("sandbox", cut) /\ failed' = TRUE
  /\ Goto("report")
  /\ UNCHANGED <<input, books, stream, next, messages, effects, cancelled>>

-----------------------------------------------------------------------------
(* Fault: the last call of a turn is left out.                             *)
Answer_OffByOne ==
  /\ messages' = Append(messages, [role |-> "tool", id |-> Call.id, at |-> At])
  /\ next' = next + 1
  /\ IF next + 1 >= Len(calls) THEN Goto("turn") ELSE Goto("invoke")

(* The rest of Invoke: the output schema, then the service's own record.   *)
(* A response reaches the transcript only if nothing failed.               *)
Answer ==
  /\ messages' = Append(messages, [role |-> "tool", id |-> Call.id, at |-> At])
  /\ next' = next + 1
  /\ IF next = Len(calls) THEN Goto("turn") ELSE Goto("invoke")

Respond ==
  /\ pc = "report" /\ ~failed
  /\ Kept("service", "execution_completed")
  /\ Answer
  /\ UNCHANGED <<input, books, stream, failed, effects, cancelled>>

(* Fault: a failed call with a complete trail is tried again.              *)
Abort_Retries ==
  /\ pc = "report" /\ losses = 0
  /\ Kept("service", "execution_failed")
  /\ Goto("invoke")
  /\ UNCHANGED <<input, books, stream, next, failed, messages, effects,
                 cancelled>>

Abort ==
  /\ pc = "report"
  /\ \/ Record("service", "execution_failed")
     \/ ~failed /\ Lost
  /\ Return("tool_error")
  /\ UNCHANGED <<input, books, stream, next, failed, messages, effects,
                 cancelled>>

(* The caller's context is cancelled, at any moment.                       *)
Cancel ==
  /\ pc # "done" /\ ~cancelled
  /\ cancelled' = TRUE
  /\ UNCHANGED <<input, pc, books, stream, next, failed, messages, trail,
                 effects, result>>

Next ==
  \/ Start \/ Stop \/ BeginTurn \/ Recv \/ Interrupt \/ Collect \/ Settle
  \/ Refuse \/ Allow \/ NotStarted \/ StartCommand \/ EndCommand
  \/ Respond \/ Abort \/ Cancel

Spec == Init /\ [][Next]_vars

-----------------------------------------------------------------------------
(* No tool runs for, and no result is returned from, a turn that takes the *)
(* run over its token budget, also when the budget was exactly used up and *)
(* the stream of the next turn no longer checks it (stream.go:130,         *)
(* coding_agent.go:81-85).                                                 *)
WithinBudget ==
  pc \in {"invoke", "execute", "running", "report", "turn"} \/ result = "ok"
    => spent <= TokenLimit

Answers == {k \in DOMAIN messages : messages[k].role = "tool"}

AnsweredAt == {messages[k].at : k \in Answers}

Earlier(a, b) == a[1] < b[1] \/ (a[1] = b[1] /\ a[2] < b[2])

(* The transcript tells the model exactly what happened: no command is     *)
(* started twice, the answers are to started commands, once each and in    *)
(* their order, and only the last command may be unanswered; a successful  *)
(* run leaves none (coding_agent.go:95-111).                               *)
TranscriptTellsEffects ==
  /\ \A i, j \in DOMAIN effects : i < j => Earlier(effects[i], effects[j])
  /\ \A k, l \in Answers : k < l => Earlier(messages[k].at, messages[l].at)
  /\ AnsweredAt \subseteq {effects[i] : i \in DOMAIN effects}
  /\ \A i \in DOMAIN effects : effects[i] \in AnsweredAt \/ i = Len(effects)
  /\ pc = "turn" \/ result = "ok" => \A i \in DOMAIN effects : effects[i] \in AnsweredAt

(* What the provider is shown at the start of a turn, and what a           *)
(* successful run returns: after each assistant message come the answers   *)
(* to its calls, all of them, in the order of the calls                    *)
(* (coding_agent.go:88-111).                                               *)
EveryCallAnswered ==
  pc = "turn" \/ result = "ok" =>
    \A k \in DOMAIN messages : messages[k].role = "assistant" =>
      LET asked == messages[k].calls IN
        /\ k + Len(asked) <= Len(messages)
        /\ \A i \in DOMAIN asked :
             /\ messages[k + i].role = "tool"
             /\ messages[k + i].id = asked[i].id
        /\ k + Len(asked) < Len(messages) =>
             messages[k + Len(asked) + 1].role = "assistant"

Recorded(by, kind, at) == [by |-> by, kind |-> kind, at |-> at] \in audit

(* A command is started only after its allow decision is on record, and an *)
(* answer reaches the model only after the sandbox and the service have    *)
(* both put its completion on record (policy.go:162-167, docker.go:560-577,*)
(* service.go:216-235).                                                    *)
EffectsOnRecord ==
  /\ \A i \in DOMAIN effects : Recorded("policy", "policy_allowed", effects[i])
  /\ \A k \in Answers :
       /\ Recorded("sandbox", "execution_completed", messages[k].at)
       /\ Recorded("service", "execution_completed", messages[k].at)

(* Audit errors are fail-closed (audit.go:67-74): once a record is lost no *)
(* further command is started and the run does not succeed.                *)
LostAuditStops ==
  [][losses > 0 => effects' = effects /\ result' # "ok"]_vars
=============================================================================
