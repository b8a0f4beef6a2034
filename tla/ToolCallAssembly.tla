-------------------------- MODULE ToolCallAssembly --------------------------
(***************************************************************************)
(* One turn of the Eino adapter: a provider streams its tool calls in      *)
(* fragments, and einoStream puts them together under keys (an index the   *)
(* provider gave, or one drawn here) until the chunk with the finish       *)
(* reason, when normalizedStream validates every call, the one Usage event *)
(* and Finish.                                                             *)
(*                                                                         *)
(* The provider is external: calls may interleave, share an index or have  *)
(* none, and repeat their ID and name in a later fragment or not.  The     *)
(* first fragment of a call has both.  Arguments are the pieces they       *)
(* consist of; text is left out.  Unknown tools, arguments that are not    *)
(* JSON and the token limit are further reasons to refuse a turn, and      *)
(* belong to CodingAgent.                                                  *)
(***************************************************************************)
EXTENDS Integers, Sequences, FiniteSets, SequencesExt

CONSTANTS
  ProviderCalls,  \* IDs of the calls the provider makes
  Tools,          \* tool names
  Indexes,        \* values of ToolCall.Index
  MaxFragments,   \* bound: fragments of a turn
  Counts,         \* token counts a chunk may report
  MaxReports      \* bound: chunks with a Usage

NoIndex == -1

FirstDrawnKey == 1000001

ASSUME AssemblyAssumption ==
  /\ "" \notin ProviderCalls \cup Tools /\ Indexes \subseteq Nat
  /\ \A i \in Indexes : i < FirstDrawnKey
  /\ MaxFragments \in Nat /\ MaxReports \in Nat /\ Counts \subseteq Nat

VARIABLES
  plan,        \* the provider's tool and index of each call
  fragments,   \* history: the fragments received
  accumulated, \* einoStream.calls
  callOrder,   \* the keys in the order they appeared
  nextKey,     \* keys drawn
  reports,     \* history: the Usage of each chunk that had one
  tokens,      \* einoStream.usage
  turnOf       \* the turn: open, refused, or the calls it delivered

assemblyVars == <<plan, fragments, accumulated, callOrder, nextKey, reports,
                  tokens, turnOf>>

Open == [state |-> "open", calls |-> <<>>]

Refused == [state |-> "refused", calls |-> <<>>]

NoTokens == [input |-> 0, output |-> 0, total |-> -1]

AssemblyInit ==
  /\ plan \in [ProviderCalls -> [tool : Tools, index : Indexes \cup {NoIndex}]]
  /\ fragments = <<>> /\ reports = <<>>
  /\ accumulated = <<>> /\ callOrder = <<>> /\ nextKey = 0
  /\ tokens = NoTokens
  /\ turnOf = Open

-----------------------------------------------------------------------------
(* The provider.                                                           *)

PiecesOf(c) == SelectSeq(fragments, LAMBDA f : f.of = c)

(* The next fragments of call c, with its ID and name or without.          *)
FragmentsOf(c) ==
  LET piece == Len(PiecesOf(c)) + 1
      Bare == [of |-> c, piece |-> piece, index |-> plan[c].index,
               id |-> "", name |-> ""]
      Full == [Bare EXCEPT !.id = c, !.name = plan[c].tool]
  IN  IF piece = 1 THEN {Full} ELSE {Bare, Full}

-----------------------------------------------------------------------------
(* accumulateToolCall.                                                     *)

(* Fault: a fragment without index and ID goes to the last call begun.     *)
KeysFor_LastBegun(f) ==
  IF f.index # NoIndex THEN {f.index}
  ELSE IF f.id = "" /\ callOrder # <<>> THEN {Last(callOrder)}
  ELSE IF \E k \in DOMAIN accumulated : accumulated[k].id = f.id
  THEN {k \in DOMAIN accumulated : accumulated[k].id = f.id}
  ELSE {FirstDrawnKey + nextKey}

(* By index, else by ID, else the only call there is, else a new key.  The *)
(* search by ID ranges over a map, in any order.                           *)
KeysFor(f) ==
  LET same == {k \in DOMAIN accumulated : accumulated[k].id = f.id}
      found == IF f.index # NoIndex THEN {f.index}
               ELSE IF f.id # "" THEN same
               ELSE IF Cardinality(DOMAIN accumulated) = 1 THEN DOMAIN accumulated
               ELSE {}
  IN  IF found = {} THEN {FirstDrawnKey + nextKey} ELSE found

Before(key) ==
  IF key \in DOMAIN accumulated THEN accumulated[key]
  ELSE [id |-> "", name |-> "", arguments |-> <<>>]

Conflict(old, f) ==
  \/ f.id # "" /\ old.id \notin {"", f.id}
  \/ f.name # "" /\ old.name \notin {"", f.name}

(* A conflict is an error of Recv: the stream is closed, and what it has   *)
(* accumulated is never read again.                                        *)
AccumulateToolCall(f) ==
  \E key \in KeysFor(f) :
    LET old == Before(key)
        new == [id |-> IF f.id # "" THEN f.id ELSE old.id,
                name |-> IF f.name # "" THEN f.name ELSE old.name,
                arguments |-> Append(old.arguments, <<f.of, f.piece>>)]
    IN  \/ /\ Conflict(old, f) /\ turnOf' = Refused
           /\ UNCHANGED <<accumulated, callOrder, nextKey>>
        \/ /\ ~Conflict(old, f) /\ UNCHANGED turnOf
           /\ accumulated' = [k \in DOMAIN accumulated \cup {key} |->
                                IF k = key THEN new ELSE accumulated[k]]
           /\ callOrder' = IF key \in DOMAIN accumulated THEN callOrder
                           ELSE Append(callOrder, key)
           /\ nextKey' = IF key = FirstDrawnKey + nextKey THEN nextKey + 1 ELSE nextKey

RecvFragment(c) ==
  /\ turnOf = Open /\ Len(fragments) < MaxFragments
  /\ \E f \in FragmentsOf(c) :
       /\ fragments' = Append(fragments, f)
       /\ AccumulateToolCall(f)
  /\ UNCHANGED <<plan, reports, tokens>>

-----------------------------------------------------------------------------
(* usageEvent: a provider that leaves the total out means the sum.         *)
UsageEvent(u) == IF u.total = 0 THEN [u EXCEPT !.total = u.input + u.output] ELSE u

(* recordUsage: the counters of a turn never decrease.                     *)
RecvUsage(u) ==
  LET now == UsageEvent(u)
      decreased == \E k \in DOMAIN now : now[k] < tokens[k]
  IN  /\ turnOf = Open /\ Len(reports) < MaxReports
      /\ reports' = Append(reports, u)
      /\ tokens' = IF decreased THEN tokens ELSE now
      /\ turnOf' = IF decreased THEN Refused ELSE turnOf
      /\ UNCHANGED <<plan, fragments, accumulated, callOrder, nextKey>>

-----------------------------------------------------------------------------
(* validateEventShape of a Tool Call and of the Usage.                     *)
WellFormed(call) == call.id # "" /\ call.name # "" /\ call.arguments # <<>>

Metered == tokens # NoTokens /\ tokens.total >= tokens.input + tokens.output

(* The chunk with the finish reason: flushToolCalls, Usage, Finish, each   *)
(* validated as it is received.                                            *)
RecvFinish ==
  LET flushed == [i \in DOMAIN callOrder |-> accumulated[callOrder[i]]]
  IN  /\ turnOf = Open
      /\ turnOf' = IF (\A i \in DOMAIN flushed : WellFormed(flushed[i])) /\ Metered
                   THEN [state |-> "delivered", calls |-> flushed]
                   ELSE Refused
      /\ accumulated' = <<>> /\ callOrder' = <<>>
      /\ UNCHANGED <<plan, fragments, nextKey, reports, tokens>>

(* The stream ends or fails before Finish.                                 *)
RecvError ==
  /\ turnOf = Open /\ turnOf' = Refused
  /\ UNCHANGED <<plan, fragments, accumulated, callOrder, nextKey, reports, tokens>>

AssemblyNext ==
  \/ \E c \in ProviderCalls : RecvFragment(c)
  \/ \E u \in [input : Counts, output : Counts, total : Counts] : RecvUsage(u)
  \/ RecvFinish \/ RecvError

-----------------------------------------------------------------------------
(* The calls as the provider meant them: in the order of their first       *)
(* fragments, each with all of its pieces.                                 *)
Meant ==
  LET firsts == SelectSeq(fragments, LAMBDA f : f.piece = 1)
  IN  [i \in DOMAIN firsts |->
         LET pieces == PiecesOf(firsts[i].of)
         IN  [id |-> firsts[i].id, name |-> firsts[i].name,
              arguments |-> [j \in DOMAIN pieces |-> <<pieces[j].of, pieces[j].piece>>]]]

(* Whole or not at all: however the provider interleaves and labels its    *)
(* fragments, a turn that is delivered has exactly the provider's calls,   *)
(* none mixed with another, short of a piece or out of order, and charges  *)
(* what its last report says, which no earlier report exceeds; any doubt   *)
(* refuses the turn (accumulateToolCall, recordUsage, validateEventShape). *)
DeliveredIsMeant ==
  turnOf.state = "delivered" =>
    /\ turnOf.calls = Meant
    /\ reports # <<>> /\ tokens = UsageEvent(Last(reports))
    /\ \A i \in DOMAIN reports : UsageEvent(reports[i]).total <= tokens.total
=============================================================================
