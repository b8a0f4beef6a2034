------------------------------- MODULE MCAgent -------------------------------
(* The coding agent over normalized streams, and the assembly of one such  *)
(* stream's tool calls.  The agent takes a turn as the stream delivers it, *)
(* so a behaviour is about one of the two and leaves the other as it was.  *)
EXTENDS CodingAgent, ToolCallAssembly

VARIABLE part

AgentInit ==
  /\ Init /\ AssemblyInit
  /\ \/ part = "agent" /\ plan = [c \in ProviderCalls |->
                                    [tool |-> CHOOSE t \in Tools : TRUE, index |-> NoIndex]]
     \/ part = "assembly" /\ input = CHOOSE i \in Inputs : TRUE

AgentNext ==
  \/ part = "agent" /\ Next /\ UNCHANGED <<assemblyVars, part>>
  \/ part = "assembly" /\ AssemblyNext /\ UNCHANGED <<vars, part>>

AgentSpec == AgentInit /\ [][AgentNext]_<<vars, assemblyVars, part>>
=============================================================================
