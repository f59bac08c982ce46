------------------------------ MODULE ToolCall ------------------------------
(***************************************************************************)
(* What a tool call promises, whatever the retries, races and crashes      *)
(* around it: one (run_id, tool_call_id) takes effect at most once, and    *)
(* every caller that is told "here is the result" is told the result of    *)
(* that one execution, for the request it made itself.                     *)
(*                                                                         *)
(* ToolLease implements this specification when a lease holder finishes    *)
(* within its lease (HolderPrompt).                                        *)
(***************************************************************************)

CONSTANTS Callers,      \* the callers that present this tool call id
          Requests,     \* (tool, arguments) pairs a caller can present
          NoCaller

VARIABLES request,      \* what each caller presents; fixed
          outcome,      \* the caller whose execution took effect, or NoCaller
          answered      \* the execution each caller was given, or NoCaller

vars == <<request, outcome, answered>>

Init == /\ request \in [Callers -> Requests]
        /\ outcome = NoCaller
        /\ answered = [c \in Callers |-> NoCaller]

\* The single execution of the call.
Execute(c) == /\ outcome = NoCaller
              /\ outcome' = c
              /\ UNCHANGED <<request, answered>>

\* Hand the stored result to a caller that presented the same request.
Answer(c) == /\ outcome # NoCaller
             /\ answered[c] = NoCaller
             /\ request[c] = request[outcome]
             /\ answered' = [answered EXCEPT ![c] = outcome]
             /\ UNCHANGED <<request, outcome>>

Next == \E c \in Callers : Execute(c) \/ Answer(c)

Spec == Init /\ [][Next]_vars
=============================================================================
