----------------------------- MODULE LiveTrace ------------------------------
(***************************************************************************)
(* The span tree the client merges from the frames of a running stream.    *)
(* An iteration is a model span and the tool spans that arrived after it,  *)
(* in the order of arrival.  Frames that find no place are dropped.  The   *)
(* branch for auxiliary usage serves streams this server no longer sends.  *)
(***************************************************************************)
EXTENDS Sequences, Integers

NewIteration == [reasoning |-> "none", usage |-> FALSE, span |-> FALSE, tools |-> <<>>]

NewTool(c) == [call |-> c, arguments |-> FALSE, ended |-> FALSE, status |-> "pending"]

CurrentIteration(trace) == trace[Len(trace)]

ReplaceLast(trace, iteration) == [trace EXCEPT ![Len(trace)] = iteration]

\* Slip: what arrives about a tool goes to the latest tool span.
WithLatestTool(iteration, c, field, value) ==
    [iteration EXCEPT !.tools =
        [k \in DOMAIN @ |-> IF k = Len(@) THEN [@[k] EXCEPT ![field] = value] ELSE @[k]]]

\* A tool span that is not in the latest iteration is not found.
WithTool(iteration, c, field, value) ==
    [iteration EXCEPT !.tools =
        [k \in DOMAIN @ |-> IF @[k].call = c THEN [@[k] EXCEPT ![field] = value] ELSE @[k]]]

\* What a frame does to the latest iteration.
InIteration(it, f) ==
    CASE f.type = "REASONING_MESSAGE_START" -> [it EXCEPT !.reasoning = "open"]
      [] f.type = "REASONING_END" ->
            IF it.reasoning = "open" THEN [it EXCEPT !.reasoning = "closed"] ELSE it
      [] f.type = "TOOL_CALL_START" -> [it EXCEPT !.tools = Append(@, NewTool(f.call))]
      [] f.type = "TOOL_CALL_ARGS" -> WithTool(it, f.call, "arguments", TRUE)
      [] f.type = "TOOL_CALL_END" -> WithTool(it, f.call, "ended", TRUE)
      [] f.type = "chatagents.usage" -> [it EXCEPT !.usage = TRUE]
      [] f.type = "chatagents.span" -> [it EXCEPT !.span = TRUE]
      [] f.type = "chatagents.tool_result" ->
            WithTool(it, f.call, "status", f.status)
      [] OTHER -> it

Merged(trace, f) ==
    IF f.type = "STEP_STARTED" THEN Append(trace, NewIteration)
    ELSE IF trace = <<>> THEN trace
    ELSE ReplaceLast(trace, InIteration(CurrentIteration(trace), f))

=============================================================================
