---------------------------- MODULE AgentStream -----------------------------
(***************************************************************************)
(* The event stream of POST /api/runs from the agent loop to the client:   *)
(* AgentRun under the grouping of tool results in persist, encode_sse with *)
(* the groups it keeps open, and the span tree the client merges from the  *)
(* frames.  observe is left out: it changes no event and hides its own     *)
(* failures.  A frame counts as merged once the server has written it.     *)
(***************************************************************************)
EXTENDS AgentRun, LiveTrace

VARIABLES
    tool_call_order,   \* persist: calls announced since its latest row
    tool_rows,         \* iterations whose tool results have a row
    text_open,         \* encode_sse: a TEXT_MESSAGE group is open
    reasoning_open,    \* encode_sse: a REASONING group is open
    layer,             \* who works: what encode_sse wraps, encode_sse, or no one
    out,               \* frames of the current event still to be sent
    wire,              \* what the frames sent so far have left open
    trace              \* the client's span tree

streamVars == <<tool_call_order, tool_rows, text_open, reasoning_open, layer, out, wire, trace>>
vars == <<runVars, streamVars>>

Wire == INSTANCE AgUiStream

Frames == {"RUN_STARTED", "STEP_STARTED", "REASONING_START", "REASONING_MESSAGE_START",
           "REASONING_MESSAGE_CONTENT", "REASONING_MESSAGE_END", "REASONING_END",
           "TEXT_MESSAGE_START", "TEXT_MESSAGE_CONTENT", "TEXT_MESSAGE_END", "STEP_FINISHED",
           "chatagents.usage", "chatagents.span", "TOOL_CALL_START", "TOOL_CALL_ARGS",
           "TOOL_CALL_END", "TOOL_CALL_RESULT", "chatagents.tool_result", "RUN_FINISHED",
           "RUN_ERROR"}

Frame(type) == [type |-> type, call |-> event.call, status |-> event.status]

-----------------------------------------------------------------------------
(* persist *)

\* The row is due when every announced call has its result.
RowDue == event.type = "tool_finished" /\ Range(tool_call_order) \subseteq Finished

Persist ==
    /\ RowDue => iteration \notin tool_rows
    /\ tool_rows' = IF RowDue THEN tool_rows \cup {iteration} ELSE tool_rows
    /\ tool_call_order' = IF RowDue \/ event.type = "iteration_completed" THEN <<>>
                          ELSE IF event.type = "tool_started"
                          THEN Append(tool_call_order, event.call)
                          ELSE tool_call_order

-----------------------------------------------------------------------------
(* encode_sse *)

CloseReasoning ==
    IF reasoning_open THEN <<Frame("REASONING_MESSAGE_END"), Frame("REASONING_END")>> ELSE <<>>

\* Slip: an open text is forgotten.
LeaveTextOpen == <<>>

CloseText == IF text_open THEN <<Frame("TEXT_MESSAGE_END")>> ELSE <<>>

Unless(open, first) == IF open THEN <<>> ELSE first

\* The frames of the event that has arrived.
Encoded ==
    CASE event.type = "iteration_started" -> <<Frame("STEP_STARTED")>>
      [] event.type = "text" ->
            CloseReasoning \o Unless(text_open, <<Frame("TEXT_MESSAGE_START")>>)
               \o <<Frame("TEXT_MESSAGE_CONTENT")>>
      [] event.type = "reasoning" ->
            Unless(reasoning_open,
                       <<Frame("REASONING_START"), Frame("REASONING_MESSAGE_START")>>)
               \o <<Frame("REASONING_MESSAGE_CONTENT")>>
      [] event.type = "iteration_completed" ->
            CloseReasoning \o CloseText
               \o <<Frame("STEP_FINISHED"), Frame("chatagents.usage"), Frame("chatagents.span")>>
      [] event.type = "tool_started" -> <<Frame("TOOL_CALL_START"), Frame("TOOL_CALL_ARGS")>>
      [] event.type = "tool_finished" ->
            <<Frame("TOOL_CALL_END"), Frame("TOOL_CALL_RESULT"), Frame("chatagents.tool_result")>>
      [] event.type = "run_completed" -> <<Frame("RUN_FINISHED")>>
      [] event.type = "run_failed" -> CloseReasoning \o CloseText \o <<Frame("RUN_ERROR")>>

Boundary == event.type \in {"iteration_started", "iteration_completed"}

Encode ==
    /\ layer = "upstream" /\ ~pulled
    /\ Persist
    /\ out' = Encoded
    /\ layer' = "sending"
    /\ text_open' = \/ event.type = "text"
                    \/ text_open /\ ~Boundary
    /\ reasoning_open' = \/ event.type = "reasoning"
                         \/ reasoning_open /\ ~Boundary /\ event.type # "text"
    /\ UNCHANGED <<runVars, wire, trace>>

\* What a frame opens or closes.
Seen(w, f) ==
    CASE f.type = "RUN_STARTED" -> [w EXCEPT !.run = "open"]
      [] f.type = "STEP_STARTED" -> [w EXCEPT !.step = TRUE]
      [] f.type = "REASONING_START" -> [w EXCEPT !.reasoning = "started"]
      [] f.type = "REASONING_MESSAGE_START" -> [w EXCEPT !.reasoning = "message"]
      [] f.type = "REASONING_MESSAGE_END" -> [w EXCEPT !.reasoning = "ended"]
      [] f.type = "REASONING_END" -> [w EXCEPT !.reasoning = "none"]
      [] f.type = "TEXT_MESSAGE_START" -> [w EXCEPT !.text = TRUE]
      [] f.type = "TEXT_MESSAGE_END" -> [w EXCEPT !.text = FALSE]
      [] f.type = "STEP_FINISHED" -> [w EXCEPT !.step = FALSE, !.due = "usage"]
      [] f.type = "chatagents.usage" -> [w EXCEPT !.due = "span"]
      [] f.type = "chatagents.span" -> [w EXCEPT !.due = "none"]
      [] f.type = "TOOL_CALL_START" -> [w EXCEPT !.tools[f.call] = "started"]
      [] f.type = "TOOL_CALL_ARGS" -> [w EXCEPT !.tools[f.call] = "running"]
      [] f.type = "TOOL_CALL_END" -> [w EXCEPT !.tools[f.call] = "ended"]
      [] f.type = "TOOL_CALL_RESULT" -> [w EXCEPT !.tools[f.call] = "returned"]
      [] f.type = "chatagents.tool_result" -> [w EXCEPT !.tools[f.call] = "none"]
      [] f.type = "RUN_FINISHED" -> [w EXCEPT !.run = "finished"]
      [] f.type = "RUN_ERROR" -> [w EXCEPT !.run = "error"]
      [] OTHER -> w

\* The client takes one frame; after the last one the next event is asked for.
Send ==
    /\ layer \in {"sending", "closing"}
    /\ out' = Tail(out)
    /\ wire' = Seen(wire, Head(out))
    /\ trace' = Merged(trace, Head(out))
    /\ IF Len(out) > 1 THEN UNCHANGED <<pulled, layer>>
       ELSE IF layer = "closing" THEN layer' = "over" /\ UNCHANGED pulled
       ELSE layer' = "upstream" /\ Pull
    /\ UNCHANGED <<pc, iteration, history, calls, announced, results, task, event,
                    tool_call_order, tool_rows, text_open, reasoning_open>>

-----------------------------------------------------------------------------
(* Exceptions and the end of the stream *)

ReportError ==
    /\ out' = <<Frame("RUN_ERROR")>>
    /\ layer' = "closing"
    /\ UNCHANGED <<tool_call_order, tool_rows, text_open, reasoning_open, wire, trace>>

\* The session is deleted, the database fails, or the iteration already has a
\* row for its tool results; the suspended loop is dropped.
PersistRaises ==
    /\ layer = "upstream" /\ ~pulled
    /\ event.type = "iteration_completed" \/ RowDue
    /\ ReportError
    /\ Drop

LoopRaises ==
    /\ layer = "upstream"
    /\ pc = "raised"
    /\ ReportError
    /\ UNCHANGED runVars

StreamEnds ==
    /\ layer = "upstream"
    /\ pc = "ended"
    /\ layer' = "over"
    /\ UNCHANGED <<runVars, tool_call_order, tool_rows, text_open, reasoning_open, out, wire, trace>>

\* http.disconnect cancels the task wherever it waits.
Disconnect ==
    /\ layer # "over"
    /\ layer' = "over"
    /\ out' = <<>>
    /\ IF pc \in Ended THEN UNCHANGED runVars ELSE Drop
    /\ UNCHANGED <<tool_call_order, tool_rows, text_open, reasoning_open, wire, trace>>

-----------------------------------------------------------------------------

Init ==
    /\ RunInit
    /\ tool_call_order = <<>> /\ tool_rows = {}
    /\ text_open = FALSE /\ reasoning_open = FALSE
    /\ layer = "sending"
    /\ out = <<Frame("RUN_STARTED")>>
    /\ Wire!Init
    /\ trace = <<>>

StreamStep == Encode \/ Send \/ PersistRaises \/ LoopRaises \/ StreamEnds

Next == \/ (LoopStep \/ Delta \/ ModelEnds) /\ UNCHANGED streamVars
        \/ (\E c \in Call : TaskStep(c)) /\ UNCHANGED streamVars
        \/ StreamStep
        \/ Disconnect

\* The server and the loop do their part; the model writes bounded answers and
\* its client times out; a tool is bounded by ToolSpec.timeout_s.
Fairness ==
    /\ WF_vars(LoopStep /\ UNCHANGED streamVars)
    /\ WF_vars(StreamStep)
    /\ SF_vars(ModelEnds /\ UNCHANGED streamVars)
    /\ \A c \in Call : WF_vars(TaskStep(c) /\ UNCHANGED streamVars)

Spec == Init /\ [][Next]_vars /\ Fairness

-----------------------------------------------------------------------------
(* Properties *)

StreamTypeOK ==
    /\ TypeOK
    /\ tool_call_order \in Seq(Call)
    /\ tool_rows \subseteq 1 .. HardCap
    /\ text_open \in BOOLEAN /\ reasoning_open \in BOOLEAN
    /\ layer \in {"upstream", "sending", "closing", "over"}
    /\ out \in Seq([type : Frames, call : Call \cup {""}, status : {"", "ok", "error"}])

\* The frames keep the promise of AgUiStream whatever the model, the tools, the
\* database and the client do.
FrameOrder == Wire!Spec

\* Results that the loop has put together for the i-th answer.
ResultsOf(i) ==
    IF i = iteration THEN results
    ELSE history[CHOOSE k \in DOMAIN history :
                    /\ history[k].kind = "results"
                    /\ Cardinality({j \in 1 .. k : history[j].kind = "results"}) = i].results

\* The span tree in the browser has a place for every call before it runs,
\* never shows a result the loop does not have, and once the run is reported as
\* finished it shows every call of every answer with the outcome the model was
\* given.
TraceFaithful ==
    /\ \A c \in Call : task[c].pc # "none" =>
          /\ Len(trace) = iteration
          /\ \E k \in DOMAIN trace[iteration].tools : trace[iteration].tools[k].call = c
    /\ Len(trace) <= iteration
    /\ \A i \in DOMAIN trace :
          \A k \in DOMAIN trace[i].tools :
             LET t == trace[i].tools[k]
             IN t.status # "pending" => [call |-> t.call, status |-> t.status] \in Range(ResultsOf(i))
    /\ wire.run = "finished" =>
          /\ Len(trace) = iteration
          /\ \A i \in DOMAIN trace :
                /\ trace[i].usage /\ trace[i].span /\ trace[i].reasoning # "open"
                /\ Len(trace[i].tools) = Len(ResultsOf(i))
                /\ \A k \in DOMAIN trace[i].tools :
                      /\ trace[i].tools[k].call = ResultsOf(i)[k].call
                      /\ trace[i].tools[k].status = ResultsOf(i)[k].status
                      /\ trace[i].tools[k].arguments /\ trace[i].tools[k].ended

\* Every stream ends, with the loop gone.
EveryStreamEnds == <>(layer = "over" /\ pc \in Ended)

=============================================================================
