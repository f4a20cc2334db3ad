----------------------------- MODULE AgUiStream -----------------------------
(***************************************************************************)
(* The frames of one run as an AG-UI client may rely on them: what is      *)
(* opened is closed in the right order before the run is reported as       *)
(* finished, contents only appear inside their group, each step is         *)
(* followed by its usage and its span, and only an error may cut this      *)
(* short.  An error is the last word: it may even follow RUN_FINISHED,     *)
(* when the client of a custom endpoint cannot be closed.                  *)
(***************************************************************************)

CONSTANT Call

VARIABLE wire    \* what the frames sent so far have left open

\* due is the custom event a finished step still owes.
Opened == [run |-> "open", step |-> FALSE, text |-> FALSE, reasoning |-> "none",
           due |-> "none", tools |-> [c \in Call |-> "none"]]

Init == wire = [Opened EXCEPT !.run = "none"]

RunStarted == wire.run = "none" /\ wire' = Opened

Between == wire.run = "open" /\ ~wire.step /\ wire.due = "none"

NoToolOpen == \A c \in Call : wire.tools[c] = "none"

StepStarted ==
    /\ Between /\ NoToolOpen
    /\ wire' = [wire EXCEPT !.step = TRUE]

\* START, MESSAGE_START and CONTENT, MESSAGE_END, END of one reasoning group.
Reasoning(from, to) ==
    /\ wire.run = "open" /\ wire.step
    /\ wire.reasoning = from
    /\ wire' = [wire EXCEPT !.reasoning = to]

ReasoningFrame == \/ Reasoning("none", "started")
                  \/ Reasoning("started", "message")
                  \/ Reasoning("message", "message")
                  \/ Reasoning("message", "ended")
                  \/ Reasoning("ended", "none")

\* Text is never added while a reasoning group is open, though one may be
\* opened between two pieces of the same text.
Text(from, to) ==
    /\ wire.run = "open" /\ wire.step
    /\ wire.reasoning = "none"
    /\ wire.text = from
    /\ wire' = [wire EXCEPT !.text = to]

TextFrame == Text(FALSE, TRUE) \/ Text(TRUE, TRUE) \/ Text(TRUE, FALSE)

StepFinished ==
    /\ wire.run = "open" /\ wire.step
    /\ wire.reasoning = "none" /\ ~wire.text
    /\ wire' = [wire EXCEPT !.step = FALSE, !.due = "usage"]

Usage == wire.run = "open" /\ wire.due = "usage" /\ wire' = [wire EXCEPT !.due = "span"]

Span == wire.run = "open" /\ wire.due = "span" /\ wire' = [wire EXCEPT !.due = "none"]

\* START, ARGS, END, RESULT and the tool_result event of one call.
ToolCall(c, from, to) ==
    /\ Between
    /\ wire.tools[c] = from
    /\ wire' = [wire EXCEPT !.tools[c] = to]

ToolFrame(c) == \/ ToolCall(c, "none", "started")
                \/ ToolCall(c, "started", "running")
                \/ ToolCall(c, "running", "ended")
                \/ ToolCall(c, "ended", "returned")
                \/ ToolCall(c, "returned", "none")

RunFinished ==
    /\ Between /\ NoToolOpen
    /\ wire' = [wire EXCEPT !.run = "finished"]

RunError ==
    /\ wire.run # "none"
    /\ wire' = [wire EXCEPT !.run = "error"]

Next == \/ RunStarted
        \/ StepStarted
        \/ ReasoningFrame
        \/ TextFrame
        \/ StepFinished
        \/ Usage
        \/ Span
        \/ \E c \in Call : ToolFrame(c)
        \/ RunFinished
        \/ RunError

Spec == Init /\ [][Next]_wire

=============================================================================
