------------------------- MODULE AgentFramesProofs -------------------------
(***************************************************************************)
(* Proofs about the frames that encode_sse makes of the events of a run:   *)
(* they keep the promise of AgUiStream, and the span tree the client       *)
(* merges from them is true to the run, for every set of calls and tools,  *)
(* every number of attempts and every cap on the iterations.               *)
(***************************************************************************)
EXTENDS AgentStreamProofs

-----------------------------------------------------------------------------
(* Frames and what they leave open *)

FrameSet == [type : Frames, call : Call \cup {""}, status : {"", "ok", "error"}]

Places == {"none", "started", "running", "ended", "returned"}

Wires == [run : {"none", "open", "finished", "error"}, step : BOOLEAN, text : BOOLEAN,
          reasoning : {"none", "started", "message", "ended"},
          due : {"none", "usage", "span"}, tools : [Call -> Places]]

Idle(w) == w.run = "open" /\ ~w.step /\ w.due = "none"

InStep(w) == w.run = "open" /\ w.step

ToolsDone(w) == \A c \in Call : w.tools[c] = "none"

\* A tool frame moves its call from one place to the next.
ToolAt(w, f, place) == Idle(w) /\ f.call \in Call /\ w.tools[f.call] = place

\* The frame is in its place, the contents of a group among them.
Allowed(w, f) ==
    \/ f.type = "RUN_STARTED" /\ w = [Wire!Opened EXCEPT !.run = "none"]
    \/ f.type = "STEP_STARTED" /\ Idle(w) /\ ToolsDone(w)
    \/ f.type = "REASONING_START" /\ InStep(w) /\ w.reasoning = "none"
    \/ f.type = "REASONING_MESSAGE_START" /\ InStep(w) /\ w.reasoning = "started"
    \/ /\ f.type \in {"REASONING_MESSAGE_CONTENT", "REASONING_MESSAGE_END"}
       /\ InStep(w) /\ w.reasoning = "message"
    \/ f.type = "REASONING_END" /\ InStep(w) /\ w.reasoning = "ended"
    \/ f.type = "TEXT_MESSAGE_START" /\ InStep(w) /\ w.reasoning = "none" /\ ~w.text
    \/ /\ f.type \in {"TEXT_MESSAGE_CONTENT", "TEXT_MESSAGE_END"}
       /\ InStep(w) /\ w.reasoning = "none" /\ w.text
    \/ f.type = "STEP_FINISHED" /\ InStep(w) /\ w.reasoning = "none" /\ ~w.text
    \/ f.type = "chatagents.usage" /\ w.run = "open" /\ w.due = "usage"
    \/ f.type = "chatagents.span" /\ w.run = "open" /\ w.due = "span"
    \/ f.type = "TOOL_CALL_START" /\ ToolAt(w, f, "none")
    \/ f.type = "TOOL_CALL_ARGS" /\ ToolAt(w, f, "started")
    \/ f.type = "TOOL_CALL_END" /\ ToolAt(w, f, "running")
    \/ f.type = "TOOL_CALL_RESULT" /\ ToolAt(w, f, "ended")
    \/ f.type = "chatagents.tool_result" /\ ToolAt(w, f, "returned")
    \/ f.type = "RUN_FINISHED" /\ Idle(w) /\ ToolsDone(w)
    \/ f.type = "RUN_ERROR" /\ w.run # "none"

\* Sent one after the other, the frames are all in place and lead from w to v.
Plays(w, frames, v) ==
    \E ws \in [0 .. Len(frames) -> Wires] :
       /\ ws[0] = w /\ ws[Len(frames)] = v
       /\ \A k \in 1 .. Len(frames) :
             Allowed(ws[k - 1], frames[k]) /\ ws[k] = Seen(ws[k - 1], frames[k])

-----------------------------------------------------------------------------
(* The inductive invariant of the stream *)

\* The calls that were announced and have no result.
Running == Announced \ Finished

\* Exactly these tool calls are open.
ToolsOpen(w, running) ==
    \A c \in Call : w.tools[c] = IF c \in running THEN "running" ELSE "none"

Grouped(w, text, reasoning) ==
    /\ w.text <=> text
    /\ w.reasoning = IF reasoning THEN "message" ELSE "none"

\* Between two answers of the model, and within one.
OutsideStep(w, running) ==
    Idle(w) /\ ~w.text /\ w.reasoning = "none" /\ ToolsOpen(w, running)

Within(w, running) == InStep(w) /\ w.due = "none" /\ ToolsOpen(w, running)

\* What the frames of all events so far leave open.
Stands(w, stage, running, text, reasoning) ==
    /\ w.run # "none"
    /\ stage = "completed" => w.run = "finished"
    /\ stage = "failed" => w.run = "error"
    /\ stage = "model" => Within(w, running) /\ Grouped(w, text, reasoning)
    /\ stage \in {"ready", "answered"} => ~text /\ ~reasoning /\ OutsideStep(w, running)

\* The same while the frames of the event e are still to be made.
Awaits(w, e, running, text, reasoning) ==
    /\ w.run = "open"
    /\ e.type \in {"iteration_started", "run_completed"} =>
          ~text /\ ~reasoning /\ running = {} /\ OutsideStep(w, {})
    /\ e.type \in {"text", "reasoning", "iteration_completed"} =>
          Within(w, running) /\ Grouped(w, text, reasoning)
    /\ e.type = "tool_started" =>
          ~text /\ ~reasoning /\ e.call \in running /\ OutsideStep(w, running \ {e.call})
    /\ e.type = "tool_finished" =>
          ~text /\ ~reasoning /\ e.call \in Call \ running /\ OutsideStep(w, running \cup {e.call})
    /\ e.type = "run_failed" =>
          Grouped(w, text, reasoning) /\ (text \/ reasoning => w.step)

\* The loop moves only while encode_sse waits for an event.
LayersFit ==
    /\ pc \in {"loop", "gather"} => pulled
    /\ layer = "sending" => ~pulled /\ out # <<>>
    /\ layer \in {"closing", "over"} => pc \in Ended
    /\ layer = "upstream" => pulled \/ event # None

FramesFit ==
    /\ layer = "upstream" /\ pulled => Stands(wire, Stage, Running, text_open, reasoning_open)
    /\ layer = "upstream" /\ ~pulled => Awaits(wire, event, Running, text_open, reasoning_open)
    /\ layer = "sending" =>
          \E v \in Wires : /\ Plays(wire, out, v)
                           /\ Stands(v, Stage, Running, text_open, reasoning_open)
    /\ layer = "closing" => /\ \E f \in FrameSet : out = <<f>> /\ f.type = "RUN_ERROR"
                            /\ wire.run # "none"

StreamInv == LoopInv /\ StreamTypeOK /\ wire \in Wires /\ LayersFit /\ FramesFit

-----------------------------------------------------------------------------
(* Sequences of frames *)

LEMMA WireTypes ==
    ASSUME NEW w \in Wires, NEW f \in FrameSet, Allowed(w, f)
    PROVE  Seen(w, f) \in Wires
<1>1. CASE f.type \in {"TOOL_CALL_START", "TOOL_CALL_ARGS", "TOOL_CALL_END", "TOOL_CALL_RESULT",
                      "chatagents.tool_result"}
  <2>1. f.call \in Call
    BY <1>1 DEF Allowed, ToolAt
  <2>2. \A p \in Places : [w EXCEPT !.tools[f.call] = p] \in Wires
    BY <2>1 DEF Wires
  <2> QED BY <1>1, <2>2 DEF Seen, Places
<1>2. CASE f.type \in {"RUN_STARTED", "RUN_FINISHED", "RUN_ERROR", "STEP_STARTED", "STEP_FINISHED",
                      "chatagents.usage", "chatagents.span"}
  BY <1>2 DEF Seen, Wires
<1>3. CASE f.type \in {"REASONING_START", "REASONING_MESSAGE_START", "REASONING_MESSAGE_END",
                      "REASONING_END", "TEXT_MESSAGE_START", "TEXT_MESSAGE_END"}
  BY <1>3 DEF Seen, Wires
<1>4. CASE f.type \in {"REASONING_MESSAGE_CONTENT", "TEXT_MESSAGE_CONTENT"}
  BY <1>4 DEF Seen
<1> QED BY <1>1, <1>2, <1>3, <1>4 DEF Allowed

LEMMA PlaysNone ==
    ASSUME NEW w \in Wires, NEW v
    PROVE  /\ Plays(w, <<>>, w)
           /\ Plays(w, <<>>, v) => v = w
<1>1. Len(<<>>) = 0
  OBVIOUS
<1>2. Plays(w, <<>>, w)
  <2> DEFINE ws == [k \in 0 .. Len(<<>>) |-> w]
  <2>1. ws \in [0 .. Len(<<>>) -> Wires] /\ ws[0] = w /\ ws[Len(<<>>)] = w
    BY <1>1
  <2>2. \A k \in 1 .. Len(<<>>) : FALSE
    BY <1>1
  <2> QED BY <2>1, <2>2 DEF Plays
<1>3. ASSUME Plays(w, <<>>, v) PROVE v = w
  BY <1>1, <1>3 DEF Plays
<1> QED BY <1>2, <1>3

LEMMA PlaysOne ==
    ASSUME NEW w \in Wires, NEW f \in FrameSet, Allowed(w, f), NEW v, v = Seen(w, f)
    PROVE  Plays(w, <<f>>, v) /\ v \in Wires
<1> DEFINE ws == [k \in 0 .. 1 |-> IF k = 0 THEN w ELSE v]
<1>1. Len(<<f>>) = 1 /\ <<f>>[1] = f
  OBVIOUS
<1>2. v \in Wires
  BY WireTypes
<1>3. ws \in [0 .. 1 -> Wires] /\ ws[0] = w /\ ws[1] = v
  BY <1>2
<1>4. \A k \in 1 .. 1 : Allowed(ws[k - 1], <<f>>[k]) /\ ws[k] = Seen(ws[k - 1], <<f>>[k])
  <2>1. ASSUME NEW k \in 1 .. 1
        PROVE  k = 1 /\ k - 1 = 0
    OBVIOUS
  <2> HIDE DEF ws
  <2> QED BY <1>1, <1>3, <2>1
<1> HIDE DEF ws
<1> QED BY <1>1, <1>2, <1>3, <1>4 DEF Plays

LEMMA PlaysBoth ==
    ASSUME NEW w, NEW v, NEW u, NEW s \in Seq(FrameSet), NEW t \in Seq(FrameSet),
           Plays(w, s, v), Plays(v, t, u)
    PROVE  Plays(w, s \o t, u)
<1>1. PICK ws \in [0 .. Len(s) -> Wires] :
          /\ ws[0] = w /\ ws[Len(s)] = v
          /\ \A k \in 1 .. Len(s) : Allowed(ws[k - 1], s[k]) /\ ws[k] = Seen(ws[k - 1], s[k])
  BY DEF Plays
<1>2. PICK vs \in [0 .. Len(t) -> Wires] :
          /\ vs[0] = v /\ vs[Len(t)] = u
          /\ \A k \in 1 .. Len(t) : Allowed(vs[k - 1], t[k]) /\ vs[k] = Seen(vs[k - 1], t[k])
  BY DEF Plays
<1>3. PICK m \in Nat, n \in Nat : m = Len(s) /\ n = Len(t)
  OBVIOUS
<1>4. /\ Len(s \o t) = m + n
      /\ \A k \in 1 .. m : (s \o t)[k] = s[k]
      /\ \A k \in m + 1 .. m + n : (s \o t)[k] = t[k - m]
  BY <1>3
<1> DEFINE us == [k \in 0 .. m + n |-> IF k <= m THEN ws[k] ELSE vs[k - m]]
<1>5. us \in [0 .. m + n -> Wires]
  BY <1>1, <1>2, <1>3
<1>6. \A k \in 0 .. m : us[k] = ws[k]
  BY <1>3
<1>7. \A k \in m .. m + n : us[k] = vs[k - m]
  <2>1. ws[m] = vs[0] /\ m - m = 0
    BY <1>1, <1>2, <1>3
  <2> QED BY <1>3, <2>1
<1> HIDE DEF us
<1>8. us[0] = w /\ us[m + n] = u
  <2>1. 0 \in 0 .. m /\ m + n \in m .. m + n /\ m + n - m = n
    BY <1>3
  <2>2. us[0] = ws[0]
    BY <1>6, <2>1
  <2>3. us[m + n] = vs[m + n - m]
    BY <1>7, <2>1
  <2> QED BY <1>1, <1>2, <1>3, <2>1, <2>2, <2>3
<1>9. ASSUME NEW k \in 1 .. m + n
      PROVE  Allowed(us[k - 1], (s \o t)[k]) /\ us[k] = Seen(us[k - 1], (s \o t)[k])
  <2>1. CASE k <= m
    <3>1. k \in 1 .. m /\ k \in 0 .. m /\ k - 1 \in 0 .. m
      BY <1>3, <2>1
    <3> QED BY <1>1, <1>3, <1>4, <1>6, <3>1
  <2>2. CASE k > m
    <3>1. PICK j \in 1 .. n : j = k - m
      <4>1. m \in Nat /\ n \in Nat /\ k \in 1 .. m + n /\ k > m
        BY <1>3, <1>9, <2>2
      <4>2. k - m \in 1 .. n
        BY <4>1
      <4> QED BY <4>2
    <3>2. k \in m + 1 .. m + n /\ k \in m .. m + n /\ k - 1 \in m .. m + n /\ (k - 1) - m = j - 1
      BY <1>3, <2>2, <3>1
    <3>3. us[k] = vs[j] /\ us[k - 1] = vs[j - 1] /\ (s \o t)[k] = t[j]
      BY <1>4, <1>7, <3>1, <3>2
    <3>4. Allowed(vs[j - 1], t[j]) /\ vs[j] = Seen(vs[j - 1], t[j])
      BY <1>2, <1>3
    <3> QED BY <3>3, <3>4
  <2> QED BY <1>3, <2>1, <2>2
<1> QED BY <1>4, <1>5, <1>8, <1>9 DEF Plays

LEMMA PlaysHead ==
    ASSUME NEW w, NEW v, NEW s \in Seq(FrameSet), s # <<>>, Plays(w, s, v)
    PROVE  /\ w \in Wires /\ Head(s) \in FrameSet /\ Allowed(w, Head(s))
           /\ Tail(s) \in Seq(FrameSet) /\ Plays(Seen(w, Head(s)), Tail(s), v)
<1>1. PICK ws \in [0 .. Len(s) -> Wires] :
          /\ ws[0] = w /\ ws[Len(s)] = v
          /\ \A k \in 1 .. Len(s) : Allowed(ws[k - 1], s[k]) /\ ws[k] = Seen(ws[k - 1], s[k])
  BY DEF Plays
<1>2. PICK n \in Nat : Len(s) = n + 1
  <2>1. Len(s) \in Nat /\ Len(s) # 0
    OBVIOUS
  <2>2. Len(s) - 1 \in Nat /\ Len(s) = (Len(s) - 1) + 1
    BY <2>1
  <2> QED BY <2>2
<1>3. /\ Head(s) = s[1] /\ Head(s) \in FrameSet /\ Tail(s) \in Seq(FrameSet) /\ Len(Tail(s)) = n
      /\ \A k \in 1 .. n : Tail(s)[k] = s[k + 1]
  BY <1>2
<1>4. 1 \in 1 .. n + 1 /\ 1 - 1 = 0 /\ 0 \in 0 .. n + 1
  BY <1>2
<1>5. w \in Wires /\ Allowed(w, Head(s)) /\ ws[1] = Seen(w, Head(s))
  BY <1>1, <1>2, <1>3, <1>4
<1> DEFINE us == [k \in 0 .. n |-> ws[k + 1]]
<1>6. \A k \in 0 .. n : k + 1 \in 0 .. n + 1
  OBVIOUS
<1>7. us \in [0 .. n -> Wires] /\ us[0] = ws[1] /\ us[n] = ws[n + 1]
  BY <1>1, <1>2, <1>6
<1>8. ASSUME NEW k \in 1 .. n
      PROVE  Allowed(us[k - 1], Tail(s)[k]) /\ us[k] = Seen(us[k - 1], Tail(s)[k])
  <2>1. k \in 0 .. n /\ k - 1 \in 0 .. n /\ (k - 1) + 1 = k /\ k + 1 \in 1 .. n + 1 /\ (k + 1) - 1 = k
    OBVIOUS
  <2>2. us[k] = ws[k + 1] /\ us[k - 1] = ws[k]
    BY <2>1
  <2> HIDE DEF us
  <2>3. Allowed(ws[k], s[k + 1]) /\ ws[k + 1] = Seen(ws[k], s[k + 1])
    BY <1>1, <1>2, <2>1
  <2> QED BY <1>3, <2>2, <2>3
<1> HIDE DEF us
<1> QED BY <1>1, <1>2, <1>3, <1>5, <1>7, <1>8 DEF Plays

LEMMA SeenIs ==
    ASSUME NEW w, NEW f
    PROVE  /\ f.type = "STEP_STARTED" => Seen(w, f) = [w EXCEPT !.step = TRUE]
           /\ f.type = "REASONING_START" => Seen(w, f) = [w EXCEPT !.reasoning = "started"]
           /\ f.type = "REASONING_MESSAGE_START" => Seen(w, f) = [w EXCEPT !.reasoning = "message"]
           /\ f.type = "REASONING_MESSAGE_CONTENT" => Seen(w, f) = w
           /\ f.type = "REASONING_MESSAGE_END" => Seen(w, f) = [w EXCEPT !.reasoning = "ended"]
           /\ f.type = "REASONING_END" => Seen(w, f) = [w EXCEPT !.reasoning = "none"]
           /\ f.type = "TEXT_MESSAGE_START" => Seen(w, f) = [w EXCEPT !.text = TRUE]
           /\ f.type = "TEXT_MESSAGE_CONTENT" => Seen(w, f) = w
           /\ f.type = "TEXT_MESSAGE_END" => Seen(w, f) = [w EXCEPT !.text = FALSE]
           /\ f.type = "STEP_FINISHED" => Seen(w, f) = [w EXCEPT !.step = FALSE, !.due = "usage"]
           /\ f.type = "chatagents.usage" => Seen(w, f) = [w EXCEPT !.due = "span"]
           /\ f.type = "chatagents.span" => Seen(w, f) = [w EXCEPT !.due = "none"]
           /\ f.type = "TOOL_CALL_START" => Seen(w, f) = [w EXCEPT !.tools[f.call] = "started"]
           /\ f.type = "TOOL_CALL_ARGS" => Seen(w, f) = [w EXCEPT !.tools[f.call] = "running"]
           /\ f.type = "TOOL_CALL_END" => Seen(w, f) = [w EXCEPT !.tools[f.call] = "ended"]
           /\ f.type = "TOOL_CALL_RESULT" => Seen(w, f) = [w EXCEPT !.tools[f.call] = "returned"]
           /\ f.type = "chatagents.tool_result" => Seen(w, f) = [w EXCEPT !.tools[f.call] = "none"]
           /\ f.type = "RUN_STARTED" => Seen(w, f) = [w EXCEPT !.run = "open"]
           /\ f.type = "RUN_FINISHED" => Seen(w, f) = [w EXCEPT !.run = "finished"]
           /\ f.type = "RUN_ERROR" => Seen(w, f) = [w EXCEPT !.run = "error"]
  BY DEF Seen

\* Every frame in its place is a step that AgUiStream allows, or none.
LEMMA WireStep ==
    ASSUME wire \in Wires, NEW f \in FrameSet, Allowed(wire, f), wire' = Seen(wire, f)
    PROVE  [Wire!Next]_wire
<1>1. CASE f.type = "RUN_STARTED"
  <2>1. wire.run = "none" /\ [wire EXCEPT !.run = "open"] = Wire!Opened
    <3>1. wire = [Wire!Opened EXCEPT !.run = "none"]
      BY <1>1 DEF Allowed
    <3>2. /\ wire.run = "none" /\ Wire!Opened.run = "open"
          /\ [wire EXCEPT !.run = "open"] = [Wire!Opened EXCEPT !.run = "open"]
      BY <3>1 DEF Wire!Opened
    <3>3. Wire!Opened \in Wires
      BY DEF Wire!Opened, Wires, Places
    <3>4. [Wire!Opened EXCEPT !.run = "open"] = Wire!Opened
      BY <3>2, <3>3 DEF Wires
    <3> QED BY <3>2, <3>4
  <2>2. wire' = Wire!Opened
    BY <1>1, <2>1, SeenIs
  <2> QED BY <2>1, <2>2 DEF Wire!Next, Wire!RunStarted
<1>2. CASE f.type = "STEP_STARTED"
  BY <1>2 DEF Allowed, Idle, ToolsDone, Seen, Wire!Next, Wire!StepStarted, Wire!Between, Wire!NoToolOpen
<1>3. CASE f.type \in {"REASONING_START", "REASONING_MESSAGE_START", "REASONING_MESSAGE_END",
                      "REASONING_END"}
  BY <1>3 DEF Allowed, InStep, Seen, Wire!Next, Wire!ReasoningFrame, Wire!Reasoning
<1>4. CASE f.type \in {"TEXT_MESSAGE_START", "TEXT_MESSAGE_END"}
  <2>1. wire.text \in BOOLEAN
    BY DEF Wires
  <2> QED BY <1>4, <2>1 DEF Allowed, InStep, Seen, Wire!Next, Wire!TextFrame, Wire!Text
<1>5. CASE f.type = "STEP_FINISHED"
  BY <1>5 DEF Allowed, InStep, Seen, Wire!Next, Wire!StepFinished
<1>6. CASE f.type \in {"chatagents.usage", "chatagents.span"}
  BY <1>6 DEF Allowed, Seen, Wire!Next, Wire!Usage, Wire!Span
<1>7. CASE f.type \in {"TOOL_CALL_START", "TOOL_CALL_ARGS", "TOOL_CALL_END", "TOOL_CALL_RESULT",
                      "chatagents.tool_result"}
  <2>1. f.call \in Call /\ Wire!Between
    BY <1>7 DEF Allowed, ToolAt, Idle, Wire!Between
  <2>2. Wire!ToolFrame(f.call)
    BY <1>7, <2>1 DEF Allowed, ToolAt, Seen, Wire!ToolFrame, Wire!ToolCall
  <2> QED BY <2>1, <2>2 DEF Wire!Next
<1>8. CASE f.type = "RUN_FINISHED"
  BY <1>8 DEF Allowed, Idle, ToolsDone, Seen, Wire!Next, Wire!RunFinished, Wire!Between, Wire!NoToolOpen
<1>9. CASE f.type = "RUN_ERROR"
  BY <1>9 DEF Allowed, Seen, Wire!Next, Wire!RunError
<1>10. CASE f.type \in {"REASONING_MESSAGE_CONTENT", "TEXT_MESSAGE_CONTENT"}
  BY <1>10 DEF Seen
<1> QED BY <1>1, <1>2, <1>3, <1>4, <1>5, <1>6, <1>7, <1>8, <1>9, <1>10 DEF Allowed

-----------------------------------------------------------------------------
(* What each frame does to an open run *)

LEMMA ReasoningFrames ==
    ASSUME NEW w \in Wires, NEW f \in FrameSet, InStep(w),
           NEW from \in {"none", "started", "message", "ended"},
           NEW to \in {"none", "started", "message", "ended"}, w.reasoning = from,
           <<f.type, from, to>> \in {<<"REASONING_START", "none", "started">>,
                                    <<"REASONING_MESSAGE_START", "started", "message">>,
                                    <<"REASONING_MESSAGE_CONTENT", "message", "message">>,
                                    <<"REASONING_MESSAGE_END", "message", "ended">>,
                                    <<"REASONING_END", "ended", "none">>}
    PROVE  \E v \in Wires : /\ Plays(w, <<f>>, v)
                            /\ InStep(v) /\ (v.text <=> w.text) /\ v.reasoning = to
                            /\ v.due = w.due /\ v.tools = w.tools
<1>1. Allowed(w, f)
  BY DEF Allowed
<1>2. Seen(w, f) = [w EXCEPT !.reasoning = to]
  <2>1. CASE f.type = "REASONING_MESSAGE_CONTENT"
    <3>1. Seen(w, f) = w /\ to = w.reasoning
      BY <2>1, SeenIs
    <3>2. w = [w EXCEPT !.reasoning = w.reasoning]
      BY DEF Wires
    <3> QED BY <3>1, <3>2
  <2>2. CASE f.type # "REASONING_MESSAGE_CONTENT"
    <3>1. \/ f.type = "REASONING_START" /\ to = "started"
          \/ f.type = "REASONING_MESSAGE_START" /\ to = "message"
          \/ f.type = "REASONING_MESSAGE_END" /\ to = "ended"
          \/ f.type = "REASONING_END" /\ to = "none"
      BY <2>2
    <3>2. CASE f.type = "REASONING_START" /\ to = "started"
      <4>1. Seen(w, f) = [w EXCEPT !.reasoning = "started"]
        BY <3>2, SeenIs
      <4> QED BY <3>2, <4>1
    <3>3. CASE f.type = "REASONING_MESSAGE_START" /\ to = "message"
      <4>1. Seen(w, f) = [w EXCEPT !.reasoning = "message"]
        BY <3>3, SeenIs
      <4> QED BY <3>3, <4>1
    <3>4. CASE f.type = "REASONING_MESSAGE_END" /\ to = "ended"
      <4>1. Seen(w, f) = [w EXCEPT !.reasoning = "ended"]
        BY <3>4, SeenIs
      <4> QED BY <3>4, <4>1
    <3>5. CASE f.type = "REASONING_END" /\ to = "none"
      <4>1. Seen(w, f) = [w EXCEPT !.reasoning = "none"]
        BY <3>5, SeenIs
      <4> QED BY <3>5, <4>1
    <3> QED BY <3>1, <3>2, <3>3, <3>4, <3>5
  <2> QED BY <2>1, <2>2
<1>3. PICK v \in Wires : v = [w EXCEPT !.reasoning = to] /\ Plays(w, <<f>>, v)
  BY <1>1, <1>2, PlaysOne
<1> QED BY <1>3 DEF Wires, InStep

LEMMA TextFrames ==
    ASSUME NEW w \in Wires, NEW f \in FrameSet, InStep(w), w.reasoning = "none",
           f.type = "TEXT_MESSAGE_START" => ~w.text,
           f.type # "TEXT_MESSAGE_START" => w.text,
           f.type \in {"TEXT_MESSAGE_START", "TEXT_MESSAGE_CONTENT", "TEXT_MESSAGE_END"}
    PROVE  \E v \in Wires : /\ Plays(w, <<f>>, v)
                            /\ InStep(v) /\ (v.text <=> f.type # "TEXT_MESSAGE_END")
                            /\ v.reasoning = "none" /\ v.due = w.due /\ v.tools = w.tools
<1>1. Allowed(w, f)
  BY DEF Allowed
<1>2. CASE f.type = "TEXT_MESSAGE_CONTENT"
  <2>1. Seen(w, f) = w
    BY <1>2, SeenIs
  <2> QED BY <1>1, <1>2, <2>1, PlaysOne
<1>3. CASE f.type = "TEXT_MESSAGE_START"
  <2>1. Seen(w, f) = [w EXCEPT !.text = TRUE]
    BY <1>3, SeenIs
  <2>2. PICK v \in Wires : v = [w EXCEPT !.text = TRUE] /\ Plays(w, <<f>>, v)
    BY <1>1, <2>1, PlaysOne
  <2> QED BY <1>3, <2>2 DEF Wires, InStep
<1>4. CASE f.type = "TEXT_MESSAGE_END"
  <2>1. Seen(w, f) = [w EXCEPT !.text = FALSE]
    BY <1>4, SeenIs
  <2>2. PICK v \in Wires : v = [w EXCEPT !.text = FALSE] /\ Plays(w, <<f>>, v)
    BY <1>1, <2>1, PlaysOne
  <2> QED BY <1>4, <2>2 DEF Wires, InStep
<1> QED BY <1>2, <1>3, <1>4

LEMMA StepStarts ==
    ASSUME NEW w \in Wires, NEW f \in FrameSet, f.type = "STEP_STARTED", Idle(w), ToolsDone(w)
    PROVE  \E v \in Wires : /\ Plays(w, <<f>>, v)
                            /\ InStep(v) /\ (v.text <=> w.text) /\ v.reasoning = w.reasoning
                            /\ v.due = w.due /\ v.tools = w.tools
<1>1. Allowed(w, f)
  BY DEF Allowed
<1>2. Seen(w, f) = [w EXCEPT !.step = TRUE]
  BY SeenIs
<1>3. PICK v \in Wires : v = [w EXCEPT !.step = TRUE] /\ Plays(w, <<f>>, v)
  BY <1>1, <1>2, PlaysOne
<1> QED BY <1>3 DEF Wires, InStep, Idle

LEMMA StepEnds ==
    ASSUME NEW w \in Wires, NEW f \in FrameSet, f.type = "STEP_FINISHED",
           InStep(w), ~w.text, w.reasoning = "none"
    PROVE  \E v \in Wires : /\ Plays(w, <<f>>, v)
                            /\ v.run = "open" /\ ~v.step /\ ~v.text /\ v.reasoning = "none"
                            /\ v.due = "usage" /\ v.tools = w.tools
<1>1. Allowed(w, f)
  BY DEF Allowed
<1>2. Seen(w, f) = [w EXCEPT !.step = FALSE, !.due = "usage"]
  BY SeenIs
<1>3. PICK v \in Wires : v = [w EXCEPT !.step = FALSE, !.due = "usage"] /\ Plays(w, <<f>>, v)
  BY <1>1, <1>2, PlaysOne
<1> QED BY <1>3 DEF Wires, InStep

LEMMA DueFrames ==
    ASSUME NEW w \in Wires, NEW f \in FrameSet, w.run = "open",
           NEW to \in {"none", "usage", "span"},
           <<f.type, w.due, to>> \in {<<"chatagents.usage", "usage", "span">>,
                                     <<"chatagents.span", "span", "none">>}
    PROVE  \E v \in Wires : /\ Plays(w, <<f>>, v)
                            /\ v.run = "open" /\ (v.step <=> w.step) /\ (v.text <=> w.text)
                            /\ v.reasoning = w.reasoning /\ v.due = to /\ v.tools = w.tools
<1>1. Allowed(w, f)
  BY DEF Allowed
<1>2. Seen(w, f) = [w EXCEPT !.due = to]
  <2>1. \/ f.type = "chatagents.usage" /\ to = "span"
        \/ f.type = "chatagents.span" /\ to = "none"
    OBVIOUS
  <2>2. CASE f.type = "chatagents.usage" /\ to = "span"
    <3>1. Seen(w, f) = [w EXCEPT !.due = "span"]
      BY <2>2, SeenIs
    <3> QED BY <2>2, <3>1
  <2>3. CASE f.type = "chatagents.span" /\ to = "none"
    <3>1. Seen(w, f) = [w EXCEPT !.due = "none"]
      BY <2>3, SeenIs
    <3> QED BY <2>3, <3>1
  <2> QED BY <2>1, <2>2, <2>3
<1>3. PICK v \in Wires : v = [w EXCEPT !.due = to] /\ Plays(w, <<f>>, v)
  BY <1>1, <1>2, PlaysOne
<1> QED BY <1>3 DEF Wires

LEMMA ToolFrames ==
    ASSUME NEW w \in Wires, NEW f \in FrameSet, f.call \in Call, Idle(w),
           NEW from \in Places, NEW to \in Places, w.tools[f.call] = from,
           <<f.type, from, to>> \in {<<"TOOL_CALL_START", "none", "started">>,
                                    <<"TOOL_CALL_ARGS", "started", "running">>,
                                    <<"TOOL_CALL_END", "running", "ended">>,
                                    <<"TOOL_CALL_RESULT", "ended", "returned">>,
                                    <<"chatagents.tool_result", "returned", "none">>}
    PROVE  \E v \in Wires : /\ Plays(w, <<f>>, v)
                            /\ Idle(v) /\ (v.text <=> w.text) /\ v.reasoning = w.reasoning
                            /\ v.tools[f.call] = to
                            /\ \A c \in Call \ {f.call} : v.tools[c] = w.tools[c]
<1>1. Allowed(w, f)
  BY DEF Allowed, ToolAt
<1>2. Seen(w, f) = [w EXCEPT !.tools[f.call] = to]
  <2>1. \/ f.type = "TOOL_CALL_START" /\ to = "started"
        \/ f.type = "TOOL_CALL_ARGS" /\ to = "running"
        \/ f.type = "TOOL_CALL_END" /\ to = "ended"
        \/ f.type = "TOOL_CALL_RESULT" /\ to = "returned"
        \/ f.type = "chatagents.tool_result" /\ to = "none"
    OBVIOUS
  <2>2. CASE f.type = "TOOL_CALL_START" /\ to = "started"
    <3>1. Seen(w, f) = [w EXCEPT !.tools[f.call] = "started"]
      BY <2>2, SeenIs
    <3> QED BY <2>2, <3>1
  <2>3. CASE f.type = "TOOL_CALL_ARGS" /\ to = "running"
    <3>1. Seen(w, f) = [w EXCEPT !.tools[f.call] = "running"]
      BY <2>3, SeenIs
    <3> QED BY <2>3, <3>1
  <2>4. CASE f.type = "TOOL_CALL_END" /\ to = "ended"
    <3>1. Seen(w, f) = [w EXCEPT !.tools[f.call] = "ended"]
      BY <2>4, SeenIs
    <3> QED BY <2>4, <3>1
  <2>5. CASE f.type = "TOOL_CALL_RESULT" /\ to = "returned"
    <3>1. Seen(w, f) = [w EXCEPT !.tools[f.call] = "returned"]
      BY <2>5, SeenIs
    <3> QED BY <2>5, <3>1
  <2>6. CASE f.type = "chatagents.tool_result" /\ to = "none"
    <3>1. Seen(w, f) = [w EXCEPT !.tools[f.call] = "none"]
      BY <2>6, SeenIs
    <3> QED BY <2>6, <3>1
  <2> QED BY <2>1, <2>2, <2>3, <2>4, <2>5, <2>6
<1>3. PICK v \in Wires : v = [w EXCEPT !.tools[f.call] = to] /\ Plays(w, <<f>>, v)
  BY <1>1, <1>2, PlaysOne
<1> QED BY <1>3 DEF Wires, Idle

LEMMA RunEnds ==
    ASSUME NEW w \in Wires, NEW f \in FrameSet,
           \/ f.type = "RUN_FINISHED" /\ Idle(w) /\ ToolsDone(w)
           \/ f.type = "RUN_ERROR" /\ w.run # "none"
    PROVE  \E v \in Wires : /\ Plays(w, <<f>>, v)
                            /\ v.run = IF f.type = "RUN_ERROR" THEN "error" ELSE "finished"
<1>1. Allowed(w, f)
  BY DEF Allowed
<1>2. Seen(w, f) = [w EXCEPT !.run = IF f.type = "RUN_ERROR" THEN "error" ELSE "finished"]
  BY SeenIs
<1>3. PICK v \in Wires : /\ v = [w EXCEPT !.run = IF f.type = "RUN_ERROR" THEN "error" ELSE "finished"]
                         /\ Plays(w, <<f>>, v)
  BY <1>1, <1>2, PlaysOne
<1> QED BY <1>3 DEF Wires

-----------------------------------------------------------------------------
(* The frames of each event *)

LEMMA PairOfFrames ==
    ASSUME NEW f \in FrameSet, NEW g \in FrameSet
    PROVE  <<f>> \o <<g>> = <<f, g>>
<1> DEFINE s == <<f>>
           t == <<g>>
           u == <<f, g>>
<1>1. /\ s \in Seq(FrameSet) /\ t \in Seq(FrameSet) /\ u \in Seq(FrameSet)
      /\ Len(s) = 1 /\ Len(t) = 1 /\ Len(u) = 2
      /\ s[1] = f /\ t[1] = g /\ u[1] = f /\ u[2] = g
  OBVIOUS
<1> HIDE DEF s, t, u
<1>2. s \o t \in Seq(FrameSet) /\ Len(s \o t) = 2 /\ (s \o t)[1] = f /\ (s \o t)[2] = g
  BY <1>1, ConcatProperties
<1>3. s \o t = u
  BY <1>1, <1>2, SeqEqual
<1> QED BY <1>3 DEF s, t, u

LEMMA TripleOfFrames ==
    ASSUME NEW f \in FrameSet, NEW g \in FrameSet, NEW h \in FrameSet
    PROVE  <<f>> \o <<g, h>> = <<f, g, h>>
<1> DEFINE s == <<f>>
           t == <<g, h>>
           u == <<f, g, h>>
<1>1. /\ s \in Seq(FrameSet) /\ t \in Seq(FrameSet) /\ u \in Seq(FrameSet)
      /\ Len(s) = 1 /\ Len(t) = 2 /\ Len(u) = 3
      /\ s[1] = f /\ t[1] = g /\ t[2] = h /\ u[1] = f /\ u[2] = g /\ u[3] = h
  OBVIOUS
<1> HIDE DEF s, t, u
<1>2. /\ s \o t \in Seq(FrameSet) /\ Len(s \o t) = 3
      /\ (s \o t)[1] = f /\ (s \o t)[2] = g /\ (s \o t)[3] = h
  <2>1. /\ s \o t \in Seq(FrameSet) /\ Len(s \o t) = 3
        /\ \A i \in 1 .. 3 : (s \o t)[i] = IF i <= 1 THEN s[i] ELSE t[i - 1]
    <3>1. /\ s \o t \in Seq(FrameSet) /\ Len(s \o t) = Len(s) + Len(t)
          /\ \A i \in 1 .. Len(s) + Len(t) : (s \o t)[i] =
                  IF i <= Len(s) THEN s[i] ELSE t[i - Len(s)]
      BY <1>1, ConcatProperties
    <3>2. Len(s) = 1 /\ Len(s) + Len(t) = 3
      BY <1>1
    <3> QED BY <3>1, <3>2
  <2>2. (s \o t)[1] = s[1] /\ (s \o t)[2] = t[1] /\ (s \o t)[3] = t[2]
    BY <2>1
  <2> QED BY <1>1, <2>1, <2>2
<1>3. s \o t = u
  BY <1>1, <1>2, SeqEqual
<1> QED BY <1>3 DEF s, t, u

LEMMA TwoFrames ==
    ASSUME NEW w, NEW v, NEW u, NEW f \in FrameSet, NEW g \in FrameSet,
           Plays(w, <<f>>, v), Plays(v, <<g>>, u)
    PROVE  Plays(w, <<f, g>>, u) /\ <<f, g>> \in Seq(FrameSet)
<1>1. PICK s \in Seq(FrameSet), t \in Seq(FrameSet) : s = <<f>> /\ t = <<g>>
  <2>1. <<f>> \in Seq(FrameSet) /\ <<g>> \in Seq(FrameSet)
    OBVIOUS
  <2> QED BY <2>1, Zenon
<1>2. Plays(w, s \o t, u)
  BY <1>1, PlaysBoth
<1>3. s \o t = <<f, g>>
  BY <1>1, PairOfFrames
<1>4. <<f, g>> \in Seq(FrameSet)
  OBVIOUS
<1> QED BY <1>2, <1>3, <1>4

LEMMA ThreeFrames ==
    ASSUME NEW w, NEW v, NEW u, NEW x, NEW f \in FrameSet, NEW g \in FrameSet, NEW h \in FrameSet,
           Plays(w, <<f>>, v), Plays(v, <<g>>, u), Plays(u, <<h>>, x)
    PROVE  Plays(w, <<f, g, h>>, x) /\ <<f, g, h>> \in Seq(FrameSet)
<1>1. PICK s \in Seq(FrameSet), t \in Seq(FrameSet) : s = <<f>> /\ t = <<g, h>>
  <2>1. <<f>> \in Seq(FrameSet) /\ <<g, h>> \in Seq(FrameSet)
    OBVIOUS
  <2> QED BY <2>1, Zenon
<1>2. Plays(v, <<g, h>>, x)
  BY TwoFrames
<1>3. Plays(w, s \o t, x)
  BY <1>1, <1>2, PlaysBoth
<1>4. s \o t = <<f, g, h>>
  BY <1>1, TripleOfFrames
<1>5. <<f, g, h>> \in Seq(FrameSet)
  OBVIOUS
<1> QED BY <1>3, <1>4, <1>5

LEMMA FrameIs ==
    ASSUME event \in Event \cup {None}, NEW t \in Frames
    PROVE  Frame(t) \in FrameSet /\ Frame(t).type = t /\ Frame(t).call = event.call
<1>1. event.call \in Call \cup {""} /\ event.status \in {"", "ok", "error"}
  <2>1. CASE event = None
    BY <2>1 DEF None
  <2>2. CASE event \in Event
    BY <2>2 DEF Event
  <2> QED BY <2>1, <2>2
<1> QED BY <1>1 DEF Frame, FrameSet

LEMMA FrameOf ==
    ASSUME event \in Event \cup {None}, NEW t \in Frames
    PROVE  \E f \in FrameSet : f = Frame(t) /\ f.type = t /\ f.call = event.call
  BY FrameIs

\* An open reasoning group is closed, nothing else changes.
LEMMA ReasoningCloses ==
    ASSUME event \in Event \cup {None}, reasoning_open \in BOOLEAN,
           NEW w \in Wires, w.reasoning = IF reasoning_open THEN "message" ELSE "none",
           reasoning_open => InStep(w)
    PROVE  /\ CloseReasoning \in Seq(FrameSet)
           /\ \E v \in Wires : /\ Plays(w, CloseReasoning, v)
                               /\ v.run = w.run /\ (v.step <=> w.step) /\ (v.text <=> w.text)
                               /\ v.reasoning = "none" /\ v.due = w.due /\ v.tools = w.tools
<1>1. CASE ~reasoning_open
  <2>1. CloseReasoning = <<>> /\ <<>> \in Seq(FrameSet)
    BY <1>1 DEF CloseReasoning
  <2>2. Plays(w, <<>>, w)
    BY PlaysNone
  <2> QED BY <1>1, <2>1, <2>2
<1>2. CASE reasoning_open
  <2>1. PICK f \in FrameSet : f = Frame("REASONING_MESSAGE_END") /\ f.type = "REASONING_MESSAGE_END"
    BY FrameOf DEF Frames
  <2>2. PICK g \in FrameSet : g = Frame("REASONING_END") /\ g.type = "REASONING_END"
    BY FrameOf DEF Frames
  <2>3. PICK v \in Wires : /\ Plays(w, <<f>>, v) /\ InStep(v) /\ (v.text <=> w.text)
                           /\ v.reasoning = "ended" /\ v.due = w.due /\ v.tools = w.tools
    BY <1>2, <2>1, ReasoningFrames
  <2>4. PICK u \in Wires : /\ Plays(v, <<g>>, u) /\ InStep(u) /\ (u.text <=> v.text)
                           /\ u.reasoning = "none" /\ u.due = v.due /\ u.tools = v.tools
    BY <2>2, <2>3, ReasoningFrames
  <2>5. CloseReasoning = <<f, g>>
    BY <1>2, <2>1, <2>2 DEF CloseReasoning
  <2>6. Plays(w, <<f, g>>, u) /\ <<f, g>> \in Seq(FrameSet)
    BY <2>3, <2>4, TwoFrames
  <2>7. w.run = "open" /\ w.step
    BY <1>2 DEF InStep
  <2> QED BY <2>3, <2>4, <2>5, <2>6, <2>7 DEF InStep
<1> QED BY <1>1, <1>2

\* An open text is closed, nothing else changes.
LEMMA TextCloses ==
    ASSUME event \in Event \cup {None}, text_open \in BOOLEAN,
           NEW w \in Wires, w.text <=> text_open, w.reasoning = "none", text_open => InStep(w)
    PROVE  /\ CloseText \in Seq(FrameSet)
           /\ \E v \in Wires : /\ Plays(w, CloseText, v)
                               /\ v.run = w.run /\ (v.step <=> w.step) /\ ~v.text
                               /\ v.reasoning = "none" /\ v.due = w.due /\ v.tools = w.tools
<1>1. CASE ~text_open
  <2>1. CloseText = <<>> /\ <<>> \in Seq(FrameSet)
    BY <1>1 DEF CloseText
  <2>2. Plays(w, <<>>, w)
    BY PlaysNone
  <2> QED BY <1>1, <2>1, <2>2
<1>2. CASE text_open
  <2>1. PICK f \in FrameSet : f = Frame("TEXT_MESSAGE_END") /\ f.type = "TEXT_MESSAGE_END"
    BY FrameOf DEF Frames
  <2>2. PICK v \in Wires : /\ Plays(w, <<f>>, v) /\ InStep(v) /\ ~v.text
                           /\ v.reasoning = "none" /\ v.due = w.due /\ v.tools = w.tools
    BY <1>2, <2>1, TextFrames
  <2>3. CloseText = <<f>> /\ <<f>> \in Seq(FrameSet)
    BY <1>2, <2>1 DEF CloseText
  <2>4. w.run = "open" /\ w.step
    BY <1>2 DEF InStep
  <2> QED BY <2>2, <2>3, <2>4 DEF InStep
<1> QED BY <1>1, <1>2

\* Both groups are closed, the reasoning first.
LEMMA GroupsClose ==
    ASSUME event \in Event \cup {None}, text_open \in BOOLEAN, reasoning_open \in BOOLEAN,
           NEW w \in Wires, w.text <=> text_open,
           w.reasoning = IF reasoning_open THEN "message" ELSE "none",
           text_open \/ reasoning_open => InStep(w)
    PROVE  /\ CloseReasoning \o CloseText \in Seq(FrameSet)
           /\ \E v \in Wires : /\ Plays(w, CloseReasoning \o CloseText, v)
                               /\ v.run = w.run /\ (v.step <=> w.step) /\ ~v.text
                               /\ v.reasoning = "none" /\ v.due = w.due /\ v.tools = w.tools
<1>1. CloseReasoning \in Seq(FrameSet)
  BY ReasoningCloses
<1>2. PICK v \in Wires : /\ Plays(w, CloseReasoning, v)
                         /\ v.run = w.run /\ (v.step <=> w.step) /\ (v.text <=> w.text)
                         /\ v.reasoning = "none" /\ v.due = w.due /\ v.tools = w.tools
  BY ReasoningCloses
<1>3. (v.text <=> text_open) /\ (text_open => InStep(v))
  BY <1>2 DEF InStep
<1>4. CloseText \in Seq(FrameSet)
  BY <1>2, <1>3, TextCloses
<1>5. PICK u \in Wires : /\ Plays(v, CloseText, u)
                         /\ u.run = v.run /\ (u.step <=> v.step) /\ ~u.text
                         /\ u.reasoning = "none" /\ u.due = v.due /\ u.tools = v.tools
  BY <1>2, <1>3, TextCloses
<1>6. Plays(w, CloseReasoning \o CloseText, u)
  BY <1>1, <1>2, <1>4, <1>5, PlaysBoth
<1>7. CloseReasoning \o CloseText \in Seq(FrameSet)
  BY <1>1, <1>4
<1> QED BY <1>2, <1>5, <1>6, <1>7

\* Where the calls of the latest answer can be.
LEMMA RunningCalls == ASSUME LoopInv PROVE Running \subseteq Call
  BY RecordFits DEF Running

LEMMA EncodeStart ==
    ASSUME wire \in Wires, event \in Event, event.type = "iteration_started",
           Awaits(wire, event, Running, text_open, reasoning_open)
    PROVE  /\ Encoded \in Seq(FrameSet) /\ Encoded # <<>>
           /\ \E v \in Wires : /\ Plays(wire, Encoded, v)
                               /\ Within(v, Running) /\ ~v.text /\ v.reasoning = "none"
<1>1. PICK f \in FrameSet : f = Frame("STEP_STARTED") /\ f.type = "STEP_STARTED"
  BY FrameOf DEF Frames
<1>2. Encoded = <<f>> /\ <<f>> \in Seq(FrameSet) /\ <<f>> # <<>>
  BY <1>1 DEF Encoded
<1>3. Running = {} /\ Idle(wire) /\ ~wire.text /\ wire.reasoning = "none" /\ ToolsOpen(wire, {})
  BY DEF Awaits, OutsideStep
<1>4. ToolsDone(wire)
  BY <1>3 DEF ToolsDone, ToolsOpen
<1>5. PICK v \in Wires : /\ Plays(wire, <<f>>, v)
                         /\ InStep(v) /\ (v.text <=> wire.text) /\ v.reasoning = wire.reasoning
                         /\ v.due = wire.due /\ v.tools = wire.tools
  BY <1>1, <1>3, <1>4, StepStarts
<1>6. Within(v, Running)
  BY <1>3, <1>5 DEF Within, ToolsOpen, Idle
<1> QED BY <1>2, <1>3, <1>5, <1>6

LEMMA EncodeText ==
    ASSUME wire \in Wires, event \in Event, event.type = "text",
           text_open \in BOOLEAN, reasoning_open \in BOOLEAN,
           Awaits(wire, event, Running, text_open, reasoning_open)
    PROVE  /\ Encoded \in Seq(FrameSet) /\ Encoded # <<>>
           /\ \E v \in Wires : /\ Plays(wire, Encoded, v)
                               /\ Within(v, Running) /\ v.text /\ v.reasoning = "none"
<1> DEFINE first == Unless(text_open, <<Frame("TEXT_MESSAGE_START")>>)
<1>1. PICK f \in FrameSet : f = Frame("TEXT_MESSAGE_CONTENT") /\ f.type = "TEXT_MESSAGE_CONTENT"
  BY FrameOf DEF Frames
<1>2. Within(wire, Running) /\ Grouped(wire, text_open, reasoning_open)
  BY DEF Awaits
<1>3. CloseReasoning \in Seq(FrameSet)
  BY <1>2, ReasoningCloses DEF Within, Grouped
<1>4. PICK v \in Wires : /\ Plays(wire, CloseReasoning, v)
                         /\ v.run = wire.run /\ (v.step <=> wire.step) /\ (v.text <=> wire.text)
                         /\ v.reasoning = "none" /\ v.due = wire.due /\ v.tools = wire.tools
  BY <1>2, ReasoningCloses DEF Within, Grouped
<1>5. InStep(v) /\ (v.text <=> text_open)
  BY <1>2, <1>4 DEF Within, InStep, Grouped
<1>6. /\ first \in Seq(FrameSet)
      /\ \E u \in Wires : /\ Plays(v, first, u) /\ InStep(u) /\ u.text
                          /\ u.reasoning = "none" /\ u.due = v.due /\ u.tools = v.tools
  <2>1. CASE text_open
    <3>1. first = <<>> /\ <<>> \in Seq(FrameSet)
      BY <2>1 DEF Unless
    <3>2. Plays(v, <<>>, v)
      BY PlaysNone
    <3> QED BY <1>4, <1>5, <2>1, <3>1, <3>2
  <2>2. CASE ~text_open
    <3>1. PICK g \in FrameSet : g = Frame("TEXT_MESSAGE_START") /\ g.type = "TEXT_MESSAGE_START"
      BY FrameOf DEF Frames
    <3>2. first = <<g>> /\ <<g>> \in Seq(FrameSet)
      BY <2>2, <3>1 DEF Unless
    <3>3. PICK u \in Wires : /\ Plays(v, <<g>>, u) /\ InStep(u) /\ u.text
                             /\ u.reasoning = "none" /\ u.due = v.due /\ u.tools = v.tools
      BY <1>4, <1>5, <2>2, <3>1, TextFrames
    <3> QED BY <3>2, <3>3
  <2> QED BY <2>1, <2>2
<1> HIDE DEF first
<1>7. PICK u \in Wires : /\ Plays(v, first, u) /\ InStep(u) /\ u.text
                         /\ u.reasoning = "none" /\ u.due = v.due /\ u.tools = v.tools
  BY <1>6
<1>8. PICK x \in Wires : /\ Plays(u, <<f>>, x) /\ InStep(x) /\ x.text
                         /\ x.reasoning = "none" /\ x.due = u.due /\ x.tools = u.tools
  BY <1>1, <1>7, TextFrames
<1>9. <<f>> \in Seq(FrameSet) /\ CloseReasoning \o first \in Seq(FrameSet)
  BY <1>3, <1>6
<1>10. Plays(wire, CloseReasoning \o first, u)
  BY <1>3, <1>4, <1>6, <1>7, PlaysBoth
<1>11. Plays(wire, CloseReasoning \o first \o <<f>>, x)
  BY <1>8, <1>9, <1>10, PlaysBoth
<1>12. Encoded = CloseReasoning \o first \o <<f>>
  BY <1>1 DEF Encoded, first
<1>13. Encoded \in Seq(FrameSet) /\ Encoded # <<>>
  BY <1>9, <1>12
<1>14. Within(x, Running)
  BY <1>2, <1>4, <1>7, <1>8 DEF Within, ToolsOpen
<1> QED BY <1>8, <1>11, <1>12, <1>13, <1>14

LEMMA EncodeReasoning ==
    ASSUME wire \in Wires, event \in Event, event.type = "reasoning",
           text_open \in BOOLEAN, reasoning_open \in BOOLEAN,
           Awaits(wire, event, Running, text_open, reasoning_open)
    PROVE  /\ Encoded \in Seq(FrameSet) /\ Encoded # <<>>
           /\ \E v \in Wires : /\ Plays(wire, Encoded, v)
                               /\ Within(v, Running)
                               /\ (v.text <=> text_open) /\ v.reasoning = "message"
<1> DEFINE first == Unless(reasoning_open,
                           <<Frame("REASONING_START"), Frame("REASONING_MESSAGE_START")>>)
<1>1. PICK f \in FrameSet : /\ f = Frame("REASONING_MESSAGE_CONTENT")
                            /\ f.type = "REASONING_MESSAGE_CONTENT"
  BY FrameOf DEF Frames
<1>2. /\ Within(wire, Running) /\ InStep(wire) /\ (wire.text <=> text_open)
      /\ wire.reasoning = IF reasoning_open THEN "message" ELSE "none"
  BY DEF Awaits, Within, Grouped
<1>3. /\ first \in Seq(FrameSet)
      /\ \E u \in Wires : /\ Plays(wire, first, u) /\ InStep(u) /\ (u.text <=> wire.text)
                          /\ u.reasoning = "message" /\ u.due = wire.due /\ u.tools = wire.tools
  <2>1. CASE reasoning_open
    <3>1. first = <<>> /\ <<>> \in Seq(FrameSet)
      BY <2>1 DEF Unless
    <3>2. Plays(wire, <<>>, wire)
      BY PlaysNone
    <3> QED BY <1>2, <2>1, <3>1, <3>2
  <2>2. CASE ~reasoning_open
    <3>1. PICK g \in FrameSet : g = Frame("REASONING_START") /\ g.type = "REASONING_START"
      BY FrameOf DEF Frames
    <3>2. PICK h \in FrameSet : /\ h = Frame("REASONING_MESSAGE_START")
                                /\ h.type = "REASONING_MESSAGE_START"
      BY FrameOf DEF Frames
    <3>3. PICK v \in Wires : /\ Plays(wire, <<g>>, v) /\ InStep(v) /\ (v.text <=> wire.text)
                             /\ v.reasoning = "started" /\ v.due = wire.due /\ v.tools = wire.tools
      BY <1>2, <2>2, <3>1, ReasoningFrames
    <3>4. PICK u \in Wires : /\ Plays(v, <<h>>, u) /\ InStep(u) /\ (u.text <=> v.text)
                             /\ u.reasoning = "message" /\ u.due = v.due /\ u.tools = v.tools
      BY <3>2, <3>3, ReasoningFrames
    <3>5. first = <<g, h>>
      BY <2>2, <3>1, <3>2 DEF Unless
    <3>6. Plays(wire, <<g, h>>, u) /\ <<g, h>> \in Seq(FrameSet)
      BY <3>3, <3>4, TwoFrames
    <3> QED BY <3>3, <3>4, <3>5, <3>6
  <2> QED BY <2>1, <2>2
<1> HIDE DEF first
<1>4. PICK u \in Wires : /\ Plays(wire, first, u) /\ InStep(u) /\ (u.text <=> wire.text)
                         /\ u.reasoning = "message" /\ u.due = wire.due /\ u.tools = wire.tools
  BY <1>3
<1>5. PICK x \in Wires : /\ Plays(u, <<f>>, x) /\ InStep(x) /\ (x.text <=> u.text)
                         /\ x.reasoning = "message" /\ x.due = u.due /\ x.tools = u.tools
  BY <1>1, <1>4, ReasoningFrames
<1>6. <<f>> \in Seq(FrameSet)
  OBVIOUS
<1>7. Plays(wire, first \o <<f>>, x)
  BY <1>3, <1>4, <1>5, <1>6, PlaysBoth
<1>8. Encoded = first \o <<f>>
  BY <1>1 DEF Encoded, first
<1>9. Encoded \in Seq(FrameSet) /\ Encoded # <<>>
  BY <1>3, <1>6, <1>8
<1>10. Within(x, Running)
  BY <1>2, <1>4, <1>5 DEF Within, ToolsOpen
<1> QED BY <1>2, <1>4, <1>5, <1>7, <1>8, <1>9, <1>10

LEMMA EncodeAnswer ==
    ASSUME wire \in Wires, event \in Event, event.type = "iteration_completed",
           text_open \in BOOLEAN, reasoning_open \in BOOLEAN,
           Awaits(wire, event, Running, text_open, reasoning_open)
    PROVE  /\ Encoded \in Seq(FrameSet) /\ Encoded # <<>>
           /\ \E v \in Wires : Plays(wire, Encoded, v) /\ OutsideStep(v, Running)
<1>1. PICK f \in FrameSet : f = Frame("STEP_FINISHED") /\ f.type = "STEP_FINISHED"
  BY FrameOf DEF Frames
<1>2. PICK g \in FrameSet : g = Frame("chatagents.usage") /\ g.type = "chatagents.usage"
  BY FrameOf DEF Frames
<1>3. PICK h \in FrameSet : h = Frame("chatagents.span") /\ h.type = "chatagents.span"
  BY FrameOf DEF Frames
<1>4. /\ Within(wire, Running) /\ InStep(wire) /\ (wire.text <=> text_open)
      /\ wire.reasoning = IF reasoning_open THEN "message" ELSE "none"
  BY DEF Awaits, Within, Grouped
<1>5. PICK s \in Seq(FrameSet) : s = CloseReasoning \o CloseText
  BY <1>4, GroupsClose
<1>6. PICK v \in Wires : /\ Plays(wire, s, v)
                         /\ v.run = wire.run /\ (v.step <=> wire.step) /\ ~v.text
                         /\ v.reasoning = "none" /\ v.due = wire.due /\ v.tools = wire.tools
  BY <1>4, <1>5, GroupsClose
<1>7. InStep(v)
  BY <1>4, <1>6 DEF InStep
<1>8. PICK x \in Wires : /\ Plays(v, <<f>>, x)
                         /\ x.run = "open" /\ ~x.step /\ ~x.text /\ x.reasoning = "none"
                         /\ x.due = "usage" /\ x.tools = v.tools
  BY <1>1, <1>6, <1>7, StepEnds
<1>9. PICK y \in Wires : /\ Plays(x, <<g>>, y)
                         /\ y.run = "open" /\ ~y.step /\ ~y.text /\ y.reasoning = "none"
                         /\ y.due = "span" /\ y.tools = v.tools
  BY <1>2, <1>8, DueFrames
<1>10. PICK z \in Wires : /\ Plays(y, <<h>>, z)
                          /\ z.run = "open" /\ ~z.step /\ ~z.text /\ z.reasoning = "none"
                          /\ z.due = "none" /\ z.tools = v.tools
  BY <1>3, <1>9, DueFrames
<1>11. Plays(v, <<f, g, h>>, z) /\ <<f, g, h>> \in Seq(FrameSet)
  BY <1>8, <1>9, <1>10, ThreeFrames
<1>12. Plays(wire, s \o <<f, g, h>>, z)
  BY <1>6, <1>11, PlaysBoth
<1>13. Encoded = s \o <<f, g, h>>
  BY <1>1, <1>2, <1>3, <1>5 DEF Encoded
<1>14. Encoded \in Seq(FrameSet) /\ Encoded # <<>>
  BY <1>11, <1>13
<1>15. OutsideStep(z, Running)
  BY <1>4, <1>6, <1>10 DEF Within, ToolsOpen, OutsideStep, Idle
<1> QED BY <1>12, <1>13, <1>14, <1>15

LEMMA EncodeToolStarts ==
    ASSUME wire \in Wires, event \in Event, event.type = "tool_started", Running \subseteq Call,
           Awaits(wire, event, Running, text_open, reasoning_open)
    PROVE  /\ Encoded \in Seq(FrameSet) /\ Encoded # <<>>
           /\ \E v \in Wires : Plays(wire, Encoded, v) /\ OutsideStep(v, Running)
<1>1. PICK f \in FrameSet : /\ f = Frame("TOOL_CALL_START") /\ f.type = "TOOL_CALL_START"
                            /\ f.call = event.call
  BY FrameOf DEF Frames
<1>2. PICK g \in FrameSet : /\ g = Frame("TOOL_CALL_ARGS") /\ g.type = "TOOL_CALL_ARGS"
                            /\ g.call = event.call
  BY FrameOf DEF Frames
<1>3. /\ event.call \in Running /\ event.call \in Call
      /\ Idle(wire) /\ ~wire.text /\ wire.reasoning = "none"
      /\ ToolsOpen(wire, Running \ {event.call})
  BY DEF Awaits, OutsideStep
<1>4. wire.tools[event.call] = "none"
  BY <1>3 DEF ToolsOpen
<1>5. PICK v \in Wires : /\ Plays(wire, <<f>>, v)
                         /\ Idle(v) /\ ~v.text /\ v.reasoning = "none"
                         /\ v.tools[event.call] = "started"
                         /\ \A c \in Call \ {event.call} : v.tools[c] = wire.tools[c]
  BY <1>1, <1>3, <1>4, ToolFrames DEF Places
<1>6. PICK u \in Wires : /\ Plays(v, <<g>>, u)
                         /\ Idle(u) /\ ~u.text /\ u.reasoning = "none"
                         /\ u.tools[event.call] = "running"
                         /\ \A c \in Call \ {event.call} : u.tools[c] = v.tools[c]
  BY <1>2, <1>3, <1>5, ToolFrames DEF Places
<1>7. Plays(wire, <<f, g>>, u) /\ <<f, g>> \in Seq(FrameSet)
  BY <1>5, <1>6, TwoFrames
<1>8. Encoded = <<f, g>> /\ <<f, g>> # <<>>
  BY <1>1, <1>2 DEF Encoded
<1>9. ToolsOpen(u, Running)
  BY <1>3, <1>5, <1>6 DEF ToolsOpen
<1> QED BY <1>6, <1>7, <1>8, <1>9 DEF OutsideStep

LEMMA EncodeToolEnds ==
    ASSUME wire \in Wires, event \in Event, event.type = "tool_finished",
           Awaits(wire, event, Running, text_open, reasoning_open)
    PROVE  /\ Encoded \in Seq(FrameSet) /\ Encoded # <<>>
           /\ \E v \in Wires : Plays(wire, Encoded, v) /\ OutsideStep(v, Running)
<1>1. PICK f \in FrameSet : /\ f = Frame("TOOL_CALL_END") /\ f.type = "TOOL_CALL_END"
                            /\ f.call = event.call
  BY FrameOf DEF Frames
<1>2. PICK g \in FrameSet : /\ g = Frame("TOOL_CALL_RESULT") /\ g.type = "TOOL_CALL_RESULT"
                            /\ g.call = event.call
  BY FrameOf DEF Frames
<1>3. PICK h \in FrameSet : /\ h = Frame("chatagents.tool_result")
                            /\ h.type = "chatagents.tool_result" /\ h.call = event.call
  BY FrameOf DEF Frames
<1>4. /\ event.call \notin Running /\ event.call \in Call
      /\ Idle(wire) /\ ~wire.text /\ wire.reasoning = "none"
      /\ ToolsOpen(wire, Running \cup {event.call})
  BY DEF Awaits, OutsideStep
<1>5. wire.tools[event.call] = "running"
  BY <1>4 DEF ToolsOpen
<1>6. PICK v \in Wires : /\ Plays(wire, <<f>>, v)
                         /\ Idle(v) /\ ~v.text /\ v.reasoning = "none"
                         /\ v.tools[event.call] = "ended"
                         /\ \A c \in Call \ {event.call} : v.tools[c] = wire.tools[c]
  BY <1>1, <1>4, <1>5, ToolFrames DEF Places
<1>7. PICK u \in Wires : /\ Plays(v, <<g>>, u)
                         /\ Idle(u) /\ ~u.text /\ u.reasoning = "none"
                         /\ u.tools[event.call] = "returned"
                         /\ \A c \in Call \ {event.call} : u.tools[c] = v.tools[c]
  BY <1>2, <1>4, <1>6, ToolFrames DEF Places
<1>8. PICK x \in Wires : /\ Plays(u, <<h>>, x)
                         /\ Idle(x) /\ ~x.text /\ x.reasoning = "none"
                         /\ x.tools[event.call] = "none"
                         /\ \A c \in Call \ {event.call} : x.tools[c] = u.tools[c]
  BY <1>3, <1>4, <1>7, ToolFrames DEF Places
<1>9. Plays(wire, <<f, g, h>>, x) /\ <<f, g, h>> \in Seq(FrameSet)
  BY <1>6, <1>7, <1>8, ThreeFrames
<1>10. Encoded = <<f, g, h>> /\ <<f, g, h>> # <<>>
  BY <1>1, <1>2, <1>3 DEF Encoded
<1>11. ToolsOpen(x, Running)
  BY <1>4, <1>6, <1>7, <1>8 DEF ToolsOpen
<1> QED BY <1>8, <1>9, <1>10, <1>11 DEF OutsideStep

LEMMA EncodeCompletion ==
    ASSUME wire \in Wires, event \in Event, event.type = "run_completed",
           Awaits(wire, event, Running, text_open, reasoning_open)
    PROVE  /\ Encoded \in Seq(FrameSet) /\ Encoded # <<>>
           /\ \E v \in Wires : Plays(wire, Encoded, v) /\ v.run = "finished"
<1>1. PICK f \in FrameSet : f = Frame("RUN_FINISHED") /\ f.type = "RUN_FINISHED"
  BY FrameOf DEF Frames
<1>2. Encoded = <<f>> /\ <<f>> \in Seq(FrameSet) /\ <<f>> # <<>>
  BY <1>1 DEF Encoded
<1>3. Idle(wire) /\ ToolsDone(wire)
  BY DEF Awaits, OutsideStep, ToolsOpen, ToolsDone
<1>4. PICK v \in Wires : Plays(wire, <<f>>, v) /\ v.run = "finished"
  BY <1>1, <1>3, RunEnds
<1> QED BY <1>2, <1>4

LEMMA EncodeFailure ==
    ASSUME wire \in Wires, event \in Event, event.type = "run_failed",
           text_open \in BOOLEAN, reasoning_open \in BOOLEAN,
           Awaits(wire, event, Running, text_open, reasoning_open)
    PROVE  /\ Encoded \in Seq(FrameSet) /\ Encoded # <<>>
           /\ \E v \in Wires : Plays(wire, Encoded, v) /\ v.run = "error"
<1>1. PICK f \in FrameSet : f = Frame("RUN_ERROR") /\ f.type = "RUN_ERROR"
  BY FrameOf DEF Frames
<1>2. /\ wire.run = "open" /\ (wire.text <=> text_open)
      /\ wire.reasoning = IF reasoning_open THEN "message" ELSE "none"
      /\ text_open \/ reasoning_open => InStep(wire)
  BY DEF Awaits, Grouped, InStep
<1>3. PICK s \in Seq(FrameSet) : s = CloseReasoning \o CloseText
  BY <1>2, GroupsClose
<1>4. PICK v \in Wires : Plays(wire, s, v) /\ v.run = "open"
  BY <1>2, <1>3, GroupsClose
<1>5. PICK u \in Wires : Plays(v, <<f>>, u) /\ u.run = "error"
  BY <1>1, <1>4, RunEnds
<1>6. <<f>> \in Seq(FrameSet)
  OBVIOUS
<1>7. Plays(wire, s \o <<f>>, u)
  BY <1>4, <1>5, <1>6, PlaysBoth
<1>8. Encoded = s \o <<f>>
  BY <1>1, <1>3 DEF Encoded
<1>9. Encoded \in Seq(FrameSet) /\ Encoded # <<>>
  BY <1>6, <1>8
<1> QED BY <1>5, <1>7, <1>8, <1>9

\* Whatever the event, its frames lead from what it found to what stands after it.
LEMMA EncodedFits ==
    ASSUME LoopInv, wire \in Wires, event \in Event,
           text_open \in BOOLEAN, reasoning_open \in BOOLEAN, Encode,
           Awaits(wire, event, Running, text_open, reasoning_open)
    PROVE  /\ Encoded \in Seq(FrameSet) /\ Encoded # <<>>
           /\ \E v \in Wires : /\ Plays(wire, Encoded, v)
                               /\ Stands(v, Stage, Running, text_open', reasoning_open')
<1>1. /\ text_open' <=> event.type = "text" \/ (text_open /\ ~Boundary)
      /\ reasoning_open' <=> \/ event.type = "reasoning"
                             \/ reasoning_open /\ ~Boundary /\ event.type # "text"
  BY DEF Encode
<1>2. Running \subseteq Call
  BY RunningCalls
<1>3. CASE event.type = "iteration_started"
  <2>1. ~text_open' /\ ~reasoning_open'
    BY <1>1, <1>3 DEF Boundary
  <2>2. PICK v \in Wires : /\ Plays(wire, Encoded, v)
                           /\ Within(v, Running) /\ ~v.text /\ v.reasoning = "none"
    BY <1>3, EncodeStart
  <2>3. Stands(v, Stage, Running, text_open', reasoning_open')
    BY <1>3, <2>1, <2>2, StageMeans DEF Stands, Within, InStep, Grouped
  <2> QED BY <1>3, <2>2, <2>3, EncodeStart
<1>4. CASE event.type = "text"
  <2>1. text_open' /\ ~reasoning_open'
    BY <1>1, <1>4 DEF Boundary
  <2>2. PICK v \in Wires : /\ Plays(wire, Encoded, v)
                           /\ Within(v, Running) /\ v.text /\ v.reasoning = "none"
    BY <1>4, EncodeText
  <2>3. Stands(v, Stage, Running, text_open', reasoning_open')
    BY <1>4, <2>1, <2>2, StageMeans DEF Stands, Within, InStep, Grouped
  <2> QED BY <1>4, <2>2, <2>3, EncodeText
<1>5. CASE event.type = "reasoning"
  <2>1. (text_open' <=> text_open) /\ reasoning_open'
    BY <1>1, <1>5 DEF Boundary
  <2>2. PICK v \in Wires : /\ Plays(wire, Encoded, v)
                           /\ Within(v, Running)
                           /\ (v.text <=> text_open) /\ v.reasoning = "message"
    BY <1>5, EncodeReasoning
  <2>3. Stands(v, Stage, Running, text_open', reasoning_open')
    BY <1>5, <2>1, <2>2, StageMeans DEF Stands, Within, InStep, Grouped
  <2> QED BY <1>5, <2>2, <2>3, EncodeReasoning
<1>6. CASE event.type = "iteration_completed"
  <2>1. ~text_open' /\ ~reasoning_open'
    BY <1>1, <1>6 DEF Boundary
  <2>2. PICK v \in Wires : Plays(wire, Encoded, v) /\ OutsideStep(v, Running)
    BY <1>6, EncodeAnswer
  <2>3. Stands(v, Stage, Running, text_open', reasoning_open')
    BY <1>6, <2>1, <2>2, StageMeans DEF Stands, OutsideStep, Idle
  <2> QED BY <1>6, <2>2, <2>3, EncodeAnswer
<1>7. CASE event.type \in {"tool_started", "tool_finished"}
  <2>1. ~text_open' /\ ~reasoning_open'
    BY <1>1, <1>7 DEF Awaits
  <2>2. PICK v \in Wires : Plays(wire, Encoded, v) /\ OutsideStep(v, Running)
    BY <1>2, <1>7, EncodeToolStarts, EncodeToolEnds
  <2>3. Stands(v, Stage, Running, text_open', reasoning_open')
    BY <1>7, <2>1, <2>2, StageMeans DEF Stands, OutsideStep, Idle
  <2> QED BY <1>2, <1>7, <2>2, <2>3, EncodeToolStarts, EncodeToolEnds
<1>8. CASE event.type = "run_completed"
  <2>1. PICK v \in Wires : Plays(wire, Encoded, v) /\ v.run = "finished"
    BY <1>8, EncodeCompletion
  <2>2. Stands(v, Stage, Running, text_open', reasoning_open')
    BY <1>8, <2>1, StageMeans DEF Stands
  <2> QED BY <1>8, <2>1, <2>2, EncodeCompletion
<1>9. CASE event.type = "run_failed"
  <2>1. PICK v \in Wires : Plays(wire, Encoded, v) /\ v.run = "error"
    BY <1>9, EncodeFailure
  <2>2. Stands(v, Stage, Running, text_open', reasoning_open')
    BY <1>9, <2>1, StageMeans DEF Stands
  <2> QED BY <1>9, <2>1, <2>2, EncodeFailure
<1>10. event.type \in {"iteration_started", "text", "reasoning", "iteration_completed",
                      "tool_started", "tool_finished", "run_completed", "run_failed"}
  BY DEF Event
<1> QED BY <1>3, <1>4, <1>5, <1>6, <1>7, <1>8, <1>9, <1>10

-----------------------------------------------------------------------------
(* What the loop yields *)

\* Nothing is yielded.
Rests == UNCHANGED <<event, announced, results, pulled>>

\* The event that is yielded, at its place in the run.
Yields ==
    /\ pulled' = FALSE /\ event' \in Event /\ event' # None
    /\ \/ /\ event'.type = "iteration_started" /\ Stage \in {"ready", "answered"}
          /\ Running = {} /\ Running' = {}
       \/ event'.type \in {"text", "reasoning"} /\ Stage = "model" /\ Running' = Running
       \/ event'.type = "iteration_completed" /\ Stage = "model" /\ Running' = Running
       \/ event'.type = "run_completed" /\ Stage = "answered" /\ Running = {} /\ Running' = {}
       \/ event'.type = "run_failed" /\ Stage \in {"model", "answered"} /\ Running' = Running
       \/ /\ event'.type = "tool_started" /\ Stage = "answered"
          /\ event'.call \notin Running /\ Running' = Running \cup {event'.call}
       \/ /\ event'.type = "tool_finished" /\ Stage = "answered"
          /\ event'.call \in Running /\ Running' = Running \ {event'.call}

\* Whatever moves the loop does so while its consumer waits.
LEMMA LoopWaits ==
    ASSUME LoopStep \/ Delta \/ ModelEnds, ~(Enter \/ GatherFails \/ Gathered \/ StartIteration)
    PROVE  pulled
  BY DEF LoopStep, LookAtCalls, Announce, Execute, Collect, FinishCalls, Exit, Delta, ModelEnds,
         ModelAnswers, ModelFails

LEMMA RunningStays ==
    ASSUME UNCHANGED <<announced, results>>
    PROVE  Running' = Running
  BY DEF Running, Announced, Finished

LEMMA LoopYields ==
    ASSUME LoopInv, LoopStep \/ Delta \/ ModelEnds
    PROVE  Rests \/ Yields
<1>1. CASE Enter \/ Execute \/ Gathered \/ FinishCalls \/ Exit
  BY <1>1 DEF Enter, Execute, Gathered, FinishCalls, Exit, Rests
<1>2. CASE StartIteration
  <2>1. /\ announced' = <<>> /\ results' = <<>> /\ pulled' = FALSE
        /\ event' \in Event /\ event' # None /\ event'.type = "iteration_started"
    BY <1>2, Yielded DEF StartIteration
  <2>2. Running' = {}
    <3>1. DOMAIN <<>> = {}
      OBVIOUS
    <3>2. Announced' = {}
      BY <2>1, <3>1 DEF Announced, Range
    <3> QED BY <3>2 DEF Running
  <2>3. \/ event = None /\ announced = <<>>
        \/ Stage = "answered" /\ Finished = Asked
    BY <1>2 DEF StartIteration, LoopInv, StageFits
  <2>4. Stage \in {"ready", "answered"} /\ Running = {}
    <3>1. CASE event = None /\ announced = <<>>
      <4>1. DOMAIN <<>> = {}
        OBVIOUS
      <4>2. Announced = {}
        BY <3>1, <4>1 DEF Announced, Range
      <4> QED BY <3>1, <4>2, RecordFits, StageMeans DEF Running
    <3>2. CASE Stage = "answered" /\ Finished = Asked
      <4>1. Announced \subseteq Asked
        BY DEF LoopInv, ReportsFit
      <4> QED BY <3>2, <4>1 DEF Running
    <3> QED BY <2>3, <3>1, <3>2
  <2> QED BY <2>1, <2>2, <2>4 DEF Yields
<1>3. CASE Delta \/ ModelAnswers \/ ModelFails
  <2>1. pc = "model" /\ UNCHANGED <<announced, results>>
    BY <1>3 DEF Delta, ModelAnswers, ModelFails
  <2>2. Stage = "model" /\ Running' = Running
    BY <2>1, RunningStays DEF LoopInv, StageFits
  <2>3. /\ event' \in Event /\ event' # None /\ pulled' = FALSE
        /\ event'.type \in {"text", "reasoning", "iteration_completed", "run_failed"}
    BY <1>3, Yielded DEF Delta, ModelAnswers, ModelFails
  <2> QED BY <2>2, <2>3 DEF Yields
<1>4. CASE LookAtCalls
  <2>1. pc = "answered" /\ UNCHANGED <<announced, results>>
    BY <1>4 DEF LookAtCalls
  <2>2. Stage = "answered" /\ Running = {} /\ Running' = {}
    <3>1. event.type = "iteration_completed" /\ announced = <<>>
      BY <2>1 DEF LoopInv, StageFits
    <3>2. DOMAIN <<>> = {}
      OBVIOUS
    <3>3. Announced = {}
      BY <3>1, <3>2 DEF Announced, Range
    <3>4. Running = {}
      BY <3>3 DEF Running
    <3> QED BY <2>1, <3>1, <3>4, RecordFits, StageMeans, RunningStays
  <2>3. CASE Yield("run_completed", "", "") \/ Yield("run_failed", "", "")
    <3>1. /\ event' \in Event /\ event' # None /\ pulled' = FALSE
          /\ event'.type \in {"run_completed", "run_failed"}
      BY <2>3, Yielded
    <3> QED BY <2>2, <3>1 DEF Yields
  <2>4. CASE UNCHANGED <<event, pulled>>
    BY <2>1, <2>4 DEF Rests
  <2> QED BY <1>4, <2>3, <2>4 DEF LookAtCalls
<1>5. CASE GatherFails
  <2>1. /\ pc = "gather" /\ UNCHANGED <<announced, results>>
        /\ event' \in Event /\ event' # None /\ pulled' = FALSE /\ event'.type = "run_failed"
    BY <1>5, Yielded DEF GatherFails
  <2>2. Stage = "answered" /\ Running' = Running
    BY <2>1, RunningStays DEF LoopInv, StageFits, Working
  <2> QED BY <2>1, <2>2 DEF Yields
<1>6. CASE Announce
  <2>1. PICK c : c = First(Batch \ Announced)
    OBVIOUS
  <2>2. /\ pc = "calls" /\ UNCHANGED results
        /\ announced' = Append(announced, c) /\ Yield("tool_started", c, "")
    BY <1>6, <2>1 DEF Announce
  <2>3. c \in Asked \ Announced /\ c \in Call
    <3>1. Batch \ Announced \subseteq Asked /\ Batch \ Announced # {}
      BY <1>6, BatchShape DEF Announce
    <3>2. c \in Batch \ Announced
      BY <2>1, <3>1, FirstOf DEF LoopInv, TypeOK, ReportsFit
    <3> QED BY <3>1, <3>2, RecordFits
  <2>4. /\ event' \in Event /\ event' # None /\ pulled' = FALSE
        /\ event'.type = "tool_started" /\ event'.call = c
    BY <2>2, <2>3, Yielded
  <2>5. Stage = "answered"
    BY <2>2 DEF LoopInv, StageFits, Working
  <2>6. Finished' = Finished
    BY <2>2 DEF Finished
  <2>7. Announced' = Announced \cup {c}
    <3>1. announced \in Seq(Call) /\ c \in Call /\ announced' = Append(announced, c)
      BY <2>2, <2>3 DEF LoopInv, TypeOK
    <3>2. Range(announced') = Range(announced) \cup {c}
      BY <3>1, AppendedRange
    <3> QED BY <3>2 DEF Announced
  <2>8. c \notin Finished
    BY <2>3, FinishedAnnounced
  <2>9. c \notin Running /\ Running' = Running \cup {c}
    BY <2>3, <2>6, <2>7, <2>8 DEF Running
  <2> QED BY <2>4, <2>5, <2>9 DEF Yields
<1>7. CASE Collect
  <2>1. PICK c : c = First(Batch \ Finished)
    OBVIOUS
  <2>2. PICK status \in {"ok", "error"} :
            /\ pc = "collect" /\ UNCHANGED announced
            /\ results' = Append(results, [call |-> c, status |-> status])
            /\ Yield("tool_finished", c, status)
    BY <1>7, <2>1 DEF Collect
  <2>3. c \in Announced \ Finished /\ c \in Call
    <3>1. /\ Batch \ Finished \subseteq Asked /\ Batch \ Finished # {} /\ Batch \subseteq Announced
      BY <2>2, BatchShape DEF LoopInv, BatchFits
    <3>2. c \in Batch \ Finished
      BY <2>1, <3>1, FirstOf DEF LoopInv, TypeOK, ReportsFit
    <3> QED BY <3>1, <3>2, RecordFits
  <2>4. /\ event' \in Event /\ event' # None /\ pulled' = FALSE
        /\ event'.type = "tool_finished" /\ event'.call = c
    BY <2>2, <2>3, Yielded
  <2>5. Stage = "answered"
    BY <2>2 DEF LoopInv, StageFits, Working
  <2>6. Announced' = Announced
    BY <2>2 DEF Announced
  <2>7. Finished' = Finished \cup {c}
    BY <2>2, <2>3, AppendedResult
  <2>8. c \in Running /\ Running' = Running \ {c}
    BY <2>3, <2>6, <2>7 DEF Running
  <2> QED BY <2>4, <2>5, <2>8 DEF Yields
<1> QED BY <1>1, <1>2, <1>3, <1>4, <1>5, <1>6, <1>7 DEF LoopStep, ModelEnds

-----------------------------------------------------------------------------
(* The steps of the stream *)

\* The wire that stood still is the one on which the new event finds its place.
LEMMA AwaitsNext ==
    ASSUME LoopInv, Yields, Stands(wire, Stage, Running, text_open, reasoning_open),
           UNCHANGED streamVars
    PROVE  Awaits(wire', event', Running', text_open', reasoning_open')
<1>1. wire' = wire /\ (text_open' <=> text_open) /\ (reasoning_open' <=> reasoning_open)
  BY DEF streamVars
<1>2. CASE event'.type \in {"iteration_started", "run_completed"}
  <2>1. Stage \in {"ready", "answered"} /\ Running = {} /\ Running' = {}
    BY <1>2 DEF Yields
  <2>2. ~text_open /\ ~reasoning_open /\ OutsideStep(wire, Running)
    BY <2>1 DEF Stands
  <2> QED BY <1>1, <1>2, <2>1, <2>2 DEF Awaits, OutsideStep, Idle
<1>3. CASE event'.type \in {"text", "reasoning", "iteration_completed"}
  <2>1. Stage = "model" /\ Running' = Running
    BY <1>3 DEF Yields
  <2>2. Within(wire, Running) /\ Grouped(wire, text_open, reasoning_open)
    BY <2>1 DEF Stands
  <2> QED BY <1>1, <1>3, <2>1, <2>2 DEF Awaits, Within, InStep, Grouped
<1>4. CASE event'.type = "run_failed"
  <2>1. Stage \in {"model", "answered"}
    BY <1>4 DEF Yields
  <2>2. CASE Stage = "model"
    <3>1. Within(wire, Running) /\ Grouped(wire, text_open, reasoning_open)
      BY <2>2 DEF Stands
    <3> QED BY <1>1, <1>4, <3>1 DEF Awaits, Within, InStep, Grouped
  <2>3. CASE Stage = "answered"
    <3>1. ~text_open /\ ~reasoning_open /\ OutsideStep(wire, Running)
      BY <2>3 DEF Stands
    <3> QED BY <1>1, <1>4, <3>1 DEF Awaits, OutsideStep, Idle, Grouped
  <2> QED BY <2>1, <2>2, <2>3
<1>5. CASE event'.type \in {"tool_started", "tool_finished"}
  <2>1. PICK c : c = event'.call
    OBVIOUS
  <2>2. Stage = "answered"
    BY <1>5 DEF Yields
  <2>3. ~text_open /\ ~reasoning_open /\ OutsideStep(wire, Running)
    BY <2>2 DEF Stands
  <2>4. CASE event'.type = "tool_started"
    <3>1. c \notin Running /\ Running' = Running \cup {c}
      BY <2>1, <2>4 DEF Yields
    <3>2. c \in Running' /\ Running' \ {c} = Running
      BY <3>1
    <3>3. wire'.run = "open" /\ OutsideStep(wire', Running' \ {c})
      BY <1>1, <2>3, <3>2 DEF OutsideStep, Idle
    <3> QED BY <1>1, <2>1, <2>3, <2>4, <3>2, <3>3 DEF Awaits
  <2>5. CASE event'.type = "tool_finished"
    <3>1. c \in Running /\ Running' = Running \ {c}
      BY <2>1, <2>5 DEF Yields
    <3>2. c \in Call \ Running' /\ Running' \cup {c} = Running
      BY <3>1, RunningCalls
    <3>3. wire'.run = "open" /\ OutsideStep(wire', Running' \cup {c})
      BY <1>1, <2>3, <3>2 DEF OutsideStep, Idle
    <3> QED BY <1>1, <2>1, <2>3, <2>5, <3>2, <3>3 DEF Awaits
  <2> QED BY <1>5, <2>4, <2>5
<1>6. event'.type \in {"iteration_started", "text", "reasoning", "iteration_completed",
                     "tool_started", "tool_finished", "run_completed", "run_failed"}
  BY DEF Yields, Event
<1> QED BY <1>2, <1>3, <1>4, <1>5, <1>6

\* The loop rests wherever its next step does not wait for the consumer.
LEMMA LoopRests ==
    ASSUME LoopStep \/ Delta \/ ModelEnds
    PROVE  pc \notin Ended /\ (pc' \in {"loop", "gather"} => pulled' = pulled)
<1>1. CASE Enter \/ Execute \/ Gathered \/ FinishCalls \/ Exit
  BY <1>1 DEF Enter, Execute, Gathered, FinishCalls, Exit, Ended
<1>2. CASE StartIteration \/ LookAtCalls \/ Announce \/ GatherFails \/ Collect
  BY <1>2 DEF StartIteration, LookAtCalls, Announce, GatherFails, Collect, Ended
<1>3. CASE Delta \/ ModelAnswers \/ ModelFails
  BY <1>3 DEF Delta, ModelAnswers, ModelFails, Ended
<1> QED BY <1>1, <1>2, <1>3 DEF LoopStep, ModelEnds

LEMMA SameStage == ASSUME UNCHANGED event PROVE Stage' = Stage
  BY DEF Stage

LEMMA LoopMoveInv ==
    ASSUME StreamInv, LoopStep \/ Delta \/ ModelEnds, UNCHANGED streamVars
    PROVE  StreamInv'
<1>1. LoopInv /\ LoopInv' /\ TypeOK'
  BY RunStepInv DEF RunStep, StreamInv, LoopInv
<1>2. StreamTypeOK' /\ wire' \in Wires
  BY <1>1 DEF StreamInv, StreamTypeOK, streamVars
<1>3. pulled /\ pc \notin Ended
  <2>1. pulled \/ pc \in {"loop", "gather"}
    BY LoopWaits DEF Enter, StartIteration, GatherFails, Gathered
  <2> QED BY <2>1, LoopRests DEF StreamInv, LayersFit
<1>4. layer = "upstream" /\ layer' = "upstream"
  BY <1>3 DEF StreamInv, StreamTypeOK, LayersFit, streamVars
<1>5. Stands(wire, Stage, Running, text_open, reasoning_open)
  BY <1>3, <1>4 DEF StreamInv, FramesFit
<1>6. CASE Rests
  <2>1. Stage' = Stage /\ Running' = Running /\ pulled'
    BY <1>3, <1>6, SameStage, RunningStays DEF Rests
  <2>2. Stands(wire', Stage', Running', text_open', reasoning_open')
    BY <1>5, <2>1 DEF streamVars
  <2>3. FramesFit'
    BY <1>4, <2>1, <2>2 DEF FramesFit
  <2>4. LayersFit'
    BY <1>4, <2>1 DEF LayersFit
  <2> QED BY <1>1, <1>2, <2>3, <2>4 DEF StreamInv
<1>7. CASE Yields
  <2>1. Awaits(wire', event', Running', text_open', reasoning_open')
    BY <1>1, <1>5, <1>7, AwaitsNext
  <2>2. pulled' = FALSE /\ event' # None
    BY <1>7 DEF Yields
  <2>3. FramesFit'
    BY <1>4, <2>1, <2>2 DEF FramesFit
  <2>4. pc' \notin {"loop", "gather"}
    BY <1>3, <2>2, LoopRests
  <2>5. LayersFit'
    BY <1>4, <2>2, <2>4 DEF LayersFit
  <2> QED BY <1>1, <1>2, <2>3, <2>5 DEF StreamInv
<1> QED BY <1>1, <1>6, <1>7, LoopYields

\* What a step that leaves the loop and the frames alone keeps.
LEMMA Untouched ==
    ASSUME StreamInv, LoopInv', UNCHANGED <<announced, results, event, pulled>>,
           UNCHANGED streamVars, pc' = pc \/ pc' = "dropped"
    PROVE  StreamInv'
<1>1. StreamTypeOK' /\ wire' \in Wires
  BY DEF StreamInv, StreamTypeOK, streamVars, LoopInv
<1>2. Stage' = Stage /\ Running' = Running
  BY SameStage, RunningStays
<1>3. LayersFit'
  BY DEF StreamInv, LayersFit, streamVars, Ended
<1>4. FramesFit'
  BY <1>2 DEF StreamInv, FramesFit, streamVars
<1> QED BY <1>1, <1>3, <1>4 DEF StreamInv

LEMMA EncodeInv == ASSUME StreamInv, Encode PROVE StreamInv'
<1>1. /\ layer = "upstream" /\ ~pulled /\ UNCHANGED runVars /\ wire' = wire
      /\ layer' = "sending" /\ out' = Encoded
      /\ text_open' \in BOOLEAN /\ reasoning_open' \in BOOLEAN
  BY DEF Encode
<1>2. UNCHANGED <<pc, iteration, history, calls, announced, results, task, event, pulled>>
  BY <1>1 DEF runVars
<1>3. LoopInv /\ LoopInv' /\ TypeOK'
  <2>1. LoopInv /\ pulled' \in BOOLEAN
    BY <1>2 DEF StreamInv, LoopInv, TypeOK
  <2>2. LoopInv'
    BY <1>2, <2>1, AsksStep DEF Asks
  <2> QED BY <2>1, <2>2 DEF LoopInv
<1>4. /\ wire \in Wires /\ text_open \in BOOLEAN /\ reasoning_open \in BOOLEAN
      /\ tool_call_order \in Seq(Call) /\ tool_rows \subseteq 1 .. HardCap
  BY DEF StreamInv, StreamTypeOK
<1>5. event \in Event /\ event # None /\ iteration \in 1 .. HardCap
  <2>1. event # None /\ event \in Event \cup {None} /\ iteration \in 0 .. HardCap
    BY <1>1, <1>3 DEF StreamInv, LayersFit, LoopInv, TypeOK
  <2>2. iteration >= 1
    BY <1>3, <2>1 DEF LoopInv, StageFits
  <2> QED BY <2>1, <2>2, BoundsPositive
<1>6. Awaits(wire, event, Running, text_open, reasoning_open)
  BY <1>1 DEF StreamInv, FramesFit
<1>7. Encoded \in Seq(FrameSet) /\ Encoded # <<>>
  BY <1>3, <1>4, <1>5, <1>6, EncodedFits
<1>8. PICK v \in Wires : /\ Plays(wire, Encoded, v)
                         /\ Stands(v, Stage, Running, text_open', reasoning_open')
  BY <1>3, <1>4, <1>5, <1>6, EncodedFits
<1>9. tool_call_order' \in Seq(Call)
  <2>1. event.type = "tool_started" => event.call \in Call
    BY <1>3, <1>6, RunningCalls DEF Awaits
  <2>2. event.type = "tool_started" => Append(tool_call_order, event.call) \in Seq(Call)
    BY <1>4, <2>1, AppendProperties
  <2>3. <<>> \in Seq(Call)
    OBVIOUS
  <2>4. \/ tool_call_order' = <<>>
        \/ tool_call_order' = tool_call_order
        \/ event.type = "tool_started" /\ tool_call_order' = Append(tool_call_order, event.call)
    BY DEF Encode, Persist
  <2> QED BY <1>4, <2>2, <2>3, <2>4
<1>10. tool_rows' \subseteq 1 .. HardCap
  BY <1>4, <1>5 DEF Encode, Persist
<1>11. StreamTypeOK'
  BY <1>1, <1>3, <1>7, <1>9, <1>10 DEF StreamTypeOK, FrameSet
<1>12. Stage' = Stage /\ Running' = Running
  BY <1>2, SameStage, RunningStays
<1>13. LayersFit'
  BY <1>1, <1>2, <1>7 DEF StreamInv, LayersFit
<1>14. FramesFit'
  BY <1>1, <1>8, <1>12 DEF FramesFit
<1> QED BY <1>1, <1>3, <1>4, <1>11, <1>13, <1>14 DEF StreamInv

LEMMA SendInv ==
    ASSUME StreamInv, Send
    PROVE  StreamInv' /\ Head(out) \in FrameSet /\ Allowed(wire, Head(out))
<1>1. /\ layer \in {"sending", "closing"}
      /\ out' = Tail(out) /\ wire' = Seen(wire, Head(out))
      /\ UNCHANGED <<pc, iteration, history, calls, announced, results, task, event,
                     tool_call_order, tool_rows, text_open, reasoning_open>>
  BY DEF Send
<1>2. pulled' \in BOOLEAN
  BY DEF StreamInv, LoopInv, TypeOK, Send, Pull
<1>3. LoopInv /\ LoopInv' /\ TypeOK'
  <2>1. LoopInv /\ LoopInv'
    BY <1>1, <1>2, AsksStep DEF Asks, StreamInv
  <2> QED BY <2>1 DEF LoopInv
<1>4. wire \in Wires /\ out \in Seq(FrameSet)
  BY DEF StreamInv, StreamTypeOK, FrameSet
<1>5. Stage' = Stage /\ Running' = Running
  BY <1>1, SameStage, RunningStays
<1>6. CASE layer = "sending"
  <2>1. ~pulled /\ out # <<>>
    BY <1>6 DEF StreamInv, LayersFit
  <2>2. PICK v \in Wires : /\ Plays(wire, out, v)
                           /\ Stands(v, Stage, Running, text_open, reasoning_open)
    BY <1>6 DEF StreamInv, FramesFit
  <2>3. /\ Head(out) \in FrameSet /\ Allowed(wire, Head(out))
        /\ out' \in Seq(FrameSet) /\ Plays(wire', out', v)
    BY <1>1, <1>4, <2>1, <2>2, PlaysHead
  <2>4. wire' \in Wires
    BY <1>1, <1>4, <2>3, WireTypes
  <2>5. Stands(v, Stage', Running', text_open', reasoning_open')
    BY <1>1, <1>5, <2>2
  <2>6. CASE Len(out) > 1
    <3>1. layer' = "sending" /\ ~pulled'
      BY <1>6, <2>1, <2>6 DEF Send
    <3>2. out' # <<>>
      <4>1. Len(Tail(out)) = Len(out) - 1 /\ Len(out) \in Nat
        BY <1>4, <2>1, HeadTailProperties
      <4>2. PICK n, m : n \in Nat /\ n = Len(out) /\ m = Len(Tail(out))
        BY <4>1
      <4>3. m = n - 1 /\ n > 1
        BY <2>6, <4>1, <4>2
      <4>4. m # 0
        BY <4>3
      <4>5. Len(<<>>) = 0
        OBVIOUS
      <4> QED BY <1>1, <4>2, <4>4, <4>5
    <3>3. StreamTypeOK'
      BY <1>1, <1>3, <2>3, <3>1 DEF StreamInv, StreamTypeOK, FrameSet
    <3>4. LayersFit'
      BY <1>1, <2>1, <3>1, <3>2 DEF StreamInv, LayersFit
    <3>5. FramesFit'
      BY <2>2, <2>3, <2>5, <3>1 DEF FramesFit
    <3> QED BY <1>3, <2>3, <2>4, <3>3, <3>4, <3>5 DEF StreamInv
  <2>7. CASE ~(Len(out) > 1)
    <3>1. layer' = "upstream" /\ pulled'
      BY <1>6, <2>7 DEF Send, Pull
    <3>2. out' = <<>>
      <4>1. Len(Tail(out)) = Len(out) - 1 /\ Len(out) \in Nat /\ Len(out) # 0
        BY <1>4, <2>1
      <4>2. Len(out) = 1 /\ Len(Tail(out)) = 0
        BY <2>7, <4>1
      <4> QED BY <1>1, <2>3, <4>2, EmptySeq
    <3>3. v = wire'
      BY <2>3, <2>4, <3>2, PlaysNone
    <3>4. StreamTypeOK'
      BY <1>1, <1>3, <2>3, <3>1 DEF StreamInv, StreamTypeOK, FrameSet
    <3>5. LayersFit'
      BY <1>1, <3>1 DEF StreamInv, LayersFit
    <3>6. FramesFit'
      BY <2>5, <3>1, <3>3 DEF FramesFit
    <3> QED BY <1>3, <2>3, <2>4, <3>4, <3>5, <3>6 DEF StreamInv
  <2> QED BY <2>6, <2>7
<1>7. CASE layer = "closing"
  <2>1. PICK f \in FrameSet : out = <<f>> /\ f.type = "RUN_ERROR" /\ wire.run # "none"
    BY <1>7 DEF StreamInv, FramesFit
  <2>2. Head(out) = f /\ Len(out) = 1 /\ Tail(out) \in Seq(FrameSet)
    BY <2>1, <1>4
  <2>3. Allowed(wire, f)
    BY <2>1 DEF Allowed
  <2>4. wire' \in Wires
    BY <1>1, <1>4, <2>2, <2>3, WireTypes
  <2>5. layer' = "over"
    BY <1>7, <2>2 DEF Send
  <2>6. pc' \in Ended
    BY <1>1, <1>7 DEF StreamInv, LayersFit
  <2>7. StreamTypeOK'
    BY <1>1, <1>3, <2>2, <2>5 DEF StreamInv, StreamTypeOK, FrameSet
  <2>8. LayersFit' /\ FramesFit'
    BY <2>5, <2>6 DEF LayersFit, FramesFit, Ended
  <2> QED BY <1>3, <2>2, <2>3, <2>4, <2>7, <2>8 DEF StreamInv
<1> QED BY <1>1, <1>6, <1>7

\* Of an ended loop and a stream that is over or has only its error left to say.
LEMMA ErrorInv ==
    ASSUME StreamInv, LoopInv', UNCHANGED <<tool_call_order, tool_rows, text_open, reasoning_open, wire>>,
           pc' \in Ended,
           \/ layer' = "over" /\ out' \in {<<>>, out}
           \/ layer = "upstream" /\ layer' = "closing" /\ out' = <<Frame("RUN_ERROR")>>
    PROVE  StreamInv'
<1>1. PICK f \in FrameSet : f = Frame("RUN_ERROR") /\ f.type = "RUN_ERROR"
  <2>1. event \in Event \cup {None}
    BY DEF StreamInv, LoopInv, TypeOK
  <2> QED BY <2>1, FrameOf DEF Frames
<1>2. <<>> \in Seq(FrameSet) /\ <<f>> \in Seq(FrameSet) /\ out \in Seq(FrameSet)
  <2>1. <<>> \in Seq(FrameSet) /\ <<f>> \in Seq(FrameSet)
    OBVIOUS
  <2>2. out \in Seq(FrameSet)
    BY DEF StreamInv, StreamTypeOK, FrameSet
  <2> QED BY <2>1, <2>2
<1>3. out' \in Seq(FrameSet) /\ layer' \in {"closing", "over"}
  BY <1>1, <1>2
<1>4. StreamTypeOK'
  BY <1>3 DEF StreamInv, StreamTypeOK, FrameSet, LoopInv
<1>5. LayersFit'
  BY <1>3 DEF LayersFit, Ended
<1>6. layer' = "closing" => wire'.run # "none" /\ out' = <<f>>
  BY <1>1 DEF StreamInv, FramesFit, Stands, Awaits
<1>7. FramesFit'
  BY <1>1, <1>3, <1>6 DEF FramesFit
<1> QED BY <1>4, <1>5, <1>7 DEF StreamInv

LEMMA StreamStepInv == ASSUME StreamInv, [Next]_vars PROVE StreamInv'
<1>1. LoopInv /\ LoopInv'
  BY StreamRuns, RunStepInv DEF StreamInv
<1>2. CASE (LoopStep \/ Delta \/ ModelEnds) /\ UNCHANGED streamVars
  BY <1>2, LoopMoveInv
<1>3. CASE (\E c \in Call : TaskStep(c)) /\ UNCHANGED streamVars
  <2>1. UNCHANGED <<pc, announced, results, event, pulled>>
    BY <1>1, <1>3, TaskMoves
  <2> QED BY <1>1, <1>3, <2>1, Untouched
<1>4. CASE Encode
  BY <1>4, EncodeInv
<1>5. CASE Send
  BY <1>5, SendInv
<1>6. CASE PersistRaises
  BY <1>1, <1>6, ErrorInv DEF PersistRaises, ReportError, Drop, Ended
<1>7. CASE LoopRaises
  BY <1>1, <1>7, ErrorInv DEF LoopRaises, ReportError, runVars, Ended
<1>8. CASE StreamEnds
  BY <1>1, <1>8, ErrorInv DEF StreamEnds, runVars, Ended
<1>9. CASE Disconnect
  <2>1. pc' \in Ended
    BY <1>9 DEF Disconnect, Drop, runVars, Ended
  <2> QED BY <1>1, <1>9, <2>1, ErrorInv DEF Disconnect
<1>10. CASE UNCHANGED vars
  <2>1. UNCHANGED streamVars /\ UNCHANGED <<pc, announced, results, event, pulled>>
    BY <1>10 DEF vars, runVars
  <2> QED BY <1>1, <2>1, Untouched
<1> QED BY <1>2, <1>3, <1>4, <1>5, <1>6, <1>7, <1>8, <1>9, <1>10 DEF Next, StreamStep

LEMMA StreamInitInv == ASSUME Init PROVE StreamInv
<1>1. LoopInv /\ TypeOK
  BY RunInitInv DEF Init, LoopInv
<1>2. /\ event = None /\ pulled = FALSE /\ pc = "enter" /\ layer = "sending"
      /\ text_open = FALSE /\ reasoning_open = FALSE
      /\ tool_call_order = <<>> /\ tool_rows = {} /\ announced = <<>>
      /\ out = <<Frame("RUN_STARTED")>> /\ wire = [Wire!Opened EXCEPT !.run = "none"]
  BY DEF Init, RunInit, Wire!Init
<1>3. PICK f \in FrameSet : f = Frame("RUN_STARTED") /\ f.type = "RUN_STARTED"
  BY <1>2, FrameOf DEF Frames
<1>4. out = <<f>> /\ <<f>> \in Seq(FrameSet) /\ <<f>> # <<>> /\ <<>> \in Seq(Call)
  BY <1>2, <1>3
<1>5. StreamTypeOK
  BY <1>1, <1>2, <1>4 DEF StreamTypeOK, FrameSet
<1>6. Wire!Opened \in Wires
  BY DEF Wire!Opened, Wires, Places
<1>7. wire \in Wires
  BY <1>2, <1>6 DEF Wires
<1>8. Allowed(wire, f)
  BY <1>2, <1>3 DEF Allowed
<1>9. Seen(wire, f) = [wire EXCEPT !.run = "open"]
  BY <1>3 DEF Seen
<1>10. PICK v \in Wires : v = [wire EXCEPT !.run = "open"] /\ Plays(wire, <<f>>, v)
  BY <1>7, <1>8, <1>9, PlaysOne
<1>11. /\ wire.step = FALSE /\ wire.text = FALSE /\ wire.reasoning = "none" /\ wire.due = "none"
       /\ \A c \in Call : wire.tools[c] = "none"
  BY <1>2 DEF Wire!Opened
<1>12. /\ v.run = "open" /\ ~v.step /\ ~v.text /\ v.reasoning = "none" /\ v.due = "none"
       /\ v.tools = wire.tools
  BY <1>7, <1>10, <1>11 DEF Wires
<1>13. Running = {}
  <2>1. DOMAIN <<>> = {}
    OBVIOUS
  <2>2. Announced = {}
    BY <1>2, <2>1 DEF Announced, Range
  <2> QED BY <2>2 DEF Running
<1>14. OutsideStep(v, Running)
  BY <1>11, <1>12, <1>13 DEF OutsideStep, Idle, ToolsOpen
<1>15. Stands(v, Stage, Running, text_open, reasoning_open)
  <2>1. Stage = "ready"
    BY <1>2, StageMeans
  <2> QED BY <1>2, <1>12, <1>14, <2>1 DEF Stands
<1>16. LayersFit
  BY <1>2, <1>4 DEF LayersFit, Ended
<1>17. FramesFit
  BY <1>2, <1>4, <1>10, <1>15 DEF FramesFit
<1> QED BY <1>1, <1>5, <1>7, <1>16, <1>17 DEF StreamInv

-----------------------------------------------------------------------------
(* What follows for the frames *)

\* StreamInv holds in every state of the stream.
THEOREM StreamInvariant == Spec => []StreamInv
<1>1. Init => StreamInv
  BY StreamInitInv
<1>2. StreamInv /\ [Next]_vars => StreamInv'
  BY StreamStepInv
<1> QED BY <1>1, <1>2, PTL DEF Spec

\* The types of the stream's variables: no row of tool results is stored outside
\* the iterations of the run, and every frame is one of the protocol.
THEOREM StreamTypes == Spec => []StreamTypeOK
<1>1. StreamInv => StreamTypeOK
  BY DEF StreamInv
<1> QED BY <1>1, StreamInvariant, PTL

\* Refinement: whatever the model, the tools, the database and the client do,
\* the frames of encode_sse keep the promise of AgUiStream.
THEOREM FramesKeepOrder == Spec => FrameOrder
<1>1. Init => Wire!Init
  BY DEF Init
<1>2. ASSUME StreamInv, [Next]_vars PROVE [Wire!Next]_wire
  <2>1. CASE Send
    <3>1. Head(out) \in FrameSet /\ Allowed(wire, Head(out)) /\ wire \in Wires
      BY <1>2, <2>1, SendInv DEF StreamInv
    <3> QED BY <2>1, <3>1, WireStep DEF Send
  <2>2. CASE ~Send
    <3>1. UNCHANGED wire
      BY <1>2, <2>2 DEF Next, StreamStep, streamVars, vars, Encode, PersistRaises, ReportError,
                        LoopRaises, StreamEnds, Disconnect
    <3> QED BY <3>1
  <2> QED BY <2>1, <2>2
<1> QED BY <1>1, <1>2, StreamInvariant, PTL DEF Spec, FrameOrder, Wire!Spec

\* Every frame that is sent is in its place, the contents of a text, a reasoning
\* or a tool call inside their group (encode_sse).
THEOREM FramesInPlace == Spec => [][Send => Allowed(wire, Head(out))]_vars
<1>1. StreamInv /\ [Next]_vars => [Send => Allowed(wire, Head(out))]_vars
  BY SendInv
<1> QED BY <1>1, StreamInvariant, PTL DEF Spec

-----------------------------------------------------------------------------
(* The inductive invariant of the span tree *)

ToolSpans == [call : Call, arguments : BOOLEAN, ended : BOOLEAN,
              status : {"pending", "", "ok", "error"}]

Iterations == [reasoning : {"none", "open", "closed"}, usage : BOOLEAN, span : BOOLEAN,
               tools : Seq(ToolSpans)]

\* Everything of the iteration but the outcomes has arrived.
Whole(it) ==
    /\ it.usage /\ it.span /\ it.reasoning # "open"
    /\ \A k \in 1 .. Len(it.tools) : it.tools[k].arguments /\ it.tools[k].ended

\* A tool span lacks what the frames of its call have left open.
ToolLacks(tool, place) ==
    /\ place # "started" => tool.arguments
    /\ place \notin {"started", "running"} => tool.arguments /\ tool.ended

\* What the frames sent so far have left open is what the latest iteration lacks.
Lacks(it, w) ==
    /\ w.reasoning \in {"none", "started"} => it.reasoning # "open"
    /\ ~w.step /\ w.due \in {"span", "none"} => it.usage
    /\ ~w.step /\ w.due = "none" => it.span
    /\ \A k \in 1 .. Len(it.tools) : ToolLacks(it.tools[k], w.tools[it.tools[k].call])

\* The frames by themselves put the tree in order.
TreeFits(t, w) ==
    /\ t \in Seq(Iterations)
    /\ ~w.step => w.reasoning = "none"
    /\ w.run = "finished" => ~w.step /\ w.due = "none" /\ ToolsDone(w)
    /\ \A i \in 1 .. Len(t) - 1 : Whole(t[i])
    /\ t # <<>> => Lacks(t[Len(t)], w)

\* Frames that leave the tool spans alone.
Other == Frames \ {"STEP_STARTED", "TOOL_CALL_START", "TOOL_CALL_ARGS", "TOOL_CALL_END",
                   "chatagents.tool_result", "RUN_FINISHED"}

\* What is still to be sent of the event.
OutFits ==
    layer = "sending" =>
        /\ event.type = "iteration_started" => out = <<Frame("STEP_STARTED")>>
        /\ event.type = "tool_started" =>
              \/ /\ out = <<Frame("TOOL_CALL_START"), Frame("TOOL_CALL_ARGS")>>
                 /\ wire.tools[event.call] = "none"
              \/ out = <<Frame("TOOL_CALL_ARGS")>> /\ wire.tools[event.call] # "none"
        /\ event.type = "tool_finished" =>
              \/ out = <<Frame("TOOL_CALL_END"), Frame("TOOL_CALL_RESULT"),
                         Frame("chatagents.tool_result")>>
              \/ out = <<Frame("TOOL_CALL_RESULT"), Frame("chatagents.tool_result")>>
              \/ out = <<Frame("chatagents.tool_result")>>
        /\ event.type = "run_completed" => out = <<Frame("RUN_FINISHED")>>
        /\ event.type \notin {"iteration_started", "tool_started", "tool_finished",
                              "run_completed"} =>
              \A k \in 1 .. Len(out) : out[k].type \in Other

\* Answers and results take turns.
Turns(h) ==
    /\ \A k \in 1 .. Len(h) : (h[k].kind = "results") <=> (\E i \in 1 .. k : k = 2 * i)
    /\ \A i \in 0 .. Len(h) : 2 * i <= Len(h) =>
          Cardinality({j \in 1 .. 2 * i : h[j].kind = "results"}) = i

TurnsFit ==
    /\ Turns(history)
    /\ Len(history) \in {2 * iteration - 2, 2 * iteration - 1, 2 * iteration}
    /\ pc \in {"enter", "loop"} => Len(history) = 2 * iteration
    /\ pc = "model" => Len(history) = 2 * iteration - 2
    /\ pc \in {"answered", "calls", "gather", "collect"} => Len(history) = 2 * iteration - 1
    /\ pc = "loop" /\ iteration >= 1 =>
          history[2 * iteration].results = results /\ Len(results) = Len(announced)

\* The event is the latest thing that happened.
EventFits ==
    /\ event.type \in {"iteration_started", "run_completed"} => announced = <<>> /\ results = <<>>
    /\ event.type = "run_completed" => pc \in {"exit"} \cup Ended
    /\ event.type = "tool_started" =>
          Len(results) < Len(announced) /\ announced[Len(announced)] = event.call
    /\ event.type = "tool_finished" =>
          /\ results # <<>>
          /\ results[Len(results)].call = event.call /\ results[Len(results)].status = event.status
    /\ wire.run = "finished" => event.type = "run_completed"

Awaited(type) == ~pulled /\ event.type = type

\* How much of the latest event the tree does not have yet.
Placed == IF Awaited("tool_started") /\ wire.tools[event.call] = "none"
          THEN Len(announced) - 1 ELSE Len(announced)
Told == IF Awaited("tool_finished") THEN Len(results) - 1 ELSE Len(results)

\* The tool spans of an iteration that is over show these results.
Shows(tools, outcomes) ==
    /\ Len(tools) = Len(outcomes)
    /\ \A k \in 1 .. Len(outcomes) : /\ tools[k].call = outcomes[k].call
                                     /\ tools[k].status = outcomes[k].status

\* Those of the latest one show the calls as far as they are placed and told.
ShowsSoFar(tools, placed, told) ==
    /\ Len(tools) = placed
    /\ \A k \in 1 .. placed :
          /\ tools[k].call = announced[k]
          /\ tools[k].status = IF k <= told THEN results[k].status ELSE "pending"

HasPlace(c) == \E k \in 1 .. Len(trace[iteration].tools) : trace[iteration].tools[k].call = c

SpansFit ==
    /\ Len(trace) = IF Awaited("iteration_started") THEN iteration - 1 ELSE iteration
    /\ \A i \in 1 .. Len(trace) : i < iteration => Shows(trace[i].tools, history[2 * i].results)
    /\ Len(trace) = iteration /\ iteration >= 1 =>
          ShowsSoFar(trace[iteration].tools, Placed, Told)
    /\ \A c \in Call : task[c].pc # "none" =>
          iteration >= 1 /\ Len(trace) = iteration /\ HasPlace(c)

TraceInv == TreeFits(trace, wire) /\ OutFits /\ TurnsFit /\ EventFits /\ SpansFit

-----------------------------------------------------------------------------
(* What a frame does to an iteration *)

Set(tool, field, value) == [tool EXCEPT ![field] = value]

LEMMA SetFits ==
    ASSUME NEW tool \in ToolSpans, NEW s \in {"", "ok", "error"}
    PROVE  /\ Set(tool, "arguments", TRUE) = [tool EXCEPT !.arguments = TRUE]
           /\ Set(tool, "ended", TRUE) = [tool EXCEPT !.ended = TRUE]
           /\ Set(tool, "status", s) = [tool EXCEPT !.status = s]
           /\ Set(tool, "arguments", TRUE) \in ToolSpans
           /\ Set(tool, "ended", TRUE) \in ToolSpans
           /\ Set(tool, "status", s) \in ToolSpans
  BY DEF Set, ToolSpans

\* The spans of the call, and no other, are set.
IsSet(n, it, c, field, value) ==
    /\ n \in Iterations
    /\ n.reasoning = it.reasoning /\ n.usage = it.usage /\ n.span = it.span
    /\ Len(n.tools) = Len(it.tools)
    /\ \A k \in 1 .. Len(it.tools) :
          n.tools[k] = IF it.tools[k].call = c THEN Set(it.tools[k], field, value)
                       ELSE it.tools[k]

LEMMA WithToolIs ==
    ASSUME NEW it \in Iterations, NEW c, NEW field, NEW value,
           \A tool \in ToolSpans : Set(tool, field, value) \in ToolSpans
    PROVE  IsSet(WithTool(it, c, field, value), it, c, field, value)
<1>0. PICK n : n = WithTool(it, c, field, value)
  OBVIOUS
<1>1. PICK s, m : s = it.tools /\ m \in Nat /\ m = Len(s)
  BY DEF Iterations
<1>2. s \in Seq(ToolSpans) /\ DOMAIN s = 1 .. m /\ \A k \in 1 .. m : s[k] \in ToolSpans
  BY <1>1 DEF Iterations
<1> DEFINE q == [k \in 1 .. m |-> IF s[k].call = c THEN Set(s[k], field, value) ELSE s[k]]
<1>3. n = [it EXCEPT !.tools = q]
  BY <1>0, <1>1, <1>2 DEF WithTool, Set
<1>4. \A k \in 1 .. m : q[k] \in ToolSpans /\ q[k] = IF s[k].call = c THEN Set(s[k], field, value) ELSE s[k]
  BY <1>2
<1>5. q \in Seq(ToolSpans) /\ Len(q) = m
  <2>1. m \in Nat
    BY <1>1
  <2>2. q \in [1 .. m -> ToolSpans]
    BY <1>4
  <2> HIDE DEF q
  <2> QED BY <2>1, <2>2
<1> HIDE DEF q
<1>6. /\ n \in Iterations /\ n.tools = q
      /\ n.reasoning = it.reasoning /\ n.usage = it.usage /\ n.span = it.span
  BY <1>3, <1>5 DEF Iterations
<1> QED BY <1>0, <1>1, <1>4, <1>5, <1>6 DEF IsSet

\* The call, the arguments and the end of a span, and its status.
Same(a, b) == a.call = b.call /\ a.status = b.status

\* What every frame keeps, and what the tool frames change.
LEMMA FramedIteration ==
    ASSUME NEW it \in Iterations, NEW f \in FrameSet, NEW n, n = InIteration(it, f),
           f.type # "STEP_STARTED", f.type = "TOOL_CALL_START" => f.call \in Call
    PROVE  /\ n \in Iterations
           /\ f.type \in Other \cup {"RUN_FINISHED"} => n.tools = it.tools
           /\ f.type \in {"TOOL_CALL_ARGS", "TOOL_CALL_END", "chatagents.tool_result"} =>
                 Len(n.tools) = Len(it.tools)
           /\ f.type \in {"TOOL_CALL_ARGS", "TOOL_CALL_END"} =>
                 \A k \in 1 .. Len(it.tools) : Same(n.tools[k], it.tools[k])
           /\ f.type = "chatagents.tool_result" =>
                 \A k \in 1 .. Len(it.tools) :
                    /\ n.tools[k].call = it.tools[k].call
                    /\ n.tools[k].status = IF it.tools[k].call = f.call THEN f.status
                                           ELSE it.tools[k].status
<1>1. CASE f.type = "TOOL_CALL_ARGS"
  <2>1. n = WithTool(it, f.call, "arguments", TRUE)
    BY <1>1 DEF InIteration
  <2>2. \A tool \in ToolSpans : Set(tool, "arguments", TRUE) \in ToolSpans
    BY SetFits
  <2>3. IsSet(n, it, f.call, "arguments", TRUE)
    BY <2>1, <2>2, WithToolIs, Zenon
  <2>4. \A k \in 1 .. Len(it.tools) : it.tools[k] \in ToolSpans
    BY DEF Iterations
  <2>5. \A tool \in ToolSpans : Same(Set(tool, "arguments", TRUE), tool)
    BY DEF Set, Same, ToolSpans
  <2> QED BY <1>1, <2>3, <2>4, <2>5 DEF Other, Same, IsSet
<1>2. CASE f.type = "TOOL_CALL_END"
  <2>1. n = WithTool(it, f.call, "ended", TRUE)
    BY <1>2 DEF InIteration
  <2>2. \A tool \in ToolSpans : Set(tool, "ended", TRUE) \in ToolSpans
    BY SetFits
  <2>3. IsSet(n, it, f.call, "ended", TRUE)
    BY <2>1, <2>2, WithToolIs, Zenon
  <2>4. \A k \in 1 .. Len(it.tools) : it.tools[k] \in ToolSpans
    BY DEF Iterations
  <2>5. \A tool \in ToolSpans : Same(Set(tool, "ended", TRUE), tool)
    BY DEF Set, Same, ToolSpans
  <2> QED BY <1>2, <2>3, <2>4, <2>5 DEF Other, Same, IsSet
<1>3. CASE f.type = "chatagents.tool_result"
  <2>1. n = WithTool(it, f.call, "status", f.status) /\ f.status \in {"", "ok", "error"}
    BY <1>3 DEF InIteration, FrameSet
  <2>2. \A tool \in ToolSpans : Set(tool, "status", f.status) \in ToolSpans
    BY <2>1, SetFits
  <2>3. IsSet(n, it, f.call, "status", f.status)
    BY <2>1, <2>2, WithToolIs, Zenon
  <2>4. \A k \in 1 .. Len(it.tools) : it.tools[k] \in ToolSpans
    BY DEF Iterations
  <2>5. \A tool \in ToolSpans : /\ Set(tool, "status", f.status).call = tool.call
                                /\ Set(tool, "status", f.status).status = f.status
    BY DEF Set, ToolSpans
  <2> QED BY <1>3, <2>3, <2>4, <2>5 DEF Other, IsSet
<1>4. CASE f.type = "TOOL_CALL_START"
  <2>1. n = [it EXCEPT !.tools = Append(@, NewTool(f.call))]
    BY <1>4 DEF InIteration
  <2>2. NewTool(f.call) \in ToolSpans
    BY <1>4 DEF NewTool, ToolSpans
  <2>3. PICK s, g : s = it.tools /\ s \in Seq(ToolSpans) /\ g = NewTool(f.call)
    BY DEF Iterations
  <2>4. Append(s, g) \in Seq(ToolSpans)
    BY <2>2, <2>3, AppendProperties
  <2>5. n = [it EXCEPT !.tools = Append(s, g)]
    BY <2>1, <2>3
  <2>6. n \in Iterations
    BY <2>4, <2>5 DEF Iterations
  <2> QED BY <1>4, <2>6 DEF Other
<1>5. CASE f.type \in Other \cup {"RUN_FINISHED"}
  <2>1. n \in Iterations /\ n.tools = it.tools
    BY <1>5 DEF InIteration, Other, Iterations
  <2> QED BY <1>5, <2>1 DEF Other
<1>6. f.type \in Frames
  BY DEF FrameSet
<1> QED BY <1>1, <1>2, <1>3, <1>4, <1>5, <1>6 DEF Other

\* A frame in its place gives the latest iteration what it closes.
LEMMA LacksStep ==
    ASSUME NEW it \in Iterations, NEW w \in Wires, NEW f \in FrameSet, Allowed(w, f),
           f.type # "STEP_STARTED", Lacks(it, w), ~w.step => w.reasoning = "none",
           NEW n, n = InIteration(it, f), NEW v, v = Seen(w, f)
    PROVE  Lacks(n, v)
<1>1. \A k \in 1 .. Len(it.tools) : it.tools[k] \in ToolSpans
  BY DEF Iterations
<1>2. /\ w.reasoning \in {"none", "started"} => it.reasoning # "open"
      /\ ~w.step /\ w.due \in {"span", "none"} => it.usage
      /\ ~w.step /\ w.due = "none" => it.span
      /\ \A k \in 1 .. Len(it.tools) : ToolLacks(it.tools[k], w.tools[it.tools[k].call])
  BY DEF Lacks
<1>3. CASE f.type \in {"REASONING_START", "REASONING_MESSAGE_START", "REASONING_MESSAGE_CONTENT",
                       "REASONING_MESSAGE_END", "REASONING_END"}
  <2>1. v.step = w.step /\ v.due = w.due /\ v.tools = w.tools
    BY <1>3 DEF Seen, Wires
  <2>2. n.usage = it.usage /\ n.span = it.span /\ n.tools = it.tools
    BY <1>3 DEF InIteration, Iterations
  <2>3. v.reasoning \in {"none", "started"} => n.reasoning # "open"
    BY <1>2, <1>3 DEF Seen, InIteration, Iterations, Wires, Allowed, InStep
  <2> QED BY <1>2, <2>1, <2>2, <2>3 DEF Lacks
<1>4. CASE f.type \in {"TEXT_MESSAGE_START", "TEXT_MESSAGE_CONTENT", "TEXT_MESSAGE_END",
                       "RUN_STARTED", "RUN_FINISHED", "RUN_ERROR"}
  <2>1. v.step = w.step /\ v.due = w.due /\ v.tools = w.tools /\ v.reasoning = w.reasoning
    BY <1>4 DEF Seen, Wires
  <2>2. n = it
    BY <1>4 DEF InIteration
  <2> QED BY <1>2, <2>1, <2>2 DEF Lacks
<1>5. CASE f.type \in {"STEP_FINISHED", "chatagents.usage", "chatagents.span"}
  <2>1. v.tools = w.tools /\ v.reasoning = w.reasoning
    BY <1>5 DEF Seen, Wires
  <2>2. n.tools = it.tools /\ n.reasoning = it.reasoning
    BY <1>5 DEF InIteration, Iterations
  <2>3. /\ ~v.step /\ v.due \in {"span", "none"} => n.usage
        /\ ~v.step /\ v.due = "none" => n.span
    BY <1>2, <1>5 DEF Seen, InIteration, Iterations, Wires, Allowed
  <2> QED BY <1>2, <2>1, <2>2, <2>3 DEF Lacks
<1>6. CASE f.type = "TOOL_CALL_RESULT"
  <2>1. /\ v.step = w.step /\ v.due = w.due /\ v.reasoning = w.reasoning
        /\ v.tools = [w.tools EXCEPT ![f.call] = "returned"]
    BY <1>6 DEF Seen, Wires
  <2>2. n = it
    BY <1>6 DEF InIteration
  <2>3. f.call \in Call /\ w.tools[f.call] = "ended" /\ w.tools \in [Call -> Places]
    BY <1>6 DEF Allowed, ToolAt, Wires
  <2>4. ASSUME NEW k \in 1 .. Len(it.tools)
        PROVE  ToolLacks(it.tools[k], v.tools[it.tools[k].call])
    <3>1. it.tools[k].call \in Call
      BY <1>1 DEF ToolSpans
    <3> QED BY <1>2, <2>1, <2>3, <3>1 DEF ToolLacks
  <2> QED BY <1>2, <2>1, <2>2, <2>4 DEF Lacks
<1>7. CASE f.type = "TOOL_CALL_START"
  <2>1. /\ v.step = w.step /\ v.due = w.due /\ v.reasoning = w.reasoning
        /\ v.tools = [w.tools EXCEPT ![f.call] = "started"]
    BY <1>7 DEF Seen, Wires
  <2>2. f.call \in Call /\ w.tools[f.call] = "none" /\ w.tools \in [Call -> Places]
    BY <1>7 DEF Allowed, ToolAt, Wires
  <2>3. PICK s, g : s = it.tools /\ s \in Seq(ToolSpans) /\ g = NewTool(f.call)
    BY DEF Iterations
  <2>4. g \in ToolSpans /\ g.call = f.call
    BY <2>2, <2>3 DEF NewTool, ToolSpans
  <2>5. /\ n.tools = Append(s, g) /\ n.usage = it.usage /\ n.span = it.span
        /\ n.reasoning = it.reasoning
    BY <1>7, <2>3 DEF InIteration, Iterations
  <2>6. /\ Len(n.tools) = Len(s) + 1 /\ n.tools[Len(s) + 1] = g /\ Len(s) \in Nat
        /\ \A k \in 1 .. Len(s) : n.tools[k] = s[k]
    BY <2>3, <2>4, <2>5, AppendProperties, LenProperties
  <2>7. ASSUME NEW k \in 1 .. Len(n.tools)
        PROVE  ToolLacks(n.tools[k], v.tools[n.tools[k].call])
    <3>1. CASE k = Len(s) + 1
      BY <2>1, <2>2, <2>4, <2>6, <3>1 DEF ToolLacks
    <3>2. CASE k \in 1 .. Len(s)
      <4>1. it.tools[k].call \in Call /\ n.tools[k] = it.tools[k]
        BY <1>1, <2>3, <2>6, <3>2 DEF ToolSpans
      <4>2. ToolLacks(it.tools[k], w.tools[it.tools[k].call])
        BY <1>2, <2>3, <3>2
      <4> QED BY <2>1, <2>2, <4>1, <4>2 DEF ToolLacks
    <3>3. k = Len(s) + 1 \/ k \in 1 .. Len(s)
      BY <2>6
    <3> QED BY <3>1, <3>2, <3>3
  <2> QED BY <1>2, <2>1, <2>5, <2>7 DEF Lacks
<1>8. CASE f.type \in {"TOOL_CALL_ARGS", "TOOL_CALL_END", "chatagents.tool_result"}
  <2>1. f.call \in Call /\ w.tools \in [Call -> Places]
    BY <1>8 DEF Allowed, ToolAt, Wires
  <2>2. PICK field, value, place :
            /\ IsSet(n, it, f.call, field, value)
            /\ \A tool \in ToolSpans : Set(tool, field, value) \in ToolSpans
            /\ v = [w EXCEPT !.tools[f.call] = place] /\ place \in Places
            /\ \A tool \in ToolSpans :
                  /\ Set(tool, field, value).call = tool.call
                  /\ ToolLacks(tool, w.tools[f.call]) =>
                        ToolLacks(Set(tool, field, value), place)
    <3>1. CASE f.type = "TOOL_CALL_ARGS"
      <4>1. n = WithTool(it, f.call, "arguments", TRUE)
        BY <3>1 DEF InIteration
      <4>2. \A tool \in ToolSpans : Set(tool, "arguments", TRUE) \in ToolSpans
        BY SetFits
      <4>3. IsSet(n, it, f.call, "arguments", TRUE)
        BY <4>1, <4>2, WithToolIs, Zenon
      <4>4. v = [w EXCEPT !.tools[f.call] = "running"] /\ "running" \in Places
        BY <3>1 DEF Seen, Places
      <4>5. \A tool \in ToolSpans :
               /\ Set(tool, "arguments", TRUE).call = tool.call
               /\ ToolLacks(Set(tool, "arguments", TRUE), "running")
        BY DEF ToolLacks, Set, ToolSpans
      <4> QED BY <4>2, <4>3, <4>4, <4>5, Zenon
    <3>2. CASE f.type = "TOOL_CALL_END"
      <4>1. n = WithTool(it, f.call, "ended", TRUE)
        BY <3>2 DEF InIteration
      <4>2. \A tool \in ToolSpans : Set(tool, "ended", TRUE) \in ToolSpans
        BY SetFits
      <4>3. IsSet(n, it, f.call, "ended", TRUE)
        BY <4>1, <4>2, WithToolIs, Zenon
      <4>4. v = [w EXCEPT !.tools[f.call] = "ended"] /\ "ended" \in Places
        BY <3>2 DEF Seen, Places
      <4>5. w.tools[f.call] = "running"
        BY <3>2 DEF Allowed, ToolAt
      <4>6. \A tool \in ToolSpans :
               /\ Set(tool, "ended", TRUE).call = tool.call
               /\ ToolLacks(tool, "running") => ToolLacks(Set(tool, "ended", TRUE), "ended")
        BY DEF ToolLacks, Set, ToolSpans
      <4> QED BY <4>2, <4>3, <4>4, <4>5, <4>6, Zenon
    <3>3. CASE f.type = "chatagents.tool_result"
      <4>1. n = WithTool(it, f.call, "status", f.status) /\ f.status \in {"", "ok", "error"}
        BY <3>3 DEF InIteration, FrameSet
      <4>2. \A tool \in ToolSpans : Set(tool, "status", f.status) \in ToolSpans
        BY <4>1, SetFits
      <4>3. IsSet(n, it, f.call, "status", f.status)
        BY <4>1, <4>2, WithToolIs, Zenon
      <4>4. v = [w EXCEPT !.tools[f.call] = "none"] /\ "none" \in Places
        BY <3>3 DEF Seen, Places
      <4>5. w.tools[f.call] = "returned"
        BY <3>3 DEF Allowed, ToolAt
      <4>6. \A tool \in ToolSpans :
               /\ Set(tool, "status", f.status).call = tool.call
               /\ ToolLacks(tool, "returned") => ToolLacks(Set(tool, "status", f.status), "none")
        BY DEF ToolLacks, Set, ToolSpans
      <4> QED BY <4>2, <4>3, <4>4, <4>5, <4>6, Zenon
    <3> QED BY <1>8, <3>1, <3>2, <3>3
  <2>3. /\ v.step = w.step /\ v.due = w.due /\ v.reasoning = w.reasoning
        /\ v.tools = [w.tools EXCEPT ![f.call] = place]
    BY <2>2 DEF Wires
  <2>4. n.usage = it.usage /\ n.span = it.span /\ n.reasoning = it.reasoning
        /\ Len(n.tools) = Len(it.tools)
    BY <2>2 DEF IsSet
  <2>5. ASSUME NEW k \in 1 .. Len(it.tools)
        PROVE  ToolLacks(n.tools[k], v.tools[n.tools[k].call])
    <3>1. PICK tool \in ToolSpans : tool = it.tools[k]
      BY <1>1
    <3>2. tool.call \in Call /\ ToolLacks(tool, w.tools[tool.call])
      BY <1>2, <3>1 DEF ToolSpans
    <3>3. n.tools[k] = IF tool.call = f.call THEN Set(tool, field, value) ELSE tool
      BY <2>2, <3>1 DEF IsSet
    <3>4. CASE tool.call = f.call
      <4>1. n.tools[k] = Set(tool, field, value) /\ n.tools[k].call = f.call
        BY <2>2, <3>3, <3>4
      <4>2. v.tools[f.call] = place
        BY <2>1, <2>3
      <4>3. ToolLacks(Set(tool, field, value), place)
        BY <2>2, <3>2, <3>4
      <4> QED BY <4>1, <4>2, <4>3
    <3>5. CASE tool.call # f.call
      BY <2>1, <2>3, <3>2, <3>3, <3>5
    <3> QED BY <3>4, <3>5
  <2> QED BY <1>2, <2>3, <2>4, <2>5 DEF Lacks
<1> QED BY <1>3, <1>4, <1>5, <1>6, <1>7, <1>8 DEF Allowed

-----------------------------------------------------------------------------
(* What a frame does to the tree *)

LEMMA MergedIs ==
    ASSUME NEW t \in Seq(Iterations), NEW f \in FrameSet, f.type # "STEP_STARTED",
           f.type = "TOOL_CALL_START" => f.call \in Call, t # <<>>,
           NEW u, u = Merged(t, f), NEW n, n = InIteration(t[Len(t)], f)
    PROVE  /\ u \in Seq(Iterations) /\ Len(u) = Len(t) /\ u # <<>>
           /\ u[Len(t)] = n
           /\ \A i \in 1 .. Len(t) - 1 : u[i] = t[i]
<1>1. PICK m : m \in Nat /\ m = Len(t) /\ m >= 1
  <2>1. Len(t) \in Nat /\ Len(t) # 0
    OBVIOUS
  <2> QED BY <2>1
<1>2. t \in [1 .. m -> Iterations] /\ m \in 1 .. m
  BY <1>1
<1>3. n \in Iterations
  <2>1. PICK it : it = t[Len(t)]
    OBVIOUS
  <2>2. it \in Iterations
    BY <1>1, <1>2, <2>1
  <2> QED BY <2>1, <2>2, FramedIteration
<1>4. u = [t EXCEPT ![m] = n]
  BY <1>1 DEF Merged, ReplaceLast, CurrentIteration
<1>5. u \in [1 .. m -> Iterations] /\ u[m] = n /\ \A i \in 1 .. m - 1 : u[i] = t[i]
  BY <1>1, <1>2, <1>3, <1>4
<1>6. u \in Seq(Iterations) /\ Len(u) = m
  BY <1>1, <1>5
<1>7. u # <<>>
  <2>1. Len(<<>>) = 0
    OBVIOUS
  <2> QED BY <1>1, <1>6, <2>1
<1> QED BY <1>1, <1>5, <1>6, <1>7

LEMMA StartedIs ==
    ASSUME NEW t \in Seq(Iterations), NEW f, f.type = "STEP_STARTED", NEW u, u = Merged(t, f)
    PROVE  /\ u \in Seq(Iterations) /\ Len(u) = Len(t) + 1 /\ u # <<>> /\ Len(t) \in Nat
           /\ u[Len(t) + 1] = NewIteration /\ NewIteration \in Iterations
           /\ NewIteration.tools = <<>>
           /\ \A i \in 1 .. Len(t) : u[i] = t[i]
<1>1. NewIteration \in Iterations /\ NewIteration.tools = <<>>
  <2>1. <<>> \in Seq(ToolSpans)
    OBVIOUS
  <2> QED BY <2>1 DEF NewIteration, Iterations
<1>2. PICK g : g = NewIteration /\ u = Append(t, g)
  BY DEF Merged
<1>3. /\ u \in Seq(Iterations) /\ Len(u) = Len(t) + 1 /\ Len(t) \in Nat
      /\ u[Len(t) + 1] = g
      /\ \A i \in 1 .. Len(t) : u[i] = t[i]
  BY <1>1, <1>2, AppendProperties, LenProperties
<1>4. u # <<>>
  BY <1>3
<1> QED BY <1>1, <1>2, <1>3, <1>4

\* A frame in its place keeps the tree in order.
LEMMA TreeStep ==
    ASSUME NEW t, NEW w \in Wires, NEW f \in FrameSet, Allowed(w, f), TreeFits(t, w),
           NEW u, u = Merged(t, f), NEW v, v = Seen(w, f)
    PROVE  TreeFits(u, v)
<1>1. /\ t \in Seq(Iterations)
      /\ ~w.step => w.reasoning = "none"
      /\ w.run = "finished" => ~w.step /\ w.due = "none" /\ ToolsDone(w)
      /\ \A i \in 1 .. Len(t) - 1 : Whole(t[i])
      /\ t # <<>> => Lacks(t[Len(t)], w)
  BY DEF TreeFits
<1>2. ~v.step => v.reasoning = "none"
  BY <1>1 DEF Wires, Seen, Allowed, InStep, Idle, ToolAt
<1>3. v.run = "finished" => ~v.step /\ v.due = "none" /\ ToolsDone(v)
  BY <1>1 DEF Wires, Seen, Allowed, InStep, Idle, ToolAt, ToolsDone
<1>4. CASE f.type = "STEP_STARTED"
  <2>1. PICK m : m \in Nat /\ m = Len(t)
    BY <1>1
  <2>2. /\ u \in Seq(Iterations) /\ Len(u) = m + 1 /\ u[m + 1] = NewIteration
        /\ \A i \in 1 .. m : u[i] = t[i]
    BY <1>1, <1>4, <2>1, StartedIs
  <2>3. ASSUME NEW i \in 1 .. m PROVE Whole(u[i])
    <3>1. CASE i < m
      BY <1>1, <2>1, <2>2, <3>1
    <3>2. CASE i = m
      <4>1. t # <<>>
        <5>1. Len(<<>>) = 0
          OBVIOUS
        <5> QED BY <2>1, <2>3, <3>2, <5>1
      <4>2. PICK it : it = t[m] /\ it \in Iterations /\ Lacks(it, w)
        BY <1>1, <2>1, <4>1
      <4>3. ~w.step /\ w.due = "none" /\ w.reasoning = "none" /\ \A c \in Call : w.tools[c] = "none"
        BY <1>1, <1>4 DEF Allowed, Idle, ToolsDone
      <4>4. \A k \in 1 .. Len(it.tools) : it.tools[k] \in ToolSpans
        BY <4>2 DEF Iterations
      <4>5. ASSUME NEW k \in 1 .. Len(it.tools)
            PROVE  it.tools[k].arguments /\ it.tools[k].ended
        <5>1. it.tools[k].call \in Call
          BY <4>4 DEF ToolSpans
        <5>2. ToolLacks(it.tools[k], "none")
          BY <4>2, <4>3, <5>1 DEF Lacks
        <5> QED BY <5>2 DEF ToolLacks
      <4>6. Whole(it)
        BY <4>2, <4>3, <4>5 DEF Lacks, Whole
      <4> QED BY <2>2, <3>2, <4>2, <4>6
    <3> QED BY <2>1, <3>1, <3>2
  <2>4. Lacks(NewIteration, v)
    <3>1. v.step /\ v.reasoning = w.reasoning
      BY <1>4 DEF Seen, Wires
    <3>2. Len(NewIteration.tools) = 0 /\ NewIteration.reasoning = "none"
      BY DEF NewIteration
    <3> QED BY <3>1, <3>2 DEF Lacks
  <2> QED BY <1>2, <1>3, <2>1, <2>2, <2>3, <2>4 DEF TreeFits
<1>5. CASE f.type # "STEP_STARTED" /\ t = <<>>
  <2>1. u = <<>> /\ Len(u) = 0
    BY <1>5 DEF Merged
  <2> QED BY <1>1, <1>2, <1>3, <1>5, <2>1 DEF TreeFits
<1>6. CASE f.type # "STEP_STARTED" /\ t # <<>>
  <2>1. PICK m, it, n : m \in Nat /\ m = Len(t) /\ m >= 1 /\ it = t[m] /\ n = InIteration(it, f)
    <3>1. Len(t) \in Nat /\ Len(t) # 0
      BY <1>1, <1>6
    <3> QED BY <3>1
  <2>2. it \in Iterations /\ Lacks(it, w)
    BY <1>1, <1>6, <2>1
  <2>3. Lacks(n, v)
    BY <1>1, <1>6, <2>1, <2>2, LacksStep
  <2>4. f.type = "TOOL_CALL_START" => f.call \in Call
    BY DEF Allowed, ToolAt
  <2>5. /\ u \in Seq(Iterations) /\ Len(u) = m /\ u[m] = n
        /\ \A i \in 1 .. m - 1 : u[i] = t[i]
    BY <1>1, <1>6, <2>1, <2>4, MergedIs
  <2> QED BY <1>1, <1>2, <1>3, <2>1, <2>3, <2>5 DEF TreeFits
<1> QED BY <1>4, <1>5, <1>6

-----------------------------------------------------------------------------
(* Answers and results in the history *)

\* The next message is the results of the last one, or the answer to them.
LEMMA TurnsStep ==
    ASSUME NEW h \in Seq(Message), Turns(h), NEW m \in Message, NEW i \in Nat,
           \/ Len(h) = 2 * i /\ m.kind = "answer"
           \/ Len(h) = 2 * i + 1 /\ m.kind = "results",
           NEW g, g = Append(h, m)
    PROVE  Turns(g)
<1>1. PICK n \in Nat : n = Len(h)
  BY LenProperties
<1>2. /\ g \in Seq(Message) /\ Len(g) = n + 1 /\ g[n + 1] = m
      /\ \A k \in 1 .. n : g[k] = h[k]
  BY <1>1, AppendProperties
<1>3. /\ \A k \in 1 .. n : (h[k].kind = "results") <=> (\E j \in 1 .. k : k = 2 * j)
      /\ \A j \in 0 .. n : 2 * j <= n =>
            Cardinality({l \in 1 .. 2 * j : h[l].kind = "results"}) = j
  BY <1>1 DEF Turns
<1>4. \A k \in 1 .. n + 1 : (g[k].kind = "results") <=> (\E j \in 1 .. k : k = 2 * j)
  <2>1. \A k \in 1 .. n : (g[k].kind = "results") <=> (\E j \in 1 .. k : k = 2 * j)
    BY <1>2, <1>3
  <2>2. (m.kind = "results") <=> (\E j \in 1 .. n + 1 : n + 1 = 2 * j)
    <3>1. CASE n = 2 * i /\ m.kind = "answer"
      <4>1. \A j \in 1 .. n + 1 : n + 1 # 2 * j
        BY <3>1
      <4> QED BY <3>1, <4>1
    <3>2. CASE n = 2 * i + 1 /\ m.kind = "results"
      <4>1. i + 1 \in 1 .. n + 1 /\ n + 1 = 2 * (i + 1)
        BY <3>2
      <4> QED BY <3>2, <4>1
    <3> QED BY <1>1, <3>1, <3>2
  <2>3. ASSUME NEW k \in 1 .. n + 1, k \notin 1 .. n PROVE k = n + 1
    BY <2>3
  <2> QED BY <1>2, <2>1, <2>2, <2>3
<1>5. ASSUME NEW j \in 0 .. n + 1, 2 * j <= n + 1
      PROVE  Cardinality({l \in 1 .. 2 * j : g[l].kind = "results"}) = j
  <2>1. CASE 2 * j <= n
    <3>1. {l \in 1 .. 2 * j : g[l].kind = "results"} = {l \in 1 .. 2 * j : h[l].kind = "results"}
      <4>1. \A l \in 1 .. 2 * j : l \in 1 .. n
        BY <2>1
      <4>2. \A l \in 1 .. 2 * j : g[l] = h[l]
        BY <1>2, <4>1
      <4> QED BY <4>2
    <3>2. j \in 0 .. n
      BY <2>1
    <3> QED BY <1>3, <2>1, <3>1, <3>2
  <2>2. CASE 2 * j = n + 1
    <3>1. n = 2 * i + 1 /\ m.kind = "results" /\ j = i + 1 /\ n = 2 * i + 1
      BY <1>1, <2>2
    <3> DEFINE S == {l \in 1 .. 2 * i : h[l].kind = "results"}
    <3>2. {l \in 1 .. 2 * j : g[l].kind = "results"} = S \cup {n + 1}
      <4>1. h[n].kind # "results"
        <5>1. \A l \in 1 .. n : n # 2 * l
          BY <3>1
        <5>2. n \in 1 .. n
          BY <3>1
        <5> QED BY <1>3, <5>1, <5>2
      <4>2. \A l \in 1 .. 2 * j : l \in 1 .. 2 * i \/ l = n \/ l = n + 1
        BY <3>1
      <4>3. /\ \A l \in 1 .. 2 * i : l \in 1 .. 2 * j /\ g[l] = h[l]
            /\ g[n] = h[n] /\ n + 1 \in 1 .. 2 * j /\ g[n + 1] = m /\ n \in 1 .. 2 * j
        BY <1>2, <3>1
      <4> QED BY <3>1, <4>1, <4>2, <4>3
    <3>3. Cardinality(S) = i
      <4>1. i \in 0 .. n /\ 2 * i <= n
        BY <3>1
      <4> QED BY <1>3, <4>1
    <3>4. IsFiniteSet(S) /\ n + 1 \notin S
      <4>1. S \subseteq 1 .. 2 * i /\ 1 \in Int /\ 2 * i \in Int
        OBVIOUS
      <4>2. IsFiniteSet(1 .. 2 * i)
        BY <4>1, FS_Interval
      <4>3. IsFiniteSet(S)
        BY <4>1, <4>2, FS_Subset
      <4> QED BY <3>1, <4>1, <4>3
    <3> HIDE DEF S
    <3>5. Cardinality(S \cup {n + 1}) = i + 1
      BY <3>3, <3>4, FS_AddElement
    <3> QED BY <3>1, <3>2, <3>5
  <2>3. 2 * j <= n \/ 2 * j = n + 1
    BY <1>5
  <2> QED BY <2>1, <2>2, <2>3
<1> QED BY <1>2, <1>4, <1>5 DEF Turns

\* The i-th message with results is the one at twice i.
LEMMA ResultsAt ==
    ASSUME history \in Seq(Message), Turns(history), NEW i \in Nat, i >= 1, i # iteration,
           2 * i <= Len(history)
    PROVE  /\ ResultsOf(i) = history[2 * i].results
           /\ history[2 * i] \in Message /\ history[2 * i].kind = "results"
<1>1. PICK h, n : h = history /\ n \in Nat /\ n = Len(h)
  BY LenProperties
<1>2. h \in Seq(Message) /\ DOMAIN h = 1 .. n /\ 2 * i \in 1 .. n /\ i \in 0 .. n /\ 2 * i <= n
  BY <1>1
<1>3. /\ \A k \in 1 .. n : (h[k].kind = "results") <=> (\E j \in 1 .. k : k = 2 * j)
      /\ \A j \in 0 .. n : 2 * j <= n =>
            Cardinality({l \in 1 .. 2 * j : h[l].kind = "results"}) = j
  BY <1>1 DEF Turns
<1> DEFINE P(k) == /\ h[k].kind = "results"
                   /\ Cardinality({j \in 1 .. k : h[j].kind = "results"}) = i
<1>4. P(2 * i)
  <2>1. h[2 * i].kind = "results"
    <3>1. i \in 1 .. 2 * i
      OBVIOUS
    <3> QED BY <1>2, <1>3, <3>1
  <2> QED BY <1>2, <1>3, <2>1
<1>5. ASSUME NEW k \in 1 .. n, P(k) PROVE k = 2 * i
  <2>0. h[k].kind = "results"
    BY <1>5
  <2>1. PICK j \in 1 .. k : k = 2 * j
    <3> HIDE DEF P
    <3> QED BY <1>3, <1>5, <2>0
  <2>2. j \in 0 .. n /\ 2 * j <= n
    BY <1>1, <2>1
  <2>3. Cardinality({l \in 1 .. 2 * j : h[l].kind = "results"}) = j
    BY <1>3, <2>2
  <2> QED BY <1>5, <2>1, <2>3
<1>6. (CHOOSE k \in 1 .. n : P(k)) = 2 * i
  <2> HIDE DEF P
  <2>1. PICK c : c = CHOOSE k \in 1 .. n : P(k)
    OBVIOUS
  <2>2. c \in 1 .. n /\ P(c)
    BY <1>2, <1>4, <2>1
  <2> QED BY <1>5, <2>1, <2>2
<1>7. ResultsOf(i) = h[2 * i].results
  <2>1. ResultsOf(i) = h[CHOOSE k \in DOMAIN h : P(k)].results
    BY <1>1, Zenon DEF ResultsOf
  <2> HIDE DEF P
  <2> QED BY <1>2, <1>6, <2>1
<1> QED BY <1>1, <1>2, <1>4, <1>7

-----------------------------------------------------------------------------
(* What follows for the tree *)

LEMMA IterationSpans ==
    ASSUME TreeFits(trace, wire), NEW i \in 1 .. Len(trace)
    PROVE  /\ trace[i] \in Iterations /\ trace[i].tools \in Seq(ToolSpans)
           /\ Len(trace[i].tools) \in Nat
           /\ DOMAIN trace[i].tools = 1 .. Len(trace[i].tools)
           /\ \A k \in 1 .. Len(trace[i].tools) : trace[i].tools[k] \in ToolSpans
<1>1. trace[i] \in Iterations
  BY DEF TreeFits
<1>2. PICK s : s = trace[i].tools
  OBVIOUS
<1>3. s \in Seq(ToolSpans)
  BY <1>1, <1>2 DEF Iterations
<1>4. Len(s) \in Nat /\ DOMAIN s = 1 .. Len(s) /\ \A k \in 1 .. Len(s) : s[k] \in ToolSpans
  BY <1>3
<1> QED BY <1>1, <1>2, <1>3, <1>4

\* The results of an earlier answer are those that its spans show.
LEMMA EarlierResults ==
    ASSUME LoopInv, TurnsFit, SpansFit, NEW i \in 1 .. Len(trace), i < iteration, Len(trace) \in Nat
    PROVE  ResultsOf(i) \in Seq(Result) /\ Shows(trace[i].tools, ResultsOf(i))
<1>1. /\ history \in Seq(Message) /\ Turns(history) /\ iteration \in Nat /\ i \in Nat
      /\ Len(history) \in {2 * iteration - 2, 2 * iteration - 1, 2 * iteration}
  BY BoundsPositive DEF LoopInv, TypeOK, TurnsFit
<1>2. i >= 1 /\ i # iteration /\ 2 * i <= Len(history)
  BY <1>1
<1>3. /\ ResultsOf(i) = history[2 * i].results /\ history[2 * i] \in Message
  BY <1>1, <1>2, ResultsAt
<1>4. Shows(trace[i].tools, history[2 * i].results)
  BY DEF SpansFit
<1> QED BY <1>3, <1>4 DEF Message

LEMMA TreeFaithful == ASSUME StreamInv, TraceInv PROVE TraceFaithful
<1>1. /\ LoopInv /\ TypeOK /\ TreeFits(trace, wire) /\ TurnsFit /\ EventFits /\ SpansFit
      /\ wire \in Wires
  BY DEF StreamInv, TraceInv, LoopInv
<1>2. PICK n : n \in Nat /\ n = Len(trace) /\ trace \in Seq(Iterations) /\ DOMAIN trace = 1 .. n
  BY <1>1 DEF TreeFits
<1>3. iteration \in Nat /\ announced \in Seq(Call) /\ results \in Seq(Result)
  BY <1>1, BoundsPositive DEF TypeOK
<1>4. n <= iteration /\ (n = iteration \/ n = iteration - 1)
  BY <1>1, <1>2, <1>3 DEF SpansFit
<1>5. ASSUME NEW c \in Call, task[c].pc # "none"
      PROVE  /\ Len(trace) = iteration
             /\ \E k \in DOMAIN trace[iteration].tools : trace[iteration].tools[k].call = c
  <2>1. iteration >= 1 /\ Len(trace) = iteration /\ HasPlace(c)
    BY <1>1, <1>5 DEF SpansFit
  <2>2. iteration \in 1 .. Len(trace)
    BY <1>3, <2>1
  <2>3. DOMAIN trace[iteration].tools = 1 .. Len(trace[iteration].tools)
    BY <1>1, <2>2, IterationSpans
  <2> QED BY <2>1, <2>3 DEF HasPlace
<1>6. ASSUME NEW i \in 1 .. n, i = iteration
      PROVE  /\ Len(trace) = iteration /\ ResultsOf(i) = results
             /\ ShowsSoFar(trace[i].tools, Placed, Told)
  <2>1. Len(trace) = iteration /\ iteration >= 1
    BY <1>2, <1>3, <1>4, <1>6
  <2> QED BY <1>1, <1>6, <2>1 DEF SpansFit, ResultsOf
<1>7. ASSUME NEW i \in 1 .. n, NEW k \in DOMAIN trace[i].tools,
             trace[i].tools[k].status # "pending"
      PROVE  [call |-> trace[i].tools[k].call, status |-> trace[i].tools[k].status]
                \in Range(ResultsOf(i))
  <2>1. PICK t, r : t = trace[i].tools /\ r = ResultsOf(i)
    OBVIOUS
  <2>2. t \in Seq(ToolSpans) /\ DOMAIN t = 1 .. Len(t) /\ k \in 1 .. Len(t) /\ Len(t) \in Nat
    BY <1>1, <1>2, <1>7, <2>1, IterationSpans
  <2>3. r \in Seq(Result) /\ k \in 1 .. Len(r) /\ r[k].call = t[k].call /\ r[k].status = t[k].status
    <3>1. CASE i < iteration
      <4>1. r \in Seq(Result) /\ Shows(t, r)
        BY <1>1, <1>2, <2>1, <3>1, EarlierResults
      <4> QED BY <2>2, <4>1 DEF Shows
    <3>2. CASE i = iteration
      <4>1. r = results /\ ShowsSoFar(t, Placed, Told)
        BY <1>6, <2>1, <3>2
      <4>2. k \in 1 .. Placed /\ k <= Told /\ t[k].call = announced[k] /\ t[k].status = results[k].status
        BY <1>7, <2>1, <2>2, <4>1 DEF ShowsSoFar
      <4>3. Len(results) \in Nat /\ Told <= Len(results)
        BY <1>3 DEF Told
      <4>4. k \in 1 .. Len(results)
        <5>1. Told \in Int
          BY <4>3 DEF Told
        <5> QED BY <2>2, <4>2, <4>3, <5>1
      <4>5. results[k].call = announced[k]
        BY <1>1, <4>4 DEF LoopInv, ReportsFit
      <4> QED BY <1>3, <4>1, <4>2, <4>4, <4>5
    <3>3. i \in Nat /\ i <= iteration
      BY <1>2, <1>3, <1>4
    <3> QED BY <1>3, <3>1, <3>2, <3>3
  <2>4. DOMAIN r = 1 .. Len(r) /\ r[k] \in Result
    BY <2>3
  <2>5. r[k] = [call |-> t[k].call, status |-> t[k].status]
    BY <2>3, <2>4 DEF Result
  <2> QED BY <2>1, <2>3, <2>4, <2>5 DEF Range
<1>8. ASSUME wire.run = "finished"
      PROVE  /\ Len(trace) = iteration
             /\ \A i \in 1 .. n :
                   /\ trace[i].usage /\ trace[i].span /\ trace[i].reasoning # "open"
                   /\ Len(trace[i].tools) = Len(ResultsOf(i))
                   /\ \A k \in DOMAIN trace[i].tools :
                         /\ trace[i].tools[k].call = ResultsOf(i)[k].call
                         /\ trace[i].tools[k].status = ResultsOf(i)[k].status
                         /\ trace[i].tools[k].arguments /\ trace[i].tools[k].ended
  <2>1. /\ event.type = "run_completed" /\ announced = <<>> /\ results = <<>>
        /\ ~wire.step /\ wire.due = "none" /\ wire.reasoning = "none"
        /\ \A c \in Call : wire.tools[c] = "none"
    BY <1>1, <1>8 DEF EventFits, TreeFits, ToolsDone
  <2>2. Len(trace) = iteration /\ Placed = 0
    <3>1. Len(<<>>) = 0
      OBVIOUS
    <3> QED BY <1>1, <2>1, <3>1 DEF SpansFit, Awaited, Placed
  <2>3. ASSUME NEW i \in 1 .. n
        PROVE  Whole(trace[i])
    <3>1. CASE i < n
      BY <1>1, <1>2, <3>1 DEF TreeFits
    <3>2. CASE i = n
      <4>1. trace # <<>>
        <5>1. Len(<<>>) = 0
          OBVIOUS
        <5> QED BY <1>2, <2>3, <3>2, <5>1
      <4>2. Lacks(trace[i], wire)
        BY <1>1, <1>2, <3>2, <4>1 DEF TreeFits
      <4>3. \A k \in 1 .. Len(trace[i].tools) : trace[i].tools[k].call \in Call
        BY <1>1, <1>2, IterationSpans DEF ToolSpans
      <4>4. \A k \in 1 .. Len(trace[i].tools) :
               trace[i].tools[k].arguments /\ trace[i].tools[k].ended
        <5>1. \A k \in 1 .. Len(trace[i].tools) : ToolLacks(trace[i].tools[k], "none")
          BY <2>1, <4>2, <4>3 DEF Lacks
        <5> QED BY <5>1 DEF ToolLacks
      <4> QED BY <2>1, <4>2, <4>4 DEF Lacks, Whole
    <3> QED BY <1>2, <3>1, <3>2
  <2>4. ASSUME NEW i \in 1 .. n
        PROVE  Shows(trace[i].tools, ResultsOf(i))
    <3>1. CASE i < iteration
      BY <1>1, <1>2, <3>1, EarlierResults
    <3>2. CASE i = iteration
      <4>1. ResultsOf(i) = <<>> /\ ShowsSoFar(trace[i].tools, Placed, Told)
        BY <1>6, <2>1, <3>2
      <4>2. Len(<<>>) = 0
        OBVIOUS
      <4> QED BY <2>2, <4>1, <4>2 DEF Shows, ShowsSoFar
    <3>3. i \in Nat /\ i <= iteration
      BY <1>2, <1>3, <1>4
    <3> QED BY <1>3, <3>1, <3>2, <3>3
  <2>5. ASSUME NEW i \in 1 .. n
        PROVE  DOMAIN trace[i].tools = 1 .. Len(ResultsOf(i))
    <3>1. DOMAIN trace[i].tools = 1 .. Len(trace[i].tools)
      BY <1>1, <1>2, IterationSpans
    <3> QED BY <2>4, <3>1 DEF Shows
  <2>6. ASSUME NEW i \in 1 .. n, NEW k \in DOMAIN trace[i].tools
        PROVE  /\ trace[i].tools[k].call = ResultsOf(i)[k].call
               /\ trace[i].tools[k].status = ResultsOf(i)[k].status
               /\ trace[i].tools[k].arguments /\ trace[i].tools[k].ended
    <3>1. Shows(trace[i].tools, ResultsOf(i)) /\ Whole(trace[i])
          /\ DOMAIN trace[i].tools = 1 .. Len(ResultsOf(i))
      BY <2>3, <2>4, <2>5
    <3> QED BY <3>1 DEF Shows, Whole
  <2>7. \A i \in 1 .. n : /\ trace[i].usage /\ trace[i].span /\ trace[i].reasoning # "open"
                          /\ Len(trace[i].tools) = Len(ResultsOf(i))
    BY <2>3, <2>4 DEF Whole, Shows
  <2> QED BY <2>2, <2>6, <2>7
<1> QED BY <1>2, <1>4, <1>5, <1>7, <1>8, Zenon DEF TraceFaithful

-----------------------------------------------------------------------------
(* The steps that send no frame *)

LEMMA AtRest ==
    ASSUME StreamInv, LoopStep \/ Delta \/ ModelEnds
    PROVE  /\ pulled /\ layer = "upstream"
           /\ Stands(wire, Stage, Running, text_open, reasoning_open)
<1>1. pulled /\ pc \notin Ended
  <2>1. pulled \/ pc \in {"loop", "gather"}
    BY LoopWaits DEF Enter, StartIteration, GatherFails, Gathered
  <2> QED BY <2>1, LoopRests DEF StreamInv, LayersFit
<1>2. layer = "upstream"
  BY <1>1 DEF StreamInv, StreamTypeOK, LayersFit
<1> QED BY <1>1, <1>2 DEF StreamInv, FramesFit

\* The loop may go on between two messages, and may always end.
LEMMA SameTurns ==
    ASSUME LoopInv, TurnsFit, UNCHANGED <<history, iteration, results, announced>>,
           \/ pc' = pc
           \/ pc' \in {"exit"} \cup Ended
           \/ pc = "enter" /\ pc' = "loop"
           \/ {pc, pc'} \subseteq {"answered", "calls", "gather", "collect"}
    PROVE  TurnsFit'
<1>1. pc = "enter" => iteration = 0
  BY DEF LoopInv, StageFits
<1> QED BY <1>1 DEF TurnsFit, Ended

\* What stands while nothing is yielded and nothing is sent.
LEMMA QuietTree ==
    ASSUME TraceInv, TurnsFit', OutFits',
           UNCHANGED <<iteration, history, announced, results, event, pulled, wire, trace>>,
           event.type = "run_completed" => pc' \in {"exit"} \cup Ended,
           \A c \in Call : task'[c].pc # "none" =>
              iteration >= 1 /\ Len(trace) = iteration /\ HasPlace(c)
    PROVE  TraceInv'
<1>1. EventFits'
  BY DEF TraceInv, EventFits
<1>2. Placed' = Placed /\ Told' = Told
  BY DEF Placed, Told, Awaited
<1>3. \A c \in Call : HasPlace(c)' <=> HasPlace(c)
  BY DEF HasPlace
<1>4. SpansFit'
  BY <1>2, <1>3 DEF TraceInv, SpansFit, Awaited, Shows, ShowsSoFar
<1>5. TreeFits(trace', wire')
  BY DEF TraceInv
<1> QED BY <1>1, <1>4, <1>5 DEF TraceInv

LEMMA PlacesStay ==
    ASSUME TraceInv, \A c \in Call : task'[c].pc # "none" => task[c].pc # "none"
    PROVE  \A c \in Call : task'[c].pc # "none" =>
              iteration >= 1 /\ Len(trace) = iteration /\ HasPlace(c)
  BY DEF TraceInv, SpansFit

\* The loop has ended, or nothing has happened but a move of a task.
LEMMA AsideTree ==
    ASSUME StreamInv, TraceInv,
           UNCHANGED <<iteration, history, announced, results, event, pulled, wire, trace>>,
           pc' = pc \/ pc' \in Ended,
           layer' = "sending" => layer = "sending" /\ out' = out,
           \A c \in Call : task'[c].pc # "none" => task[c].pc # "none"
    PROVE  TraceInv'
<1>1. TurnsFit'
  BY SameTurns DEF StreamInv, TraceInv
<1>2. OutFits'
  BY DEF TraceInv, OutFits, Frame
<1>3. event.type = "run_completed" => pc' \in {"exit"} \cup Ended
  BY DEF TraceInv, EventFits
<1> QED BY <1>1, <1>2, <1>3, PlacesStay, QuietTree

\* A task that ends or is cancelled had been started.
LEMMA DropTasks ==
    ASSUME LoopInv, Drop
    PROVE  /\ \A c \in Call : task'[c].pc # "none" => task[c].pc # "none"
           /\ pc' \in Ended
           /\ UNCHANGED <<iteration, history, announced, results, event, pulled>>
<1>1. task \in [Call -> Task]
  BY DEF LoopInv, TypeOK
<1>2. \A c \in Call : task'[c] = task[c] \/ Live(c)
  BY <1>1 DEF Drop
<1> QED BY <1>2 DEF Drop, Live, Ended

LEMMA TaskTree ==
    ASSUME StreamInv, TraceInv, NEW c \in Call, TaskStep(c), UNCHANGED streamVars
    PROVE  TraceInv'
<1>1. /\ UNCHANGED <<pc, iteration, history, announced, results, event, pulled>>
      /\ \A d \in Call : task'[d].pc # "none" => task[d].pc # "none"
  <2>1. task \in [Call -> Task] /\ task[c].pc \in {"handler", "backoff"}
    BY DEF StreamInv, LoopInv, TypeOK, TaskStep, HandlerReturns, HandlerFails, HandlerRefuses,
           HandlerRaises, Retry
  <2>2. UNCHANGED <<pc, iteration, history, announced, results, event, pulled>>
    BY DEF TaskStep, HandlerReturns, HandlerFails, HandlerRefuses, HandlerRaises, Retry, Becomes
  <2>3. \A d \in Call : d # c => task'[d] = task[d]
    BY <2>1 DEF TaskStep, HandlerReturns, HandlerFails, HandlerRefuses, HandlerRaises, Retry, Becomes
  <2> QED BY <2>1, <2>2, <2>3
<1> QED BY <1>1, AsideTree DEF streamVars

LEMMA EncodeTree == ASSUME StreamInv, TraceInv, Encode PROVE TraceInv'
<1>1. /\ layer = "upstream" /\ ~pulled /\ wire' = wire /\ trace' = trace
      /\ out' = Encoded /\ UNCHANGED runVars
  BY DEF Encode
<1>2. UNCHANGED <<pc, iteration, history, calls, announced, results, task, event, pulled>>
  BY <1>1 DEF runVars
<1>3. TurnsFit'
  BY <1>2, SameTurns DEF StreamInv, TraceInv
<1>4. \A type \in Frames : Frame(type)' = Frame(type) /\ Frame(type).type = type
  BY <1>2 DEF Frame
<1>5. Awaits(wire, event, Running, text_open, reasoning_open)
  BY <1>1 DEF StreamInv, FramesFit
<1>6. event \in Event
  BY <1>1 DEF StreamInv, LayersFit, LoopInv, TypeOK
<1>7. ASSUME event.type = "tool_started"
      PROVE  wire.tools[event.call] = "none"
  BY <1>5, <1>7, RunningCalls DEF Awaits, OutsideStep, ToolsOpen, StreamInv
<1>8. ASSUME event.type \in {"text", "reasoning", "iteration_completed", "run_failed"}
      PROVE  \A k \in 1 .. Len(Encoded) : Encoded[k].type \in Other
  <2>1. CASE event.type = "text"
    BY <2>1 DEF Encoded, CloseReasoning, Unless, Frame, Other, Frames
  <2>2. CASE event.type = "reasoning"
    BY <2>2 DEF Encoded, Unless, Frame, Other, Frames
  <2>3. CASE event.type = "iteration_completed"
    BY <2>3 DEF Encoded, CloseReasoning, CloseText, Frame, Other, Frames
  <2>4. CASE event.type = "run_failed"
    BY <2>4 DEF Encoded, CloseReasoning, CloseText, Frame, Other, Frames
  <2> QED BY <1>8, <2>1, <2>2, <2>3, <2>4
<1>9. OutFits'
  <2>1. event.type = "iteration_started" => Encoded = <<Frame("STEP_STARTED")>>
    BY DEF Encoded
  <2>2. event.type = "tool_started" =>
           Encoded = <<Frame("TOOL_CALL_START"), Frame("TOOL_CALL_ARGS")>>
    BY DEF Encoded
  <2>3. event.type = "tool_finished" =>
           Encoded = <<Frame("TOOL_CALL_END"), Frame("TOOL_CALL_RESULT"),
                       Frame("chatagents.tool_result")>>
    BY DEF Encoded
  <2>4. event.type = "run_completed" => Encoded = <<Frame("RUN_FINISHED")>>
    BY DEF Encoded
  <2>5. event.type \in {"iteration_started", "text", "reasoning", "iteration_completed",
                        "tool_started", "tool_finished", "run_completed", "run_failed"}
    BY <1>6 DEF Event
  <2> QED BY <1>1, <1>2, <1>4, <1>7, <1>8, <2>1, <2>2, <2>3, <2>4, <2>5 DEF OutFits, Frames
<1>10. event.type = "run_completed" => pc' \in {"exit"} \cup Ended
  BY <1>2 DEF TraceInv, EventFits
<1> QED BY <1>1, <1>2, <1>3, <1>9, <1>10, PlacesStay, QuietTree

-----------------------------------------------------------------------------
(* The steps of the loop *)

\* A frame in the making is never overtaken by the loop.
LEMMA NothingOut == ASSUME layer = "upstream", UNCHANGED streamVars PROVE OutFits'
  BY DEF OutFits, streamVars

LEMMA GoOnTree ==
    ASSUME StreamInv, TraceInv, Enter \/ Gathered \/ Exit, UNCHANGED streamVars
    PROVE  TraceInv'
<1>1. OutFits'
  BY AtRest, NothingOut DEF LoopStep
<1>2. /\ UNCHANGED <<iteration, history, announced, results, task, event, pulled>>
      /\ \/ pc = "enter" /\ pc' = "loop"
         \/ pc' \in Ended
         \/ {pc, pc'} \subseteq {"answered", "calls", "gather", "collect"}
      /\ pc # "enter" /\ pc' \notin Ended => pc = "gather"
  BY DEF Enter, Gathered, Exit, Ended
<1>3. TurnsFit'
  BY <1>2, SameTurns DEF StreamInv, TraceInv
<1>4. event.type = "run_completed" => pc' \in {"exit"} \cup Ended
  BY <1>2 DEF TraceInv, EventFits, Ended
<1> QED BY <1>1, <1>2, <1>3, <1>4, PlacesStay, QuietTree DEF streamVars

LEMMA AnnouncedPlaces ==
    ASSUME StreamInv, TraceInv, pulled, event # None, NEW c \in Announced
    PROVE  iteration >= 1 /\ Len(trace) = iteration /\ HasPlace(c)
<1>1. iteration >= 1 /\ announced \in Seq(Call)
  BY DEF StreamInv, LoopInv, StageFits, TypeOK
<1>2. Len(trace) = iteration /\ Placed = Len(announced)
  BY DEF TraceInv, SpansFit, Awaited, Placed
<1>3. ShowsSoFar(trace[iteration].tools, Placed, Told)
  BY <1>1, <1>2 DEF TraceInv, SpansFit
<1>4. PICK k \in 1 .. Len(announced) : announced[k] = c
  BY <1>1 DEF Announced, Range
<1>5. k \in 1 .. Len(trace[iteration].tools) /\ trace[iteration].tools[k].call = c
  BY <1>2, <1>3, <1>4 DEF ShowsSoFar
<1> QED BY <1>1, <1>2, <1>5 DEF HasPlace

LEMMA ExecuteTree == ASSUME StreamInv, TraceInv, Execute, UNCHANGED streamVars PROVE TraceInv'
<1>1. OutFits' /\ pulled
  BY AtRest, NothingOut DEF LoopStep
<1>2. /\ UNCHANGED <<iteration, history, announced, results, event, pulled>>
      /\ pc = "calls" /\ pc' = "gather" /\ Batch \subseteq Announced
  BY DEF Execute
<1>3. TurnsFit'
  BY <1>2, SameTurns DEF StreamInv, TraceInv
<1>4. event.type # "run_completed" /\ event # None
  BY <1>2, RecordFits, StageMeans DEF TraceInv, EventFits, Ended, StreamInv, LoopInv, StageFits, Working
<1>5. ASSUME NEW c \in Call, task'[c].pc # "none"
      PROVE  iteration >= 1 /\ Len(trace) = iteration /\ HasPlace(c)
  <2>1. CASE c \in Batch
    BY <1>1, <1>2, <1>4, <2>1, AnnouncedPlaces
  <2>2. CASE c \notin Batch
    <3>1. task[c].pc # "none"
      BY <1>5, <2>2 DEF Execute
    <3> QED BY <3>1 DEF TraceInv, SpansFit
  <2> QED BY <2>1, <2>2
<1> QED BY <1>1, <1>2, <1>3, <1>4, <1>5, QuietTree DEF streamVars

\* What stands when the event that is yielded is none that the tree waits for.
LEMMA YieldTree ==
    ASSUME StreamInv, TraceInv, pulled, OutFits', TurnsFit', EventFits', UNCHANGED streamVars,
           pulled' \/ event'.type \notin {"iteration_started", "tool_started", "tool_finished"},
           UNCHANGED <<iteration, announced, results>>,
           \A i \in Nat \ {0} : 2 * i < 2 * iteration => history'[2 * i].results = history[2 * i].results,
           \A c \in Call : task'[c].pc # "none" => task[c].pc # "none"
    PROVE  TraceInv'
<1>1. Placed = Len(announced) /\ Told = Len(results) /\ Len(trace) = iteration /\ wire' = wire
      /\ trace' = trace
  BY DEF TraceInv, SpansFit, Placed, Told, Awaited, streamVars
<1>2. Placed' = Placed /\ Told' = Told
  BY <1>1 DEF Placed, Told, Awaited
<1>3. Len(trace') = IF Awaited("iteration_started")' THEN iteration' - 1 ELSE iteration'
  BY <1>1 DEF Awaited
<1>4. ASSUME NEW i \in 1 .. Len(trace'), i < iteration'
      PROVE  Shows(trace'[i].tools, history'[2 * i].results)
  <2>1. i \in Nat \ {0} /\ i \in 1 .. Len(trace) /\ i < iteration /\ iteration \in Nat
    BY <1>1, <1>4, BoundsPositive DEF StreamInv, LoopInv, TypeOK
  <2>2. Shows(trace[i].tools, history[2 * i].results)
    BY <2>1 DEF TraceInv, SpansFit
  <2>3. history'[2 * i].results = history[2 * i].results
    BY <2>1
  <2> QED BY <1>1, <2>2, <2>3
<1>5. ASSUME iteration' >= 1
      PROVE  ShowsSoFar(trace[iteration].tools, Placed, Told)'
  <2>1. ShowsSoFar(trace[iteration].tools, Placed, Told)
    BY <1>1, <1>5 DEF TraceInv, SpansFit
  <2> QED BY <1>1, <1>2, <2>1 DEF ShowsSoFar
<1>6. ASSUME NEW c \in Call, task'[c].pc # "none"
      PROVE  iteration' >= 1 /\ Len(trace') = iteration' /\ HasPlace(c)'
  BY <1>1, <1>6, PlacesStay DEF HasPlace
<1>7. SpansFit'
  BY <1>3, <1>4, <1>5, <1>6 DEF SpansFit
<1>8. TreeFits(trace', wire')
  BY <1>1 DEF TraceInv
<1> QED BY <1>7, <1>8 DEF TraceInv

LEMMA YieldType ==
    ASSUME NEW type, NEW c, NEW status, Yield(type, c, status)
    PROVE  event'.type = type
  BY DEF Yield

LEMMA PlainEvent ==
    ASSUME TraceInv, pc \notin {"exit"} \cup Ended, UNCHANGED streamVars,
           event'.type \in {"text", "reasoning", "iteration_completed", "run_failed"}
    PROVE  EventFits'
  BY DEF TraceInv, EventFits, streamVars

LEMMA PlainTree ==
    ASSUME StreamInv, TraceInv, Delta \/ ModelFails \/ GatherFails, UNCHANGED streamVars
    PROVE  TraceInv'
<1>1. pulled /\ OutFits'
  BY AtRest, NothingOut DEF LoopStep, ModelEnds
<1>2. /\ UNCHANGED <<iteration, history, calls, announced, results, task>>
      /\ event'.type \in {"text", "reasoning", "run_failed"}
      /\ pc \notin {"exit"} \cup Ended
      /\ pc' = pc \/ pc' = "exit"
  <2>1. \/ Yield("text", "", "") \/ Yield("reasoning", "", "") \/ Yield("run_failed", "", "")
    BY DEF Delta, ModelFails, GatherFails
  <2>2. event'.type \in {"text", "reasoning", "run_failed"}
    BY <2>1, YieldType
  <2> QED BY <2>2 DEF Delta, ModelFails, GatherFails, Ended
<1>3. TurnsFit'
  BY <1>2, SameTurns DEF StreamInv, TraceInv
<1>4. EventFits'
  BY <1>2, PlainEvent
<1> QED BY <1>1, <1>2, <1>3, <1>4, YieldTree

LEMMA LookAtCallsTree ==
    ASSUME StreamInv, TraceInv, LookAtCalls, UNCHANGED streamVars
    PROVE  TraceInv'
<1>1. pulled /\ OutFits'
  BY AtRest, NothingOut DEF LoopStep
<1>2. /\ UNCHANGED <<iteration, history, calls, announced, results, task>>
      /\ pc = "answered" /\ pc' \in {"exit", "calls"}
      /\ announced = <<>> /\ results = <<>>
  BY DEF LookAtCalls, StreamInv, LoopInv, StageFits
<1>3. TurnsFit'
  BY <1>2, SameTurns DEF StreamInv, TraceInv
<1>4. CASE pc' = "calls"
  <2>1. UNCHANGED <<event, pulled>>
    BY <1>4 DEF LookAtCalls, Yield
  <2>2. event.type # "run_completed"
    BY <1>2 DEF TraceInv, EventFits, Ended
  <2> QED BY <1>1, <1>2, <1>3, <2>1, <2>2, PlacesStay, QuietTree DEF streamVars
<1>5. CASE pc' = "exit"
  <2>1. event'.type \in {"run_completed", "run_failed"}
    <3>1. Yield("run_completed", "", "") \/ Yield("run_failed", "", "")
      BY <1>5 DEF LookAtCalls
    <3> QED BY <3>1, YieldType
  <2>2. EventFits'
    <3>1. CASE event'.type = "run_completed"
      BY <1>2, <1>5, <3>1 DEF EventFits
    <3>2. CASE event'.type = "run_failed"
      BY <1>2, <3>2, PlainEvent DEF Ended
    <3> QED BY <2>1, <3>1, <3>2
  <2> QED BY <1>1, <1>2, <1>3, <2>1, <2>2, YieldTree
<1> QED BY <1>2, <1>4, <1>5

LEMMA ModelAnswersTree ==
    ASSUME StreamInv, TraceInv, ModelAnswers, UNCHANGED streamVars
    PROVE  TraceInv'
<1>1. pulled /\ OutFits'
  BY AtRest, NothingOut DEF ModelEnds
<1>2. /\ UNCHANGED <<iteration, announced, results>>
      /\ pc = "model" /\ pc' = "answered" /\ event'.type = "iteration_completed"
  BY DEF ModelAnswers, Yield
<1>3. LoopInv /\ LoopInv'
  BY ModelAnswersStep DEF StreamInv
<1>4. PICK m : /\ m = [kind |-> "answer", calls |-> calls', results |-> <<>>]
               /\ history' = Append(history, m)
  BY DEF ModelAnswers
<1>5. m \in Message /\ m.kind = "answer"
  <2>1. calls' \in Seq(Call)
    BY <1>3 DEF LoopInv, TypeOK
  <2> QED BY <1>4, <2>1 DEF Message
<1>6. PICK h, i : /\ h = history /\ h \in Seq(Message) /\ Turns(h)
                  /\ i \in Nat /\ Len(h) = 2 * i /\ i = iteration - 1 /\ iteration \in Nat
  <2>1. history \in Seq(Message) /\ Turns(history) /\ Len(history) = 2 * iteration - 2
        /\ iteration \in Nat
    BY <1>2, <1>3, BoundsPositive DEF TraceInv, TurnsFit, LoopInv, TypeOK
  <2>2. Len(history) \in Nat
    BY <2>1, LenProperties
  <2>3. iteration - 1 \in Nat /\ Len(history) = 2 * (iteration - 1)
    BY <2>1, <2>2
  <2> QED BY <2>1, <2>3
<1>7. /\ Len(history') = Len(h) + 1
      /\ \A k \in 1 .. Len(h) : history'[k] = h[k]
  BY <1>4, <1>5, <1>6, AppendProperties
<1>8. Turns(history')
  BY <1>4, <1>5, <1>6, TurnsStep
<1>9. TurnsFit'
  <2>1. Len(history') = 2 * iteration' - 1
    <3>1. iteration' = iteration /\ iteration \in Nat
      BY <1>2, <1>3, BoundsPositive DEF LoopInv, TypeOK
    <3> QED BY <1>6, <1>7, <3>1
  <2> QED BY <1>2, <1>8, <2>1 DEF TurnsFit
<1>10. EventFits'
  BY <1>2, PlainEvent DEF Ended
<1>11. ASSUME NEW j \in Nat \ {0}, 2 * j < 2 * iteration
       PROVE  history'[2 * j].results = history[2 * j].results
  <2>1. PICK l : l = 2 * j
    OBVIOUS
  <2>2. l \in 1 .. Len(h)
    BY <1>6, <1>11, <2>1
  <2>3. history'[l] = history[l]
    BY <1>6, <1>7, <2>2
  <2> QED BY <2>1, <2>3
<1>12. \A c \in Call : task'[c].pc = "none"
  <2>1. PICK tool \in [Range(calls') -> Tool] :
            task' = [c \in Call |-> IF c \in DOMAIN tool THEN [NoTask EXCEPT !.tool = tool[c]]
                                    ELSE NoTask]
    BY DEF ModelAnswers
  <2>2. NoTask.pc = "none" /\ \A t : [NoTask EXCEPT !.tool = t].pc = "none"
    BY DEF NoTask
  <2> QED BY <2>1, <2>2
<1> QED BY <1>1, <1>2, <1>9, <1>10, <1>11, <1>12, YieldTree

LEMMA FinishCallsTree ==
    ASSUME StreamInv, TraceInv, FinishCalls, UNCHANGED streamVars
    PROVE  TraceInv'
<1>1. pulled /\ OutFits'
  BY AtRest, NothingOut DEF LoopStep
<1>2. /\ pc = "calls" /\ pc' = "loop" /\ Batch = {}
      /\ UNCHANGED <<iteration, calls, announced, results, task, event, pulled>>
  BY DEF FinishCalls
<1>3. LoopInv /\ Asked \subseteq Finished
  BY <1>2, BatchShape DEF StreamInv
<1>4. Len(results) = Len(announced)
  BY <1>3, Reported DEF LoopInv, ReportsFit
<1>5. PICK m : /\ m = [kind |-> "results", calls |-> announced, results |-> results]
               /\ history' = Append(history, m)
  BY DEF FinishCalls
<1>6. m \in Message /\ m.kind = "results" /\ m.results = results
  BY <1>3, <1>5 DEF Message, LoopInv, TypeOK
<1>7. PICK h, i : /\ h = history /\ h \in Seq(Message) /\ Turns(h)
                  /\ i \in Nat /\ Len(h) = 2 * i + 1 /\ i = iteration - 1 /\ iteration \in Nat
  <2>1. history \in Seq(Message) /\ Turns(history) /\ Len(history) = 2 * iteration - 1
        /\ iteration \in Nat
    BY <1>2, <1>3, BoundsPositive DEF TraceInv, TurnsFit, LoopInv, TypeOK
  <2>2. Len(history) \in Nat
    BY <2>1, LenProperties
  <2>3. iteration - 1 \in Nat /\ Len(history) = 2 * (iteration - 1) + 1
    BY <2>1, <2>2
  <2> QED BY <2>1, <2>3
<1>8. /\ Len(history') = Len(h) + 1 /\ history'[Len(h) + 1] = m
      /\ \A k \in 1 .. Len(h) : history'[k] = h[k]
  BY <1>5, <1>6, <1>7, AppendProperties
<1>9. Turns(history')
  BY <1>5, <1>6, <1>7, TurnsStep
<1>10. TurnsFit'
  <2>1. Len(history') = 2 * iteration' /\ Len(h) + 1 = 2 * iteration'
    BY <1>2, <1>7, <1>8
  <2>2. history'[2 * iteration'].results = results'
    BY <1>2, <1>6, <1>8, <2>1
  <2> QED BY <1>2, <1>4, <1>9, <2>1, <2>2 DEF TurnsFit
<1>11. EventFits'
  BY <1>2 DEF TraceInv, EventFits, Ended, streamVars
<1>12. ASSUME NEW j \in Nat \ {0}, 2 * j < 2 * iteration
       PROVE  history'[2 * j].results = history[2 * j].results
  <2>1. PICK l : l = 2 * j
    OBVIOUS
  <2>2. l \in 1 .. Len(h)
    BY <1>7, <1>12, <2>1
  <2>3. history'[l] = history[l]
    BY <1>7, <1>8, <2>2
  <2> QED BY <2>1, <2>3
<1> QED BY <1>1, <1>2, <1>10, <1>11, <1>12, YieldTree

LEMMA StartIterationTree ==
    ASSUME StreamInv, TraceInv, StartIteration, UNCHANGED streamVars
    PROVE  TraceInv'
<1>1. pulled /\ OutFits'
  BY AtRest, NothingOut DEF LoopStep
<1>2. /\ pc = "loop" /\ pc' = "model" /\ iteration' = iteration + 1
      /\ announced' = <<>> /\ results' = <<>> /\ history' = history /\ pulled' = FALSE
      /\ \A c \in Call : task'[c].pc = "none"
  BY DEF StartIteration, Yield, NoTask
<1>3. event'.type = "iteration_started"
  BY YieldType DEF StartIteration
<1>4. iteration \in Nat /\ LoopInv /\ results \in Seq(Result) /\ announced \in Seq(Call)
      /\ \A j \in 1 .. Len(results) : results[j].call = announced[j]
  BY BoundsPositive DEF StreamInv, LoopInv, TypeOK, ReportsFit
<1>5. TurnsFit'
  <2>1. Len(history') = 2 * iteration' - 2
    <3>1. Len(history) = 2 * iteration
      BY <1>2 DEF TraceInv, TurnsFit
    <3> QED BY <1>2, <1>4, <3>1
  <2> QED BY <1>2, <2>1 DEF TraceInv, TurnsFit
<1>6. EventFits'
  <2>1. wire.run # "finished"
    BY <1>2 DEF TraceInv, EventFits, Ended
  <2> QED BY <1>2, <1>3, <2>1 DEF EventFits, streamVars
<1>7. Len(trace) = iteration /\ trace' = trace /\ wire' = wire
  BY <1>1 DEF TraceInv, SpansFit, Awaited, streamVars
<1>8. ASSUME NEW i \in 1 .. Len(trace'), i < iteration'
      PROVE  Shows(trace'[i].tools, history'[2 * i].results)
  <2>1. CASE i < iteration
    <3>1. Shows(trace[i].tools, history[2 * i].results)
      BY <1>7, <2>1 DEF TraceInv, SpansFit
    <3> QED BY <1>2, <1>7, <3>1
  <2>2. CASE i = iteration
    <3>1. iteration >= 1
      BY <1>4, <1>7, <2>2
    <3>2. history[2 * iteration].results = results /\ Len(results) = Len(announced)
      BY <1>2, <3>1 DEF TraceInv, TurnsFit
    <3>3. Placed = Len(announced) /\ Told = Len(results)
      BY <1>1 DEF Placed, Told, Awaited
    <3>4. ShowsSoFar(trace[iteration].tools, Placed, Told)
      BY <1>7, <3>1 DEF TraceInv, SpansFit
    <3>5. Shows(trace[iteration].tools, results)
      BY <1>4, <3>2, <3>3, <3>4 DEF Shows, ShowsSoFar
    <3> QED BY <1>2, <1>7, <2>2, <3>2, <3>5
  <2> QED BY <1>2, <1>4, <1>7, <1>8, <2>1, <2>2
<1>9. Awaited("iteration_started")'
  BY <1>2, <1>3 DEF Awaited
<1>10. SpansFit'
  <2>1. Len(trace') = iteration' - 1 /\ Len(trace') # iteration'
    BY <1>2, <1>4, <1>7
  <2> QED BY <1>2, <1>8, <1>9, <2>1 DEF SpansFit
<1>11. TreeFits(trace', wire')
  BY <1>7 DEF TraceInv
<1> QED BY <1>1, <1>5, <1>6, <1>10, <1>11 DEF TraceInv

LEMMA AnnounceTree ==
    ASSUME StreamInv, TraceInv, Announce, UNCHANGED streamVars
    PROVE  TraceInv'
<1>1. /\ pulled /\ OutFits' /\ LoopInv
      /\ Stands(wire, Stage, Running, text_open, reasoning_open)
  BY AtRest, NothingOut DEF LoopStep, StreamInv
<1>2. PICK c : c = First(Batch \ Announced)
  OBVIOUS
<1>3. /\ pc = "calls" /\ pc' = pc /\ Batch \ Announced # {}
      /\ UNCHANGED <<iteration, history, calls, results, task>>
      /\ announced' = Append(announced, c)
  BY <1>2 DEF Announce
<1>4. c \in Call
  <2>1. calls \in Seq(Call) /\ IsInjective(calls) /\ Batch \ Announced \subseteq Asked
    BY <1>1, BatchShape DEF LoopInv, TypeOK, ReportsFit
  <2>2. Batch \ Announced # {}
    BY <1>3
  <2>3. First(Batch \ Announced) \in Batch \ Announced
    BY <2>1, <2>2, FirstOf
  <2>4. Asked \subseteq Call
    BY <2>1 DEF Asked, Range
  <2> QED BY <1>2, <2>1, <2>3, <2>4
<1>5. event'.type = "tool_started" /\ event'.call = c /\ pulled' = FALSE
  <2>1. Yield("tool_started", c, "")
    BY <1>2 DEF Announce
  <2> QED BY <1>4, <2>1, Yielded
<1>6. wire.tools[c] = "none" /\ wire' = wire /\ trace' = trace
  <2>1. Yields
    BY <1>1, <1>5, LoopYields DEF LoopStep, Rests
  <2>2. Stage = "answered" /\ c \notin Running
    BY <1>5, <2>1 DEF Yields
  <2> QED BY <1>1, <1>4, <2>2 DEF Stands, OutsideStep, ToolsOpen, streamVars
<1>7. PICK n, k : /\ n \in Nat /\ n = Len(announced) /\ Len(announced') = n + 1
                  /\ announced'[n + 1] = c /\ \A j \in 1 .. n : announced'[j] = announced[j]
                  /\ k \in Nat /\ k = Len(results) /\ k <= n
  <2>1. announced \in Seq(Call) /\ results \in Seq(Result) /\ Len(results) <= Len(announced)
    BY <1>1 DEF LoopInv, TypeOK, ReportsFit
  <2>2. /\ Len(announced') = Len(announced) + 1 /\ Len(announced) \in Nat
        /\ announced'[Len(announced) + 1] = c
        /\ \A j \in 1 .. Len(announced) : announced'[j] = announced[j]
    <3>1. announced' = Append(announced, c)
      BY <1>3
    <3> QED BY <1>4, <2>1, <3>1, AppendProperties, LenProperties
  <2>3. Len(results) \in Nat
    BY <2>1, LenProperties
  <2> QED BY <2>1, <2>2, <2>3
<1>8. TurnsFit'
  BY <1>3 DEF TraceInv, TurnsFit
<1>9. EventFits'
  <2>1. wire.run # "finished"
    BY <1>3 DEF TraceInv, EventFits, Ended
  <2>2. Len(results') < Len(announced') /\ announced'[Len(announced')] = event'.call
    <3>1. results' = results /\ k < n + 1
      BY <1>3, <1>7
    <3> QED BY <1>5, <1>7, <3>1
  <2> QED BY <1>5, <1>6, <2>1, <2>2 DEF EventFits
<1>10. Placed = n /\ Told = k /\ Len(trace) = iteration
  BY <1>1, <1>7 DEF TraceInv, SpansFit, Placed, Told, Awaited
<1>11. Placed' = n /\ Told' = k
  <2>1. Awaited("tool_started")' /\ ~Awaited("tool_finished")'
    BY <1>5 DEF Awaited
  <2>2. wire'.tools[event'.call] = "none" /\ results' = results /\ n + 1 - 1 = n
    BY <1>3, <1>5, <1>6, <1>7
  <2> QED BY <1>7, <2>1, <2>2 DEF Placed, Told
<1>12. SpansFit'
  <2>1. Len(trace') = IF Awaited("iteration_started")' THEN iteration' - 1 ELSE iteration'
    BY <1>3, <1>5, <1>6, <1>10 DEF Awaited
  <2>2. \A i \in 1 .. Len(trace') : i < iteration' => Shows(trace'[i].tools, history'[2 * i].results)
    BY <1>3, <1>6 DEF TraceInv, SpansFit
  <2>3. iteration' >= 1 => ShowsSoFar(trace[iteration].tools, Placed, Told)'
    BY <1>3, <1>6, <1>7, <1>10, <1>11 DEF TraceInv, SpansFit, ShowsSoFar
  <2>4. ASSUME NEW d \in Call, task'[d].pc # "none"
        PROVE  iteration' >= 1 /\ Len(trace') = iteration' /\ HasPlace(d)'
    BY <1>3, <1>6, <2>4, PlacesStay DEF HasPlace
  <2> QED BY <2>1, <2>2, <2>3, <2>4 DEF SpansFit
<1>13. TreeFits(trace', wire')
  BY <1>6 DEF TraceInv
<1> QED BY <1>1, <1>8, <1>9, <1>12, <1>13 DEF TraceInv

LEMMA CollectTree ==
    ASSUME StreamInv, TraceInv, Collect, UNCHANGED streamVars
    PROVE  TraceInv'
<1>1. pulled /\ OutFits' /\ LoopInv
  BY AtRest, NothingOut DEF LoopStep, StreamInv
<1>2. PICK c : c = First(Batch \ Finished)
  OBVIOUS
<1>3. /\ pc = "collect" /\ pc' \in {"calls", "collect"}
      /\ UNCHANGED <<iteration, history, calls, announced, task>>
  BY DEF Collect
<1>4. PICK status \in {"ok", "error"} : /\ results' = Append(results, [call |-> c, status |-> status])
                                        /\ Yield("tool_finished", c, status)
  BY <1>2 DEF Collect
<1>5. c \in Call
  <2>1. calls \in Seq(Call) /\ IsInjective(calls) /\ Batch \ Finished \subseteq Asked
        /\ Batch \ Finished # {}
    BY <1>1, <1>3, BatchShape DEF LoopInv, TypeOK, ReportsFit, BatchFits
  <2>2. Batch \ Finished # {}
    BY <2>1
  <2>3. First(Batch \ Finished) \in Batch \ Finished
    BY <2>1, <2>2, FirstOf
  <2>4. Asked \subseteq Call
    BY <2>1 DEF Asked, Range
  <2> QED BY <1>2, <2>1, <2>3, <2>4
<1>6. /\ event'.type = "tool_finished" /\ event'.call = c /\ event'.status = status
      /\ pulled' = FALSE
  BY <1>4, <1>5, Yielded
<1>7. PICK r \in Result : r.call = c /\ r.status = status /\ results' = Append(results, r)
  BY <1>4, <1>5 DEF Result
<1>8. PICK k : /\ k \in Nat /\ k = Len(results) /\ Len(results') = k + 1
               /\ results'[k + 1] = r /\ \A j \in 1 .. k : results'[j] = results[j]
  <2>1. results \in Seq(Result)
    BY <1>1 DEF LoopInv, TypeOK
  <2>2. /\ Len(results') = Len(results) + 1 /\ Len(results) \in Nat
        /\ results'[Len(results) + 1] = r
        /\ \A j \in 1 .. Len(results) : results'[j] = results[j]
    BY <1>7, <2>1, AppendProperties, LenProperties
  <2> QED BY <2>2
<1>9. wire' = wire /\ trace' = trace
  BY DEF streamVars
<1>10. TurnsFit'
  BY <1>3 DEF TraceInv, TurnsFit
<1>11. EventFits'
  <2>1. wire.run # "finished"
    BY <1>3 DEF TraceInv, EventFits, Ended
  <2>2. results' # <<>>
    <3>1. Len(<<>>) = 0
      OBVIOUS
    <3> QED BY <1>8, <3>1
  <2>3. results'[Len(results')].call = event'.call /\ results'[Len(results')].status = event'.status
    BY <1>6, <1>7, <1>8
  <2> QED BY <1>6, <1>9, <2>1, <2>2, <2>3 DEF EventFits
<1>12. Placed = Len(announced) /\ Told = k /\ Len(trace) = iteration
  BY <1>1, <1>8 DEF TraceInv, SpansFit, Placed, Told, Awaited
<1>13. Placed' = Len(announced) /\ Told' = k
  <2>1. ~Awaited("tool_started")' /\ Awaited("tool_finished")'
    BY <1>6 DEF Awaited
  <2> QED BY <1>3, <1>8, <2>1 DEF Placed, Told
<1>14. SpansFit'
  <2>1. Len(trace') = IF Awaited("iteration_started")' THEN iteration' - 1 ELSE iteration'
    BY <1>3, <1>6, <1>9, <1>12 DEF Awaited
  <2>2. \A i \in 1 .. Len(trace') : i < iteration' => Shows(trace'[i].tools, history'[2 * i].results)
    BY <1>3, <1>9 DEF TraceInv, SpansFit
  <2>3. ASSUME iteration' >= 1 PROVE ShowsSoFar(trace[iteration].tools, Placed, Told)'
    <3>1. ShowsSoFar(trace[iteration].tools, Len(announced), k)
      BY <1>3, <1>12, <2>3 DEF TraceInv, SpansFit
    <3> QED BY <1>3, <1>8, <1>9, <1>13, <3>1 DEF ShowsSoFar
  <2>4. ASSUME NEW d \in Call, task'[d].pc # "none"
        PROVE  iteration' >= 1 /\ Len(trace') = iteration' /\ HasPlace(d)'
    BY <1>3, <1>9, <2>4, PlacesStay DEF HasPlace
  <2> QED BY <2>1, <2>2, <2>3, <2>4 DEF SpansFit
<1>15. TreeFits(trace', wire')
  BY <1>9 DEF TraceInv
<1> QED BY <1>1, <1>10, <1>11, <1>14, <1>15 DEF TraceInv

-----------------------------------------------------------------------------
(* The steps that send a frame *)

\* The same calls with the same outcomes.
SameSpans(a, b) ==
    /\ Len(a) = Len(b)
    /\ \A i \in 1 .. Len(b) :
          /\ Len(a[i].tools) = Len(b[i].tools)
          /\ \A k \in 1 .. Len(b[i].tools) : Same(a[i].tools[k], b[i].tools[k])

LEMMA FramesKeepSpans ==
    ASSUME NEW t \in Seq(Iterations), NEW f \in FrameSet,
           f.type \in Other \cup {"TOOL_CALL_ARGS", "TOOL_CALL_END", "RUN_FINISHED"}
    PROVE  SameSpans(Merged(t, f), t)
<1>1. PICK u, m : u = Merged(t, f) /\ m \in Nat /\ m = Len(t)
  OBVIOUS
<1>2. f.type # "STEP_STARTED" /\ f.type # "TOOL_CALL_START"
  BY DEF Other
<1>3. CASE t = <<>>
  <2>1. u = <<>> /\ Len(<<>>) = 0
    BY <1>1, <1>2, <1>3 DEF Merged
  <2> QED BY <1>1, <1>3, <2>1 DEF SameSpans
<1>4. CASE t # <<>>
  <2>1. PICK it, n : it = t[m] /\ n = InIteration(it, f)
    OBVIOUS
  <2>2. /\ Len(u) = m /\ u[m] = n /\ \A i \in 1 .. m - 1 : u[i] = t[i]
    BY <1>1, <1>2, <1>4, <2>1, MergedIs
  <2>3. it \in Iterations /\ m \in 1 .. m
    <3>1. m # 0
      BY <1>1, <1>4
    <3> QED BY <1>1, <2>1, <3>1
  <2>4. /\ Len(n.tools) = Len(it.tools)
        /\ \A k \in 1 .. Len(it.tools) : Same(n.tools[k], it.tools[k])
    BY <1>2, <2>1, <2>3, FramedIteration DEF Same
  <2>5. ASSUME NEW i \in 1 .. m
        PROVE  /\ Len(u[i].tools) = Len(t[i].tools)
               /\ \A k \in 1 .. Len(t[i].tools) : Same(u[i].tools[k], t[i].tools[k])
    <3>1. CASE i = m
      BY <2>1, <2>2, <2>4, <3>1
    <3>2. CASE i # m
      <4>1. u[i] = t[i]
        BY <1>1, <2>2, <3>2
      <4> QED BY <4>1 DEF Same
    <3> QED BY <3>1, <3>2
  <2> QED BY <1>1, <2>2, <2>5 DEF SameSpans
<1> QED BY <1>3, <1>4

\* A frame that changes no span, once what has arrived is told apart.
LEMMA SameSpansTree ==
    ASSUME StreamInv, TraceInv, TreeFits(trace', wire'), OutFits', SameSpans(trace', trace),
           UNCHANGED <<pc, iteration, history, announced, results, event, task>>,
           wire'.run = "finished" => event.type = "run_completed",
           Awaited("iteration_started")' <=> Awaited("iteration_started"),
           Placed' = Placed, Told' = Told
    PROVE  TraceInv'
<1>1. TurnsFit'
  BY SameTurns DEF StreamInv, TraceInv
<1>2. EventFits'
  BY DEF TraceInv, EventFits
<1>3. Len(trace') = Len(trace) /\ Len(trace) \in Nat /\ iteration \in Nat
  BY BoundsPositive DEF SameSpans, TraceInv, TreeFits, StreamInv, LoopInv, TypeOK
<1>4. ASSUME NEW i \in 1 .. Len(trace), i < iteration
      PROVE  Shows(trace'[i].tools, history'[2 * i].results)
  <2>1. Shows(trace[i].tools, history[2 * i].results)
    BY <1>4 DEF TraceInv, SpansFit
  <2> QED BY <2>1 DEF Shows, SameSpans, Same
<1>5. ASSUME Len(trace) = iteration, iteration >= 1
      PROVE  ShowsSoFar(trace[iteration].tools, Placed, Told)'
  <2>1. ShowsSoFar(trace[iteration].tools, Placed, Told)
    BY <1>5 DEF TraceInv, SpansFit
  <2>2. iteration \in 1 .. Len(trace)
    BY <1>3, <1>5
  <2> QED BY <2>1, <2>2 DEF ShowsSoFar, SameSpans, Same
<1>6. ASSUME NEW c \in Call, task'[c].pc # "none"
      PROVE  iteration' >= 1 /\ Len(trace') = iteration' /\ HasPlace(c)'
  <2>1. iteration >= 1 /\ Len(trace) = iteration /\ HasPlace(c)
    BY <1>6 DEF TraceInv, SpansFit
  <2>2. iteration \in 1 .. Len(trace)
    BY <1>3, <2>1
  <2> QED BY <1>3, <2>1, <2>2 DEF HasPlace, SameSpans, Same
<1>7. Len(trace') = IF Awaited("iteration_started")' THEN iteration' - 1 ELSE iteration'
  BY <1>3 DEF TraceInv, SpansFit
<1>8. SpansFit'
  BY <1>3, <1>4, <1>5, <1>6, <1>7 DEF SpansFit
<1> QED BY <1>1, <1>2, <1>8 DEF TraceInv

LEMMA SeenRun ==
    ASSUME NEW w \in Wires, NEW f, Seen(w, f).run = "finished"
    PROVE  f.type = "RUN_FINISHED" \/ w.run = "finished"
  BY DEF Seen, Wires

\* What every sending does.
LEMMA SendIs ==
    ASSUME StreamInv, TraceInv, Send, NEW f, f = Head(out)
    PROVE  /\ f \in FrameSet /\ Allowed(wire, f) /\ wire \in Wires /\ trace \in Seq(Iterations)
           /\ out' = Tail(out) /\ wire' = Seen(wire, f) /\ trace' = Merged(trace, f)
           /\ TreeFits(trace', wire')
           /\ UNCHANGED <<pc, iteration, history, calls, announced, results, task, event>>
           /\ layer = "sending" /\ Len(out) > 1 => layer' = "sending" /\ ~pulled /\ ~pulled'
           /\ layer = "sending" /\ ~(Len(out) > 1) => layer' = "upstream" /\ ~pulled /\ pulled'
           /\ layer \in {"sending", "closing"}
<1>1. /\ layer \in {"sending", "closing"} /\ out' = Tail(out)
      /\ wire' = Seen(wire, f) /\ trace' = Merged(trace, f)
      /\ UNCHANGED <<pc, iteration, history, calls, announced, results, task, event>>
  BY DEF Send
<1>2. f \in FrameSet /\ Allowed(wire, f) /\ wire \in Wires
  BY SendInv DEF StreamInv
<1>3. TreeFits(trace', wire') /\ trace \in Seq(Iterations)
  <2>1. TreeFits(trace, wire)
    BY DEF TraceInv
  <2>2. TreeFits(trace', wire')
    BY <1>1, <1>2, <2>1, TreeStep
  <2> QED BY <2>1, <2>2 DEF TreeFits
<1>4. /\ layer = "sending" => ~pulled
      /\ layer = "sending" /\ Len(out) > 1 => layer' = "sending" /\ pulled' = pulled
      /\ layer = "sending" /\ ~(Len(out) > 1) => layer' = "upstream" /\ pulled'
  BY DEF Send, Pull, StreamInv, LayersFit
<1> QED BY <1>1, <1>2, <1>3, <1>4

\* The frames of the events that change no span.
LEMMA SendPlain ==
    ASSUME StreamInv, TraceInv, Send,
           \/ layer = "closing"
           \/ event.type \notin {"iteration_started", "tool_started", "tool_finished"}
    PROVE  TraceInv'
<1>1. PICK f : f = Head(out)
  OBVIOUS
<1>2. /\ f \in FrameSet /\ wire \in Wires /\ trace \in Seq(Iterations)
      /\ out' = Tail(out) /\ wire' = Seen(wire, f) /\ trace' = Merged(trace, f)
      /\ TreeFits(trace', wire')
      /\ UNCHANGED <<pc, iteration, history, announced, results, event, task>>
      /\ layer \in {"sending", "closing"}
  BY <1>1, SendIs
<1>3. CASE layer = "closing"
  <2>1. /\ layer' = "over" /\ pulled' = pulled /\ f.type = "RUN_ERROR"
    <3>1. PICK g \in FrameSet : out = <<g>> /\ g.type = "RUN_ERROR"
      BY <1>3 DEF StreamInv, FramesFit
    <3>2. Head(out) = g /\ Len(out) = 1
      BY <3>1
    <3> QED BY <1>1, <1>3, <3>1, <3>2 DEF Send
  <2>2. SameSpans(trace', trace)
    BY <1>2, <2>1, FramesKeepSpans DEF Other, Frames
  <2>3. wire'.run = "error" /\ wire'.tools = wire.tools
    BY <1>2, <2>1 DEF Seen, Wires
  <2>4. OutFits'
    BY <2>1 DEF OutFits
  <2>5. /\ Awaited("iteration_started")' <=> Awaited("iteration_started")
        /\ Placed' = Placed /\ Told' = Told
    BY <1>2, <2>1, <2>3 DEF Awaited, Placed, Told
  <2> QED BY <1>2, <2>2, <2>3, <2>4, <2>5, SameSpansTree
<1>4. CASE /\ layer = "sending"
           /\ event.type \notin {"iteration_started", "tool_started", "tool_finished"}
  <2>1. /\ f.type \in Other \cup {"RUN_FINISHED"}
        /\ f.type = "RUN_FINISHED" => event.type = "run_completed"
    <3>1. CASE event.type = "run_completed"
      <4>1. out = <<Frame("RUN_FINISHED")>>
        BY <1>4, <3>1 DEF TraceInv, OutFits
      <4> QED BY <1>1, <3>1, <4>1 DEF Frame
    <3>2. CASE event.type # "run_completed"
      <4>1. out \in Seq(FrameSet) /\ out # <<>>
        BY <1>4 DEF StreamInv, StreamTypeOK, FrameSet, LayersFit
      <4>2. Head(out) = out[1] /\ 1 \in 1 .. Len(out)
        BY <4>1
      <4>3. out[1].type \in Other
        BY <1>4, <3>2, <4>2 DEF TraceInv, OutFits
      <4> QED BY <1>1, <4>2, <4>3 DEF Other
    <3> QED BY <3>1, <3>2
  <2>2. SameSpans(trace', trace)
    BY <1>2, <2>1, FramesKeepSpans
  <2>3. wire'.run = "finished" => event.type = "run_completed"
    BY <1>2, <2>1, SeenRun DEF TraceInv, EventFits
  <2>4. OutFits'
    <3>1. CASE event.type = "run_completed"
      <4>1. out = <<Frame("RUN_FINISHED")>>
        BY <1>4, <3>1 DEF TraceInv, OutFits
      <4>2. ~(Len(out) > 1)
        BY <4>1
      <4>3. layer' = "upstream"
        BY <1>1, <1>4, <4>2, SendIs
      <4> QED BY <4>3 DEF OutFits
    <3>2. CASE event.type # "run_completed"
      <4>1. out \in Seq(FrameSet) /\ out # <<>>
        BY <1>4 DEF StreamInv, StreamTypeOK, FrameSet, LayersFit
      <4>2. \A k \in 1 .. Len(out) : out[k].type \in Other
        BY <1>4, <3>2 DEF TraceInv, OutFits
      <4>3. PICK s, r : s = out /\ r = Tail(out)
        OBVIOUS
      <4>4. s \in Seq(FrameSet) /\ s # <<>> /\ \A k \in 1 .. Len(s) : s[k].type \in Other
        BY <4>1, <4>2, <4>3
      <4>5. \A k \in 1 .. Len(r) : r[k].type \in Other
        <5>1. r = Tail(s)
          BY <4>3
        <5>2. /\ Len(r) = Len(s) - 1 /\ Len(s) \in Nat
              /\ \A k \in 1 .. Len(r) : r[k] = s[k + 1]
          BY <4>4, <5>1
        <5> QED BY <4>4, <5>2
      <4> QED BY <1>2, <1>4, <3>2, <4>3, <4>5 DEF OutFits
    <3> QED BY <3>1, <3>2
  <2>5. /\ Awaited("iteration_started")' <=> Awaited("iteration_started")
        /\ Placed' = Placed /\ Told' = Told
    BY <1>2, <1>4 DEF Awaited, Placed, Told
  <2> QED BY <1>2, <2>2, <2>3, <2>4, <2>5, SameSpansTree
<1> QED BY <1>2, <1>3, <1>4

\* STEP_STARTED opens the next iteration of the tree.
LEMMA SendStart ==
    ASSUME StreamInv, TraceInv, Send, layer = "sending", event.type = "iteration_started"
    PROVE  TraceInv'
<1>1. PICK f : f = Head(out)
  OBVIOUS
<1>2. out = <<Frame("STEP_STARTED")>>
  BY DEF TraceInv, OutFits
<1>3. f.type = "STEP_STARTED" /\ ~(Len(out) > 1)
  BY <1>1, <1>2 DEF Frame
<1>4. /\ f \in FrameSet /\ wire \in Wires /\ trace \in Seq(Iterations)
      /\ wire' = Seen(wire, f) /\ trace' = Merged(trace, f)
      /\ TreeFits(trace', wire')
      /\ UNCHANGED <<pc, iteration, history, announced, results, event, task>>
      /\ layer' = "upstream" /\ ~pulled /\ pulled'
  BY <1>1, <1>3, SendIs
<1>5. PICK m : /\ m \in Nat /\ m = Len(trace) /\ Len(trace') = m + 1
               /\ trace'[m + 1] = NewIteration /\ NewIteration.tools = <<>>
               /\ \A i \in 1 .. m : trace'[i] = trace[i]
  <2>1. PICK t, u : t = trace /\ u = trace'
    OBVIOUS
  <2>2. t \in Seq(Iterations) /\ u = Merged(t, f)
    BY <1>4, <2>1
  <2>3. /\ Len(u) = Len(t) + 1 /\ Len(t) \in Nat
        /\ u[Len(t) + 1] = NewIteration /\ NewIteration.tools = <<>>
        /\ \A i \in 1 .. Len(t) : u[i] = t[i]
    BY <1>3, <2>2, StartedIs
  <2> QED BY <2>1, <2>3
<1>6. m = iteration - 1 /\ iteration \in Nat
  BY <1>4, <1>5, BoundsPositive DEF TraceInv, SpansFit, Awaited, StreamInv, LoopInv, TypeOK
<1>7. announced = <<>> /\ results = <<>>
  BY DEF TraceInv, EventFits
<1>8. TurnsFit'
  BY <1>4, SameTurns DEF StreamInv, TraceInv
<1>9. EventFits'
  <2>1. wire'.run # "finished"
    BY <1>3, <1>4, SeenRun DEF TraceInv, EventFits
  <2> QED BY <1>4, <2>1 DEF TraceInv, EventFits
<1>10. OutFits'
  BY <1>4 DEF OutFits
<1>11. SpansFit'
  <2>1. Len(trace') = iteration' /\ ~Awaited("iteration_started")'
    BY <1>4, <1>5, <1>6 DEF Awaited
  <2>2. ASSUME NEW i \in 1 .. Len(trace'), i < iteration'
        PROVE  Shows(trace'[i].tools, history'[2 * i].results)
    <3>1. i \in 1 .. m
      BY <1>4, <1>5, <1>6, <2>2
    <3>2. Shows(trace[i].tools, history[2 * i].results)
      BY <1>4, <1>5, <2>2, <3>1 DEF TraceInv, SpansFit
    <3> QED BY <1>4, <1>5, <3>1, <3>2
  <2>3. ShowsSoFar(trace[iteration].tools, Placed, Told)'
    <3>1. Len(<<>>) = 0
      OBVIOUS
    <3>2. Placed' = 0
      BY <1>4, <1>7, <3>1 DEF Placed, Awaited
    <3>3. trace'[iteration'].tools = <<>>
      BY <1>4, <1>5, <1>6
    <3> QED BY <3>1, <3>2, <3>3 DEF ShowsSoFar
  <2>4. ASSUME NEW c \in Call, task'[c].pc # "none" PROVE FALSE
    <3>1. task[c].pc # "none"
      BY <1>4, <2>4
    <3>2. Len(trace) = iteration
      BY <3>1 DEF TraceInv, SpansFit
    <3>3. m = iteration
      BY <1>5, <3>2
    <3> QED BY <1>6, <3>3
  <2> QED BY <2>1, <2>2, <2>3, <2>4 DEF SpansFit
<1> QED BY <1>4, <1>8, <1>9, <1>10, <1>11 DEF TraceInv

\* The latest iteration, as a frame of one of its tool calls finds it.
LEMMA LatestSpans ==
    ASSUME StreamInv, TraceInv, event.type \in {"tool_started", "tool_finished"}
    PROVE  /\ iteration \in Nat /\ iteration >= 1 /\ Len(trace) = iteration /\ trace # <<>>
           /\ trace \in Seq(Iterations) /\ trace[iteration] \in Iterations
           /\ ShowsSoFar(trace[iteration].tools, Placed, Told)
           /\ ~Awaited("iteration_started")
<1>1. event # None /\ iteration \in Nat
  <2>1. None.type = "none"
    BY DEF None
  <2>2. iteration \in Nat
    BY RecordFits DEF StreamInv
  <2> QED BY <2>1, <2>2
<1>2. iteration >= 1
  BY <1>1 DEF StreamInv, LoopInv, StageFits
<1>3. Len(trace) = iteration /\ ~Awaited("iteration_started")
  BY DEF TraceInv, SpansFit, Awaited
<1>4. trace \in Seq(Iterations)
  BY DEF TraceInv, TreeFits
<1>5. trace # <<>>
  <2>1. Len(<<>>) = 0
    OBVIOUS
  <2> QED BY <1>2, <1>3, <2>1
<1>6. trace[iteration] \in Iterations
  <2>1. iteration \in 1 .. Len(trace)
    BY <1>1, <1>2, <1>3
  <2> QED BY <1>4, <2>1
<1> QED BY <1>1, <1>2, <1>3, <1>4, <1>5, <1>6 DEF TraceInv, SpansFit

\* TOOL_CALL_START gives the call its place.
LEMMA SendPlace ==
    ASSUME StreamInv, TraceInv, Send, layer = "sending", event.type = "tool_started",
           out = <<Frame("TOOL_CALL_START"), Frame("TOOL_CALL_ARGS")>>,
           wire.tools[event.call] = "none"
    PROVE  TraceInv'
<1>1. PICK f, c : f = Head(out) /\ c = event.call
  OBVIOUS
<1>2. f.type = "TOOL_CALL_START" /\ f.call = c /\ Len(out) > 1 /\ Tail(out) = <<Frame("TOOL_CALL_ARGS")>>
  BY <1>1 DEF Frame
<1>3. /\ f \in FrameSet /\ Allowed(wire, f) /\ wire \in Wires
      /\ out' = Tail(out) /\ wire' = Seen(wire, f) /\ trace' = Merged(trace, f)
      /\ TreeFits(trace', wire')
      /\ UNCHANGED <<pc, iteration, history, announced, results, event, task>>
      /\ layer' = "sending" /\ ~pulled /\ ~pulled'
  BY <1>1, <1>2, SendIs
<1>4. /\ iteration \in Nat /\ iteration >= 1 /\ Len(trace) = iteration /\ trace # <<>>
      /\ trace \in Seq(Iterations) /\ trace[iteration] \in Iterations
      /\ ShowsSoFar(trace[iteration].tools, Placed, Told)
  BY LatestSpans
<1>5. c \in Call
  BY <1>2, <1>3 DEF Allowed, ToolAt
<1>6. wire'.tools[c] = "started" /\ wire'.run = wire.run
  BY <1>2, <1>3, <1>5 DEF Seen, Wires
<1>7. PICK it, n : it = trace[iteration] /\ n = InIteration(it, f)
  OBVIOUS
<1>8. /\ Len(trace') = iteration /\ trace'[iteration] = n
      /\ \A i \in 1 .. iteration - 1 : trace'[i] = trace[i]
  <2>1. PICK t, u : t = trace /\ u = trace'
    OBVIOUS
  <2>2. /\ t \in Seq(Iterations) /\ t # <<>> /\ u = Merged(t, f) /\ Len(t) = iteration
        /\ n = InIteration(t[Len(t)], f) /\ f.type # "STEP_STARTED"
    BY <1>2, <1>3, <1>4, <1>7, <2>1
  <2>3. Len(u) = Len(t) /\ u[Len(t)] = n /\ \A i \in 1 .. Len(t) - 1 : u[i] = t[i]
    BY <1>2, <1>3, <1>5, <2>2, MergedIs
  <2> QED BY <2>1, <2>2, <2>3
<1>9. PICK s, p, g : s = it.tools /\ p = Len(s) /\ g = NewTool(c)
  OBVIOUS
<1>10. /\ s \in Seq(ToolSpans) /\ p \in Nat /\ n.tools = Append(s, g)
       /\ g \in ToolSpans /\ g.call = c /\ g.status = "pending"
  <2>1. s \in Seq(ToolSpans)
    BY <1>4, <1>7, <1>9 DEF Iterations
  <2>2. n = [it EXCEPT !.tools = Append(@, NewTool(f.call))] /\ it \in Iterations
    BY <1>2, <1>4, <1>7 DEF InIteration
  <2>3. n.tools = Append(s, g)
    BY <1>2, <1>9, <2>2 DEF Iterations
  <2>4. g \in ToolSpans /\ g.call = c /\ g.status = "pending"
    BY <1>5, <1>9 DEF NewTool, ToolSpans
  <2>5. Len(s) \in Nat
    BY <2>1, LenProperties
  <2> QED BY <1>9, <2>1, <2>3, <2>4, <2>5
<1>11. /\ Len(n.tools) = p + 1 /\ n.tools[p + 1] = g
       /\ \A k \in 1 .. p : n.tools[k] = s[k]
  BY <1>9, <1>10, AppendProperties
<1>12. /\ Len(announced) \in Nat /\ Len(results) \in Nat /\ Len(results) < Len(announced)
       /\ announced[Len(announced)] = c
  BY <1>1, RecordFits DEF StreamInv, TraceInv, EventFits
<1>13. Placed = Len(announced) - 1 /\ Told = Len(results)
  BY <1>3 DEF Placed, Told, Awaited
<1>14. Placed' = Len(announced) /\ Told' = Len(results)
  <2>1. wire'.tools[event'.call] # "none" /\ ~Awaited("tool_finished")'
    BY <1>1, <1>3, <1>6 DEF Awaited
  <2> QED BY <1>3, <2>1 DEF Placed, Told
<1>15. p + 1 = Len(announced)
  BY <1>4, <1>7, <1>9, <1>12, <1>13 DEF ShowsSoFar
<1>16. ShowsSoFar(trace[iteration].tools, Placed, Told)'
  <2>1. ASSUME NEW k \in 1 .. p + 1
        PROVE  /\ n.tools[k].call = announced[k]
               /\ n.tools[k].status = IF k <= Len(results) THEN results[k].status ELSE "pending"
    <3>1. CASE k = p + 1
      <4>1. ~(k <= Len(results))
        BY <1>12, <1>15, <3>1
      <4> QED BY <1>10, <1>11, <1>12, <1>15, <3>1, <4>1
    <3>2. CASE k \in 1 .. p
      <4>1. k \in 1 .. Placed /\ n.tools[k] = it.tools[k]
        BY <1>9, <1>10, <1>11, <1>12, <1>13, <1>15, <3>2
      <4> QED BY <1>4, <1>7, <1>13, <4>1 DEF ShowsSoFar
    <3>3. k = p + 1 \/ k \in 1 .. p
      BY <1>10
    <3> QED BY <3>1, <3>2, <3>3
  <2>2. trace'[iteration'].tools = n.tools
    BY <1>3, <1>8
  <2> QED BY <1>3, <1>11, <1>14, <1>15, <2>1, <2>2 DEF ShowsSoFar
<1>17. SpansFit'
  <2>1. Len(trace') = iteration' /\ ~Awaited("iteration_started")'
    BY <1>3, <1>8 DEF Awaited
  <2>2. ASSUME NEW i \in 1 .. Len(trace'), i < iteration'
        PROVE  Shows(trace'[i].tools, history'[2 * i].results)
    <3>1. i \in 1 .. iteration - 1 /\ i \in 1 .. Len(trace) /\ i < iteration
      BY <1>3, <1>4, <1>8, <2>2
    <3>2. Shows(trace[i].tools, history[2 * i].results)
      BY <3>1 DEF TraceInv, SpansFit
    <3> QED BY <1>3, <1>8, <3>1, <3>2
  <2>3. ASSUME NEW d \in Call, task'[d].pc # "none"
        PROVE  HasPlace(d)'
    <3>1. task[d].pc # "none"
      BY <1>3, <2>3
    <3>2. HasPlace(d)
      BY <3>1 DEF TraceInv, SpansFit
    <3>3. PICK k \in 1 .. p : s[k].call = d
      BY <1>7, <1>9, <3>2 DEF HasPlace
    <3>4. k \in 1 .. Len(n.tools) /\ n.tools[k].call = d
      BY <1>10, <1>11, <3>3
    <3> QED BY <1>3, <1>8, <3>4 DEF HasPlace
  <2> QED BY <1>3, <1>4, <1>16, <2>1, <2>2, <2>3 DEF SpansFit
<1>18. OutFits'
  <2>1. event'.type = "tool_started" /\ wire'.tools[event'.call] # "none"
    BY <1>1, <1>3, <1>6
  <2>2. out' = <<Frame("TOOL_CALL_ARGS")'>>
    BY <1>2, <1>3 DEF Frame
  <2> QED BY <2>1, <2>2 DEF OutFits
<1>19. TurnsFit'
  BY <1>3, SameTurns DEF StreamInv, TraceInv
<1>20. EventFits'
  BY <1>3, <1>6 DEF TraceInv, EventFits
<1> QED BY <1>3, <1>17, <1>18, <1>19, <1>20 DEF TraceInv

\* TOOL_CALL_ARGS gives the span of the call its arguments.
LEMMA SendArgs ==
    ASSUME StreamInv, TraceInv, Send, layer = "sending", event.type = "tool_started",
           out = <<Frame("TOOL_CALL_ARGS")>>, wire.tools[event.call] # "none"
    PROVE  TraceInv'
<1>1. PICK f : f = Head(out)
  OBVIOUS
<1>2. f.type = "TOOL_CALL_ARGS" /\ ~(Len(out) > 1)
  BY <1>1 DEF Frame
<1>3. /\ f \in FrameSet /\ wire \in Wires /\ trace \in Seq(Iterations)
      /\ wire' = Seen(wire, f) /\ trace' = Merged(trace, f)
      /\ TreeFits(trace', wire')
      /\ UNCHANGED <<pc, iteration, history, announced, results, event, task>>
      /\ layer' = "upstream" /\ ~pulled /\ pulled'
  BY <1>1, <1>2, SendIs
<1>4. SameSpans(trace', trace)
  BY <1>2, <1>3, FramesKeepSpans
<1>5. OutFits'
  BY <1>3 DEF OutFits
<1>6. wire'.run = "finished" => event.type = "run_completed"
  BY <1>2, <1>3, SeenRun DEF TraceInv, EventFits
<1>7. Awaited("iteration_started")' <=> Awaited("iteration_started")
  BY <1>3 DEF Awaited
<1>8. Placed' = Placed /\ Told' = Told
  BY <1>3 DEF Awaited, Placed, Told
<1> QED BY <1>3, <1>4, <1>5, <1>6, <1>7, <1>8, SameSpansTree

\* TOOL_CALL_END and TOOL_CALL_RESULT leave the outcome untold.
LEMMA SendEnd ==
    ASSUME StreamInv, TraceInv, Send, layer = "sending", event.type = "tool_finished",
           out # <<Frame("chatagents.tool_result")>>
    PROVE  TraceInv'
<1>1. PICK f : f = Head(out)
  OBVIOUS
<1>2. /\ f.type \in {"TOOL_CALL_END", "TOOL_CALL_RESULT"} /\ Len(out) > 1
      /\ \/ Tail(out) = <<Frame("TOOL_CALL_RESULT"), Frame("chatagents.tool_result")>>
         \/ Tail(out) = <<Frame("chatagents.tool_result")>>
  <2>1. \/ out = <<Frame("TOOL_CALL_END"), Frame("TOOL_CALL_RESULT"),
                   Frame("chatagents.tool_result")>>
        \/ out = <<Frame("TOOL_CALL_RESULT"), Frame("chatagents.tool_result")>>
    BY DEF TraceInv, OutFits
  <2>2. CASE out = <<Frame("TOOL_CALL_END"), Frame("TOOL_CALL_RESULT"),
                     Frame("chatagents.tool_result")>>
    BY <1>1, <2>2 DEF Frame
  <2>3. CASE out = <<Frame("TOOL_CALL_RESULT"), Frame("chatagents.tool_result")>>
    BY <1>1, <2>3 DEF Frame
  <2> QED BY <2>1, <2>2, <2>3
<1>3. /\ f \in FrameSet /\ wire \in Wires /\ trace \in Seq(Iterations)
      /\ out' = Tail(out) /\ wire' = Seen(wire, f) /\ trace' = Merged(trace, f)
      /\ TreeFits(trace', wire')
      /\ UNCHANGED <<pc, iteration, history, announced, results, event, task>>
      /\ layer' = "sending" /\ ~pulled /\ ~pulled'
  BY <1>1, <1>2, SendIs
<1>4. f.type \in Other \cup {"TOOL_CALL_END"}
  BY <1>2 DEF Other, Frames
<1>5. SameSpans(trace', trace)
  BY <1>3, <1>4, FramesKeepSpans
<1>6. OutFits'
  <2>1. /\ Frame("TOOL_CALL_RESULT")' = Frame("TOOL_CALL_RESULT")
        /\ Frame("chatagents.tool_result")' = Frame("chatagents.tool_result")
    BY <1>3 DEF Frame
  <2>2. event'.type = "tool_finished"
    BY <1>3
  <2> QED BY <1>2, <1>3, <2>1, <2>2 DEF OutFits
<1>7. wire'.run = "finished" => event.type = "run_completed"
  BY <1>2, <1>3, SeenRun DEF TraceInv, EventFits
<1>8. Awaited("iteration_started")' <=> Awaited("iteration_started")
  BY <1>3 DEF Awaited
<1>9. Placed' = Placed /\ Told' = Told
  BY <1>3 DEF Awaited, Placed, Told
<1> QED BY <1>3, <1>5, <1>6, <1>7, <1>8, <1>9, SameSpansTree

\* chatagents.tool_result tells the outcome of the call in its place.
LEMMA SendOutcome ==
    ASSUME StreamInv, TraceInv, Send, layer = "sending", event.type = "tool_finished",
           out = <<Frame("chatagents.tool_result")>>
    PROVE  TraceInv'
<1>1. PICK f, c : f = Head(out) /\ c = event.call
  OBVIOUS
<1>2. /\ f.type = "chatagents.tool_result" /\ f.call = c /\ f.status = event.status
      /\ ~(Len(out) > 1)
  BY <1>1 DEF Frame
<1>3. /\ f \in FrameSet /\ wire \in Wires
      /\ wire' = Seen(wire, f) /\ trace' = Merged(trace, f)
      /\ TreeFits(trace', wire')
      /\ UNCHANGED <<pc, iteration, history, announced, results, event, task>>
      /\ layer' = "upstream" /\ ~pulled /\ pulled'
  BY <1>1, <1>2, SendIs
<1>4. /\ iteration \in Nat /\ iteration >= 1 /\ Len(trace) = iteration /\ trace # <<>>
      /\ trace \in Seq(Iterations) /\ trace[iteration] \in Iterations
      /\ ShowsSoFar(trace[iteration].tools, Placed, Told)
  BY LatestSpans
<1>5. PICK it, n : it = trace[iteration] /\ n = InIteration(it, f)
  OBVIOUS
<1>6. /\ Len(trace') = iteration /\ trace'[iteration] = n
      /\ \A i \in 1 .. iteration - 1 : trace'[i] = trace[i]
  <2>1. PICK t, u : t = trace /\ u = trace'
    OBVIOUS
  <2>2. /\ t \in Seq(Iterations) /\ t # <<>> /\ u = Merged(t, f) /\ Len(t) = iteration
        /\ n = InIteration(t[Len(t)], f) /\ f.type # "STEP_STARTED" /\ f.type # "TOOL_CALL_START"
    BY <1>2, <1>3, <1>4, <1>5, <2>1
  <2>3. Len(u) = Len(t) /\ u[Len(t)] = n /\ \A i \in 1 .. Len(t) - 1 : u[i] = t[i]
    BY <1>3, <2>2, MergedIs
  <2> QED BY <2>1, <2>2, <2>3
<1>7. /\ Len(n.tools) = Len(it.tools)
      /\ \A k \in 1 .. Len(it.tools) :
            /\ n.tools[k].call = it.tools[k].call
            /\ n.tools[k].status = IF it.tools[k].call = c THEN f.status ELSE it.tools[k].status
  BY <1>2, <1>3, <1>4, <1>5, FramedIteration
<1>8. PICK a, r : a = Len(announced) /\ r = Len(results)
  OBVIOUS
<1>9. a \in Nat /\ r \in Nat
  BY <1>8, RecordFits DEF StreamInv
<1>10. /\ r >= 1 /\ r <= a /\ results[r].call = c /\ results[r].status = f.status
       /\ announced[r] = c
  <2>1. results # <<>> /\ results \in Seq(Result) /\ results[r].call = c /\ results[r].status = f.status
    BY <1>1, <1>2, <1>8 DEF TraceInv, EventFits, StreamInv, LoopInv, TypeOK
  <2>2. r # 0
    BY <1>8, <2>1
  <2>3. r >= 1 /\ r \in 1 .. Len(results)
    BY <1>8, <1>9, <2>2
  <2> QED BY <1>8, <2>1, <2>3 DEF StreamInv, LoopInv, ReportsFit
<1>11. Placed = a /\ Told = r - 1
  BY <1>3, <1>8 DEF Placed, Told, Awaited
<1>12. Placed' = a /\ Told' = r
  BY <1>3, <1>8 DEF Placed, Told, Awaited
<1>13. \A k \in 1 .. a : announced[k] = c => k = r
  <2>1. IsInjective(announced) /\ DOMAIN announced = 1 .. a
    BY <1>8 DEF StreamInv, LoopInv, ReportsFit, TypeOK
  <2> QED BY <1>9, <1>10, <2>1 DEF IsInjective
<1>14. ShowsSoFar(trace[iteration].tools, Placed, Told)'
  <2>1. Len(it.tools) = a
    BY <1>4, <1>5, <1>11 DEF ShowsSoFar
  <2>2. ASSUME NEW k \in 1 .. a
        PROVE  /\ n.tools[k].call = announced[k]
               /\ n.tools[k].status = IF k <= r THEN results[k].status ELSE "pending"
    <3>1. /\ it.tools[k].call = announced[k]
          /\ it.tools[k].status = IF k <= r - 1 THEN results[k].status ELSE "pending"
      BY <1>4, <1>5, <1>11 DEF ShowsSoFar
    <3>2. CASE k = r
      BY <1>7, <1>9, <1>10, <2>1, <3>1, <3>2
    <3>3. CASE k # r
      <4>1. announced[k] # c /\ (k <= r <=> k <= r - 1)
        BY <1>9, <1>13, <3>3
      <4> QED BY <1>7, <2>1, <3>1, <4>1
    <3> QED BY <3>2, <3>3
  <2>3. trace'[iteration'].tools = n.tools
    BY <1>3, <1>6
  <2> QED BY <1>3, <1>7, <1>12, <2>1, <2>2, <2>3 DEF ShowsSoFar
<1>15. SpansFit'
  <2>1. Len(trace') = iteration' /\ ~Awaited("iteration_started")'
    BY <1>3, <1>6 DEF Awaited
  <2>2. ASSUME NEW i \in 1 .. Len(trace'), i < iteration'
        PROVE  Shows(trace'[i].tools, history'[2 * i].results)
    <3>1. i \in 1 .. iteration - 1 /\ i \in 1 .. Len(trace) /\ i < iteration
      BY <1>3, <1>4, <1>6, <2>2
    <3>2. Shows(trace[i].tools, history[2 * i].results)
      BY <3>1 DEF TraceInv, SpansFit
    <3> QED BY <1>3, <1>6, <3>1, <3>2
  <2>3. ASSUME NEW d \in Call, task'[d].pc # "none"
        PROVE  HasPlace(d)'
    <3>1. task[d].pc # "none"
      BY <1>3, <2>3
    <3>2. HasPlace(d)
      BY <3>1 DEF TraceInv, SpansFit
    <3>3. PICK k \in 1 .. Len(it.tools) : it.tools[k].call = d
      BY <1>5, <3>2 DEF HasPlace
    <3>4. k \in 1 .. Len(n.tools) /\ n.tools[k].call = d
      BY <1>7, <3>3
    <3> QED BY <1>3, <1>6, <3>4 DEF HasPlace
  <2> QED BY <1>3, <1>4, <1>14, <2>1, <2>2, <2>3 DEF SpansFit
<1>16. OutFits'
  BY <1>3 DEF OutFits
<1>17. TurnsFit'
  BY <1>3, SameTurns DEF StreamInv, TraceInv
<1>18. EventFits'
  <2>1. wire'.run # "finished"
    BY <1>2, <1>3, SeenRun DEF TraceInv, EventFits
  <2> QED BY <1>3, <2>1 DEF TraceInv, EventFits
<1> QED BY <1>3, <1>15, <1>16, <1>17, <1>18 DEF TraceInv

LEMMA SendTree == ASSUME StreamInv, TraceInv, Send PROVE TraceInv'
<1>1. layer \in {"sending", "closing"}
  BY DEF Send
<1>2. CASE layer = "closing" \/ event.type \notin {"iteration_started", "tool_started", "tool_finished"}
  BY <1>2, SendPlain
<1>3. CASE layer = "sending" /\ event.type = "iteration_started"
  BY <1>3, SendStart
<1>4. CASE layer = "sending" /\ event.type = "tool_started"
  <2>1. \/ /\ out = <<Frame("TOOL_CALL_START"), Frame("TOOL_CALL_ARGS")>>
           /\ wire.tools[event.call] = "none"
        \/ out = <<Frame("TOOL_CALL_ARGS")>> /\ wire.tools[event.call] # "none"
    BY <1>4 DEF TraceInv, OutFits
  <2> QED BY <1>4, <2>1, SendPlace, SendArgs
<1>5. CASE layer = "sending" /\ event.type = "tool_finished"
  BY <1>5, SendEnd, SendOutcome
<1> QED BY <1>1, <1>2, <1>3, <1>4, <1>5

LEMMA TraceStep == ASSUME StreamInv, TraceInv, [Next]_vars PROVE TraceInv'
<1>1. CASE (LoopStep \/ Delta \/ ModelEnds) /\ UNCHANGED streamVars
  <2>1. \/ Enter \/ Gathered \/ Exit
        \/ StartIteration \/ LookAtCalls \/ Announce \/ Execute \/ Collect \/ FinishCalls
        \/ Delta \/ ModelFails \/ GatherFails \/ ModelAnswers
    BY <1>1 DEF LoopStep, ModelEnds
  <2> QED BY <1>1, <2>1, GoOnTree, StartIterationTree, LookAtCallsTree, AnnounceTree, ExecuteTree,
             CollectTree, FinishCallsTree, PlainTree, ModelAnswersTree
<1>2. CASE (\E c \in Call : TaskStep(c)) /\ UNCHANGED streamVars
  BY <1>2, TaskTree
<1>3. CASE Encode
  BY <1>3, EncodeTree
<1>4. CASE Send
  BY <1>4, SendTree
<1>5. CASE PersistRaises
  <2>1. Drop /\ layer' = "closing" /\ UNCHANGED <<wire, trace>>
    BY <1>5 DEF PersistRaises, ReportError
  <2>2. /\ \A c \in Call : task'[c].pc # "none" => task[c].pc # "none"
        /\ pc' \in Ended
        /\ UNCHANGED <<iteration, history, announced, results, event, pulled>>
    BY <2>1, DropTasks DEF StreamInv
  <2> QED BY <2>1, <2>2, AsideTree
<1>6. CASE LoopRaises \/ StreamEnds
  <2>1. UNCHANGED runVars /\ UNCHANGED <<wire, trace>> /\ layer' \in {"closing", "over"}
    BY <1>6 DEF LoopRaises, StreamEnds, ReportError
  <2>2. /\ UNCHANGED <<iteration, history, announced, results, event, pulled, wire, trace>>
        /\ pc' = pc /\ task' = task
    BY <2>1 DEF runVars
  <2> QED BY <2>1, <2>2, AsideTree
<1>7. CASE Disconnect
  <2>1. layer' = "over" /\ UNCHANGED <<wire, trace>> /\ (UNCHANGED runVars \/ Drop)
    BY <1>7 DEF Disconnect
  <2>2. CASE UNCHANGED runVars
    <3>1. /\ UNCHANGED <<iteration, history, announced, results, event, pulled, wire, trace>>
          /\ pc' = pc /\ task' = task
      BY <2>1, <2>2 DEF runVars
    <3> QED BY <2>1, <3>1, AsideTree
  <2>3. CASE Drop
    <3>1. /\ \A c \in Call : task'[c].pc # "none" => task[c].pc # "none"
          /\ pc' \in Ended
          /\ UNCHANGED <<iteration, history, announced, results, event, pulled>>
      BY <2>3, DropTasks DEF StreamInv
    <3> QED BY <2>1, <3>1, AsideTree
  <2> QED BY <2>1, <2>2, <2>3
<1>8. CASE UNCHANGED vars
  <2>1. /\ UNCHANGED <<iteration, history, announced, results, event, pulled, wire, trace>>
        /\ pc' = pc /\ task' = task /\ layer' = layer /\ out' = out
    BY <1>8 DEF vars, runVars, streamVars
  <2> QED BY <2>1, AsideTree
<1> QED BY <1>1, <1>2, <1>3, <1>4, <1>5, <1>6, <1>7, <1>8 DEF Next, StreamStep

LEMMA TraceInit == ASSUME Init PROVE TraceInv
<1>1. /\ pc = "enter" /\ iteration = 0 /\ history = <<>> /\ announced = <<>> /\ results = <<>>
      /\ task = [c \in Call |-> NoTask] /\ event = None /\ pulled = FALSE
      /\ layer = "sending" /\ out = <<Frame("RUN_STARTED")>> /\ trace = <<>>
      /\ wire = [Wire!Opened EXCEPT !.run = "none"]
  BY DEF Init, RunInit, Wire!Init
<1>2. Len(<<>>) = 0 /\ None.type = "none"
  BY DEF None
<1>3. wire.run = "none" /\ ~wire.step /\ wire.reasoning = "none"
  BY <1>1 DEF Wire!Opened
<1>4. TreeFits(trace, wire)
  <2>1. trace \in Seq(Iterations) /\ Len(trace) = 0
    BY <1>1, <1>2
  <2>2. \A i \in 1 .. Len(trace) - 1 : FALSE
    BY <2>1
  <2> QED BY <1>1, <1>3, <2>1, <2>2 DEF TreeFits
<1>5. OutFits
  <2>1. \A k \in 1 .. Len(out) : out[k].type \in Other
    BY <1>1 DEF Frame, Other, Frames
  <2> QED BY <1>1, <1>2, <2>1 DEF OutFits
<1>6. TurnsFit
  <2>1. Len(history) = 0
    BY <1>1, <1>2
  <2>2. \A i \in 0 .. 0 : Cardinality({j \in 1 .. 2 * i : history[j].kind = "results"}) = i
    <3>1. {j \in 1 .. 0 : history[j].kind = "results"} = {}
      OBVIOUS
    <3>2. 2 * 0 = 0
      OBVIOUS
    <3>3. ASSUME NEW i \in 0 .. 0 PROVE i = 0
      OBVIOUS
    <3> QED BY <3>1, <3>2, <3>3, FS_EmptySet
  <2>3. Turns(history)
    BY <2>1, <2>2 DEF Turns
  <2> QED BY <1>1, <2>1, <2>3 DEF TurnsFit
<1>7. EventFits
  BY <1>1, <1>2, <1>3 DEF EventFits
<1>8. SpansFit
  <2>1. Len(trace) = 0 /\ ~Awaited("iteration_started")
    BY <1>1, <1>2 DEF Awaited
  <2>2. \A c \in Call : task[c].pc = "none"
    BY <1>1 DEF NoTask
  <2> QED BY <1>1, <2>1, <2>2 DEF SpansFit
<1> QED BY <1>4, <1>5, <1>6, <1>7, <1>8 DEF TraceInv

-----------------------------------------------------------------------------
(* What follows for the span tree *)

\* TraceInv holds in every state of the stream.
THEOREM TraceInvariant == Spec => []TraceInv
<1>1. Init => TraceInv
  BY TraceInit
<1>2. StreamInv /\ TraceInv /\ [Next]_vars => TraceInv'
  BY TraceStep
<1> QED BY <1>1, <1>2, StreamInvariant, PTL DEF Spec

\* The span tree in the browser has a place for every call before it runs, never
\* shows a result that the loop does not have, and shows every call of every
\* answer with its outcome once the run is reported as finished.
THEOREM TraceStaysFaithful == Spec => []TraceFaithful
<1>1. StreamInv /\ TraceInv => TraceFaithful
  BY TreeFaithful
<1> QED BY <1>1, StreamInvariant, TraceInvariant, PTL

=============================================================================
