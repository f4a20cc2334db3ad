--------------------------- MODULE ModelAdapters ----------------------------
(***************************************************************************)
(* The three protocol adapters behind ModelPort.stream: what a vendor      *)
(* streams, the accumulator each adapter keeps, and the events it yields,  *)
(* one at a time.  The vendor keeps to its protocol but may stop short or  *)
(* break off anywhere; the consumer may cancel anywhere.                   *)
(*                                                                         *)
(* A text, a thought or a JSON document of arguments arrives in parts, and *)
(* a part is the pair of its block and its number.                         *)
(***************************************************************************)
EXTENDS Integers, Sequences, FiniteSets, SequencesExt

CONSTANTS
    Adapters,
    MaxBlocks,    \* bound on the blocks of one answer
    Whole         \* parts of a text, a thought or a document

ASSUME ProtocolAssumption ==
    Adapters \subseteq {"anthropic_messages", "openai_responses", "openai_chat_completions"}
ASSUME BlocksAssumption == MaxBlocks \in Nat \ {0} /\ Whole \in Nat \ {0}

VARIABLES
    protocol,
    vendor,   \* what the vendor has sent of this answer
    acc,      \* the adapter's _Accumulator
    out,      \* events of the latest chunk that are not yielded yet
    events,   \* the events yielded in this call
    pc        \* where the generator is

adapterVars == <<protocol, vendor, acc, out, events, pc>>

Blocks == 1 .. MaxBlocks
Kinds == {"text", "reasoning", "tool"}

Anthropic == protocol = "anthropic_messages"
Responses == protocol = "openai_responses"
Chat == protocol = "openai_chat_completions"

\* The Responses protocol names a call by its item while it streams.
CallId(k) == <<"call", k>>
ItemId(k) == <<"item", k>>
NoId == <<"", 0>>

Delta(type, id, part) == [type |-> type, id |-> id, part |-> part]
Said(type, k, n) == Delta(type, NoId, <<k, n>>)
NoPart == <<0, 0>>

-----------------------------------------------------------------------------
(* The vendor *)

NoBlock == [kind |-> "text", parts |-> 0, closed |-> TRUE]

Current == Len(vendor.blocks)
Latest == IF Current = 0 THEN NoBlock ELSE vendor.blocks[Current]

Raw == [type : {"start", "open", "delta", "close", "finish", "usage"},
        kind : Kinds \cup {""}, n : 0 .. Whole]

DocumentWhole == Latest.kind = "tool" => Latest.parts \in {0, Whole}

\* A block may begin, or the answer end.
Ready == /\ Anthropic => vendor.started
         /\ ~vendor.finished
         /\ DocumentWhole
         /\ Chat \/ Latest.closed

\* What the vendor may send next.  Chat Completions neither streams thoughts
\* nor closes a block; a thought of anthropic may begin with a part of it.
Legal(raw) ==
    CASE raw.type = "start" -> Anthropic /\ ~vendor.started /\ raw.kind = "" /\ raw.n = 0
      [] raw.type = "open" -> /\ Ready /\ Current < MaxBlocks /\ raw.kind # ""
                              /\ raw.n = 0 \/ (raw.n = 1 /\ Anthropic /\ raw.kind = "reasoning")
                              /\ Chat => raw.kind # "reasoning"
      [] raw.type = "delta" -> /\ ~vendor.finished /\ ~Latest.closed
                               /\ raw.kind = Latest.kind /\ raw.n = Latest.parts + 1
      [] raw.type = "close" -> /\ ~Chat /\ ~Latest.closed /\ DocumentWhole
                               /\ raw.kind = Latest.kind /\ raw.n = 0
      [] raw.type = "finish" -> Ready /\ raw.kind = "" /\ raw.n = 0
      [] raw.type = "usage" -> /\ Chat /\ vendor.finished /\ ~vendor.usage
                               /\ raw.kind = "" /\ raw.n = 0

Sent(raw) ==
    CASE raw.type = "start" -> [vendor EXCEPT !.started = TRUE]
      [] raw.type = "open" ->
            [vendor EXCEPT !.blocks = Append(@,
                [kind |-> raw.kind, parts |-> raw.n, closed |-> FALSE])]
      [] raw.type = "delta" -> [vendor EXCEPT !.blocks[Current].parts = raw.n]
      [] raw.type = "close" -> [vendor EXCEPT !.blocks[Current].closed = TRUE]
      [] raw.type = "finish" -> [vendor EXCEPT !.finished = TRUE, !.usage = ~Chat]
      [] raw.type = "usage" -> [vendor EXCEPT !.usage = TRUE]

-----------------------------------------------------------------------------
(* The accumulators *)

\* blocks: anthropic's blocks and chat's tool calls by index, with chat's
\* text at 0; items: the calls a Responses stream has announced; final: the
\* output in response.completed.
NewAcc == [input |-> FALSE, output |-> FALSE, stop |-> FALSE, blocks |-> <<>>,
           started |-> {}, items |-> {}, final |-> <<>>]

NewBlock(kind) == [kind |-> kind, id |-> NoId, parts |-> <<>>]

Has(k) == k \in DOMAIN acc.blocks

Put(k, block) ==
    [acc EXCEPT !.blocks = [j \in DOMAIN @ \cup {k} |-> IF j = k THEN block ELSE @[j]]]

Grown(k, n) == Put(k, [acc.blocks[k] EXCEPT !.parts = Append(@, <<Current, n>>)])

Quiet(a) == [acc |-> a, out |-> <<>>]

OnBlockStart(raw) ==
    LET k == Current + 1
        block == [NewBlock(raw.kind) EXCEPT
                    !.id = IF raw.kind = "tool" THEN CallId(k) ELSE NoId,
                    !.parts = IF raw.n = 1 THEN <<<<k, 1>>>> ELSE <<>>]
    IN [acc |-> Put(k, block),
        out |-> IF raw.kind = "tool"
                THEN <<Delta("tool_call_started", CallId(k), NoPart)>> ELSE <<>>]

\* The last part of a thought is its signature: it is kept and not shown.
OnBlockDelta(raw) ==
    LET k == Current
    IN [acc |-> Grown(k, raw.n),
        out |-> CASE raw.kind = "text" -> <<Said("text_delta", k, raw.n)>>
                  [] raw.kind = "tool" ->
                        <<Delta("tool_call_args_delta", acc.blocks[k].id, <<k, raw.n>>)>>
                  [] raw.kind = "reasoning" ->
                        IF raw.n < Whole THEN <<Said("reasoning_delta", k, raw.n)>> ELSE <<>>]

\* Slip: every block completes a tool call.
OnAnyBlockStop(raw) ==
    [acc |-> acc, out |-> <<Delta("tool_call_completed", acc.blocks[Current].id, NoPart)>>]

OnBlockStop(raw) ==
    [acc |-> acc,
     out |-> IF raw.kind = "tool"
             THEN <<Delta("tool_call_completed", acc.blocks[Current].id, NoPart)>> ELSE <<>>]

HandleAnthropic(raw) ==
    CASE raw.type = "start" -> Quiet([acc EXCEPT !.input = TRUE])
      [] raw.type = "open" -> OnBlockStart(raw)
      [] raw.type = "delta" -> OnBlockDelta(raw)
      [] raw.type = "close" -> OnBlockStop(raw)
      [] raw.type = "finish" -> Quiet([acc EXCEPT !.stop = TRUE, !.output = TRUE])

\* The call's id, as far as the item was announced.
IdOfItem(k) == IF k \in acc.items THEN CallId(k) ELSE ItemId(k)

HandleResponses(raw) ==
    CASE raw.type = "open" /\ raw.kind = "tool" ->
            [acc |-> [acc EXCEPT !.items = @ \cup {Current + 1}],
             out |-> <<Delta("tool_call_started", CallId(Current + 1), NoPart)>>]
      [] raw.type = "delta" ->
            [acc |-> acc,
             out |-> CASE raw.kind = "text" -> <<Said("text_delta", Current, raw.n)>>
                       [] raw.kind = "reasoning" -> <<Said("reasoning_delta", Current, raw.n)>>
                       [] raw.kind = "tool" ->
                             <<Delta("tool_call_args_delta", IdOfItem(Current), <<Current, raw.n>>)>>]
      [] raw.type = "close" /\ raw.kind = "tool" ->
            [acc |-> acc, out |-> <<Delta("tool_call_completed", CallId(Current), NoPart)>>]
      [] raw.type = "finish" ->
            Quiet([acc EXCEPT !.stop = TRUE, !.input = TRUE, !.output = TRUE,
                              !.final = vendor.blocks])
      [] OTHER -> Quiet(acc)

\* The delta of a tool call: its id and name, or a part of its arguments.
OnToolCallDelta(raw) ==
    LET k == IF raw.type = "open" THEN Current + 1 ELSE Current
        state == IF raw.type = "open" THEN [NewBlock("tool") EXCEPT !.id = CallId(k)]
                 ELSE [acc.blocks[k] EXCEPT !.parts = Append(@, <<k, raw.n>>)]
    IN [acc |-> [Put(k, state) EXCEPT !.started = @ \cup {k}],
        out |-> (IF k \in acc.started THEN <<>>
                 ELSE <<Delta("tool_call_started", state.id, NoPart)>>)
                \o (IF raw.type = "delta"
                    THEN <<Delta("tool_call_args_delta", state.id, <<k, raw.n>>)>> ELSE <<>>)]

HandleChat(raw) ==
    CASE raw.kind = "tool" -> OnToolCallDelta(raw)
      [] raw.type = "delta" /\ raw.kind # "tool" ->
            [acc |-> IF Has(0) THEN Grown(0, raw.n)
                     ELSE Put(0, [NewBlock("text") EXCEPT !.parts = <<<<Current, raw.n>>>>]),
             out |-> <<Said("text_delta", Current, raw.n)>>]
      [] raw.type = "finish" -> Quiet([acc EXCEPT !.stop = TRUE])
      [] raw.type = "usage" -> Quiet([acc EXCEPT !.input = TRUE, !.output = TRUE])
      [] OTHER -> Quiet(acc)

Handle(raw) ==
    CASE Anthropic -> HandleAnthropic(raw)
      [] Responses -> HandleResponses(raw)
      [] Chat -> HandleChat(raw)

-----------------------------------------------------------------------------
(* What closes a model call *)

\* json.loads: no text at all stands for no arguments, half a document fails.
Parses(parts) == Len(parts) \in {0, Whole}

MessageBlock(kind, id, parts) == [kind |-> kind, id |-> id, parts |-> parts]

PartsOf(k, n) == [j \in 1 .. n |-> <<k, j>>]

\* The numbers of a set, the lowest first.
Ascending(indices) ==
    CHOOSE order \in [1 .. Cardinality(indices) -> indices] :
        \A i, j \in 1 .. Cardinality(indices) : i < j => order[i] < order[j]

InOrder(indices) ==
    LET order == Ascending(indices)
    IN [j \in DOMAIN order |->
            LET b == acc.blocks[order[j]] IN MessageBlock(b.kind, b.id, b.parts)]

AnthropicMessage == InOrder(DOMAIN acc.blocks)

\* Nothing before response.completed.
ResponsesMessage ==
    [k \in DOMAIN acc.final |->
        LET b == acc.final[k]
        IN MessageBlock(b.kind, IF b.kind = "tool" THEN CallId(k) ELSE NoId, PartsOf(k, b.parts))]

\* All text first, then the calls.
ChatMessage ==
    (IF Has(0) THEN <<MessageBlock("text", NoId, acc.blocks[0].parts)>> ELSE <<>>)
    \o InOrder(DOMAIN acc.blocks \ {0})

FinalMessage ==
    CASE Anthropic -> AnthropicMessage
      [] Responses -> ResponsesMessage
      [] Chat -> ChatMessage

Assembles == \A j \in DOMAIN FinalMessage :
                FinalMessage[j].kind = "tool" => Parses(FinalMessage[j].parts)

NoUsage == [state |-> "unavailable", input |-> FALSE, output |-> FALSE]
FullUsage == [state |-> "complete", input |-> TRUE, output |-> TRUE]

\* Slip: one of the two numbers is enough.
PartIsComplete ==
    IF acc.input \/ acc.output THEN [FullUsage EXCEPT !.input = acc.input, !.output = acc.output]
    ELSE NoUsage

AnthropicUsage ==
    [state |-> IF acc.input /\ acc.output THEN "complete"
               ELSE IF acc.input \/ acc.output THEN "partial" ELSE "unavailable",
     input |-> acc.input, output |-> acc.output]

ResponsesUsage == IF acc.input THEN FullUsage ELSE NoUsage

ChatUsage(interrupted) == IF interrupted \/ ~acc.input THEN NoUsage ELSE FullUsage

Usage(interrupted) ==
    CASE Anthropic -> AnthropicUsage
      [] Responses -> ResponsesUsage
      [] Chat -> ChatUsage(interrupted)

Terminal(interrupted) ==
    [type |-> "model_call_completed", id |-> NoId, part |-> NoPart,
     message |-> FinalMessage, usage |-> Usage(interrupted),
     stop |-> IF interrupted THEN "interrupted" ELSE IF acc.stop THEN "vendor" ELSE "unknown"]

CompletedAtEnd ==
    IF Chat THEN LET order == Ascending({k \in DOMAIN acc.blocks : acc.blocks[k].id # NoId})
                 IN [j \in DOMAIN order |->
                        Delta("tool_call_completed", acc.blocks[order[j]].id, NoPart)]
    ELSE <<>>

-----------------------------------------------------------------------------
(* The generator *)

\* create() answers or raises.
Create ==
    /\ pc = "create"
    /\ pc' \in {"reading", "raised"}
    /\ UNCHANGED <<protocol, vendor, acc, out, events>>

Receive ==
    /\ pc = "reading" /\ out = <<>>
    /\ \E raw \in {r \in Raw : Legal(r)} :
        LET handled == Handle(raw)
        IN /\ vendor' = Sent(raw)
           /\ acc' = handled.acc
           /\ out' = handled.out
    /\ UNCHANGED <<protocol, events, pc>>

YieldEvent ==
    /\ out # <<>>
    /\ pc \in {"reading", "returning", "told", "reraising"}
    /\ events' = Append(events, Head(out))
    /\ out' = Tail(out)
    /\ UNCHANGED <<protocol, vendor, acc, pc>>

\* The stream is over, with or without the vendor's last word.
StreamEnds ==
    /\ pc = "reading" /\ out = <<>>
    /\ pc' = "returning"
    /\ out' = CompletedAtEnd
    /\ UNCHANGED <<protocol, vendor, acc, events>>

StreamBreaks ==
    /\ pc = "reading" /\ out = <<>>
    /\ pc' = "broken"
    /\ UNCHANGED <<protocol, vendor, acc, out, events>>

Conclude ==
    /\ pc \in {"returning", "broken"} /\ out = <<>>
    /\ IF Assembles
       THEN /\ out' = <<Terminal(pc = "broken")>>
            /\ pc' = IF pc = "broken" THEN "reraising" ELSE "told"
       ELSE /\ pc' = "raised"
            /\ UNCHANGED out
    /\ UNCHANGED <<protocol, vendor, acc, events>>

Return ==
    /\ pc = "told" /\ out = <<>>
    /\ pc' = "returned"
    /\ UNCHANGED <<protocol, vendor, acc, out, events>>

\* The upstream error goes on once the terminal event is taken.
Reraise ==
    /\ pc = "reraising" /\ out = <<>>
    /\ pc' = "raised"
    /\ UNCHANGED <<protocol, vendor, acc, out, events>>

\* CancelledError and GeneratorExit are no Exception: nothing is yielded.
Cancel ==
    /\ pc \in {"create", "reading", "returning", "told", "reraising"}
    /\ pc' = "cancelled"
    /\ UNCHANGED <<protocol, vendor, acc, out, events>>

NewVendor == [started |-> FALSE, blocks |-> <<>>, finished |-> FALSE, usage |-> FALSE]

\* The agent loop asks again: a new accumulator for a new answer.
Again ==
    /\ pc = "returned"
    /\ pc' = "create"
    /\ vendor' = NewVendor /\ acc' = NewAcc
    /\ out' = <<>> /\ events' = <<>>
    /\ UNCHANGED protocol

AdapterInit ==
    /\ protocol \in Adapters
    /\ vendor = NewVendor /\ acc = NewAcc
    /\ out = <<>> /\ events = <<>>
    /\ pc = "create"

Step == Create \/ Receive \/ YieldEvent \/ StreamEnds \/ StreamBreaks \/ Conclude

-----------------------------------------------------------------------------
(* Properties *)

Named(type) == {e.id : e \in {x \in Range(events) : x.type = type}}

NoEvent == [type |-> "none", id |-> NoId]

\* What callers see of a model call, as ModelStream speaks of it: a tool call
\* is announced before its arguments, completes once, and the terminal event
\* is the last of all and there on every normal return.
Port == INSTANCE ModelStream WITH
            Call <- {CallId(k) : k \in Blocks}, NoCall <- NoId, Nothing <- NoEvent,
            event <- IF events = <<>> THEN NoEvent 
                     ELSE [type |-> Last(events).type, id |-> Last(events).id],
            announced <- Named("tool_call_started"),
            completed <- Named("tool_call_completed"),
            outcome <- CASE pc \in {"raised", "cancelled"} -> "raised"
                         [] pc = "returned" -> "returned"
                         [] OTHER -> IF Named("model_call_completed") = {} THEN "open"
                                     ELSE "told"

ModelStreamSpec == Port!Spec

\* Parts as they come one after another, in groups.
Shown(type) == [j \in DOMAIN events |->
                   IF events[j].type = type THEN <<events[j].part>> ELSE <<>>]

Contained(message, kind) == [j \in DOMAIN message |->
                                IF message[j].kind = kind THEN message[j].parts ELSE <<>>]

Earlier(p, q) == p[1] < q[1] \/ (p[1] = q[1] /\ p[2] < q[2])

InTurn(groups) ==
    \A i, j \in DOMAIN groups : \A x \in DOMAIN groups[i], y \in DOMAIN groups[j] :
        i < j \/ (i = j /\ x < y) => Earlier(groups[i][x], groups[j][y])

PartsAmong(groups) == UNION {Range(groups[j]) : j \in DOMAIN groups}

\* The same parts, each once and in the order the vendor sent them.
OneText(groups, others) ==
    InTurn(groups) /\ InTurn(others) /\ PartsAmong(groups) = PartsAmong(others)

\* The terminal event holds the local truth: the text and the arguments of
\* its message are those the consumer has seen, part for part, each under the
\* id it was announced with (a Responses message is complete or empty), and
\* the usage is complete exactly if both numbers have arrived.
LocalTruth ==
    \A e \in Range(events) : e.type = "model_call_completed" =>
        /\ \/ /\ OneText(Contained(e.message, "text"), Shown("text_delta"))
              /\ OneText(Contained(e.message, "tool"), Shown("tool_call_args_delta"))
              /\ {b.id : b \in {x \in Range(e.message) : x.kind = "tool"}}
                     = Named("tool_call_started")
           \/ Responses /\ ~vendor.finished /\ e.message = <<>>
        /\ e.usage.input => vendor.started \/ vendor.usage
        /\ e.usage.output => vendor.usage
        /\ e.usage.state = "complete" <=> e.usage.input /\ e.usage.output
        /\ e.stop = "interrupted" => pc \notin {"told", "returned"}

\* "中断时先把已知的用量三态收尾事件 yield 出去，再重新抛出异常": a call that
\* breaks off while the vendor streams is closed by its terminal event before
\* the error goes on.
BrokenCallsAreClosed ==
    [][pc = "broken" => pc' # "raised"]_adapterVars

=============================================================================
