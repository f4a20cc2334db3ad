---------------------------- MODULE ModelMessages ----------------------------
(***************************************************************************)
(* A conversation on its way through its three representations: messages   *)
(* of blocks in the agent loop, rows of app.message with the thoughts in a *)
(* payload of their own, and the request that goes to a vendor.  Runs      *)
(* follow one another, each on a protocol of its own choice; overlapping   *)
(* runs are ConversationRuns' matter.                                      *)
(*                                                                         *)
(* A text, a call's arguments, a result or a thought is the pair of its    *)
(* message and its place.  A masked result is still that result.           *)
(***************************************************************************)
EXTENDS Integers, Sequences, FiniteSets, SequencesExt

CONSTANTS
    Speech,       \* the protocols that runs may choose
    MaxQuestions, \* bound on the runs of a conversation
    MaxAnswers,   \* bound on its answers
    MaxSpoken     \* bound on the blocks of an answer

ASSUME SpeechAssumption ==
    Speech \subseteq {"anthropic_messages", "openai_responses", "openai_chat_completions"}
ASSUME SpokenAssumption == {MaxQuestions, MaxAnswers, MaxSpoken} \subseteq Nat

VARIABLES
    stored,    \* rows of app.message in seq order
    said,      \* the messages as they were said, with the run they belong to
    history,   \* AgentRunner's history
    talk,      \* the current run: its number, its protocol and where it is
    outgoing    \* the latest request to a vendor

talkVars == <<stored, said, history, talk, outgoing>>

-----------------------------------------------------------------------------
(* Blocks *)

TextBlock(text) == [class |-> "text", text |-> text]
ToolCallBlock(id, arguments) == [class |-> "call", id |-> id, arguments |-> arguments]
ToolResultBlock(id, content, isError) ==
    [class |-> "result", tool_call_id |-> id, content |-> content, is_error |-> isError]
OpaqueBlock(kind, data) == [class |-> "opaque", protocol |-> kind, data |-> data]

\* The elements of s at these places.
Kept(s, places) == FlattenSeq([j \in DOMAIN s |-> IF j \in places THEN <<s[j]>> ELSE <<>>])

OfClass(content, class) == Kept(content, {j \in DOMAIN content : content[j].class = class})
Visible(content) == Kept(content, {j \in DOMAIN content : content[j].class # "opaque"})

Message(role, content) == [role |-> role, content |-> content]

-----------------------------------------------------------------------------
(* Rows *)

EncodeBlock(b) ==
    CASE b.class = "text" -> [type |-> "text", text |-> b.text]
      [] b.class = "call" -> [type |-> "tool_call", id |-> b.id, arguments |-> b.arguments]
      [] b.class = "result" -> [type |-> "tool_result", tool_call_id |-> b.tool_call_id,
                                content |-> b.content, is_error |-> b.is_error]

\* Slip: the place of a thought is not recorded.
UnplacedEntry(b, before) == [protocol |-> b.protocol, data |-> b.data]

\* A thought records how many other blocks come before it, if any does.
PayloadEntry(b, before) ==
    IF before = 0 THEN [protocol |-> b.protocol, data |-> b.data]
    ELSE [protocol |-> b.protocol, data |-> b.data, content_index |-> before]

\* encode_content.
EncodeContent(blocks) ==
    LET visible == Visible(blocks)
        entry(j) == PayloadEntry(blocks[j], Len(Visible(SubSeq(blocks, 1, j - 1))))
    IN [content |-> [j \in DOMAIN visible |-> EncodeBlock(visible[j])],
        opaque |-> FlattenSeq([j \in DOMAIN blocks |->
                        IF blocks[j].class = "opaque" THEN <<entry(j)>> ELSE <<>>])]

NoPayload == [null |-> TRUE]

\* append_model_message.
ModelRow(message) ==
    LET encoded == EncodeContent(message.content)
        opaque == encoded.opaque
    IN [role |-> message.role, content |-> encoded.content, run |-> talk.run,
        payload |-> CASE Len(opaque) = 0 -> NoPayload
                      [] Len(opaque) = 1 -> opaque[1]
                      [] Len(opaque) > 1 -> [blocks |-> opaque]]

DecodeBlock(raw) ==
    CASE raw.type = "text" -> TextBlock(raw.text)
      [] raw.type = "tool_call" -> ToolCallBlock(raw.id, raw.arguments)
      [] raw.type = "tool_result" -> ToolResultBlock(raw.tool_call_id, raw.content, raw.is_error)

PayloadBlocks(payload) ==
    IF payload = NoPayload THEN <<>>
    ELSE IF "blocks" \in DOMAIN payload THEN payload.blocks ELSE <<payload>>

\* A thought stored without a place comes before everything.
Place(entry) == IF "content_index" \in DOMAIN entry THEN entry.content_index ELSE 0

\* The thoughts among the entries that have this place.
ThoughtsAt(entries, place) ==
    LET of == Kept(entries, {j \in DOMAIN entries : Place(entries[j]) = place})
    IN [j \in DOMAIN of |-> OpaqueBlock(of[j].protocol, of[j].data)]

\* decode_message: thoughts without a place come first, the others before the
\* block whose number they name, or last.
DecodeMessage(row, include) ==
    LET entries == IF include THEN PayloadBlocks(row.payload) ELSE <<>>
    IN Message(row.role,
               FlattenSeq([j \in DOMAIN row.content |->
                    ThoughtsAt(entries, j - 1) \o <<DecodeBlock(row.content[j])>>])
               \o ThoughtsAt(entries, Len(row.content)))

Orphan == <<0, 0>>

\* _repair_tool_results: of two results of a call the later counts.
RepairToolResults(calls, existing) ==
    LET known == {calls[j].id : j \in DOMAIN calls}
        of(id) == {i \in DOMAIN existing : existing[i].tool_call_id = id}
    IN [j \in DOMAIN calls |->
            IF of(calls[j].id) = {} THEN ToolResultBlock(calls[j].id, Orphan, TRUE)
            ELSE existing[Max(of(calls[j].id))]]
       \o Kept(existing, {i \in DOMAIN existing : existing[i].tool_call_id \notin known})

\* Slip: what is still stored of the thoughts goes to the model.
EveryPayload(row) == TRUE

\* create_run passes no round_trip_from_seq.
IncludeRoundTrip(row) == FALSE

\* The loop of _project_messages_unmasked at row k; consumed tells that the
\* row was taken together with the one before it.
ProjectNext(rows, acc, k) ==
    LET current == DecodeMessage(rows[k], IncludeRoundTrip(rows[k]))
        calls == OfClass(current.content, "call")
        paired == k < Len(rows) /\ rows[k + 1].role = "tool"
        existing == IF paired THEN OfClass(DecodeMessage(rows[k + 1], TRUE).content, "result")
                    ELSE <<>>
    IN IF acc.consumed THEN [out |-> acc.out, consumed |-> FALSE]
       ELSE IF rows[k].role = "tool"
               /\ (acc.out = <<>> \/ OfClass(Last(acc.out).content, "call") = <<>>) THEN acc
       ELSE IF calls = <<>> THEN [out |-> Append(acc.out, current), consumed |-> FALSE]
       ELSE [out |-> acc.out \o <<current, Message("tool", RepairToolResults(calls, existing))>>,
             consumed |-> paired]

ProjectStored(rows) ==
    LET loop[k \in 0 .. Len(rows)] ==
            IF k = 0 THEN [out |-> <<>>, consumed |-> FALSE]
            ELSE ProjectNext(rows, loop[k - 1], k)
    IN loop[Len(rows)].out

-----------------------------------------------------------------------------
(* Requests *)

AnthropicBlock(b) ==
    CASE b.class = "text" -> [type |-> "text", text |-> b.text]
      [] b.class = "call" -> [type |-> "tool_use", id |-> b.id, input |-> b.arguments]
      [] b.class = "result" -> [type |-> "tool_result", tool_use_id |-> b.tool_call_id,
                                content |-> b.content, is_error |-> b.is_error]
      [] b.class = "opaque" -> b.data

AnthropicMessages(messages) ==
    [k \in DOMAIN messages |->
        [role |-> IF messages[k].role = "assistant" THEN "assistant" ELSE "user",
         content |-> [j \in DOMAIN messages[k].content |-> AnthropicBlock(messages[k].content[j])]]]

ResponsesItem(role, b) ==
    CASE b.class = "text" -> [type |-> IF role = "assistant" THEN "output_text" ELSE "input_text",
                              role |-> role, text |-> b.text]
      [] b.class = "call" -> [type |-> "function_call", call_id |-> b.id, arguments |-> b.arguments]
      [] b.class = "result" -> [type |-> "function_call_output", call_id |-> b.tool_call_id,
                                output |-> b.content]
      [] b.class = "opaque" -> b.data

ResponsesInput(messages) ==
    FlattenSeq([k \in DOMAIN messages |->
        [j \in DOMAIN messages[k].content |->
            ResponsesItem(messages[k].role, messages[k].content[j])]])

\* One message for each result; otherwise all text as one string, then calls.
ChatMessages(messages) ==
    FlattenSeq([k \in DOMAIN messages |->
        LET m == messages[k]
            results == OfClass(m.content, "result")
            texts == OfClass(m.content, "text")
            calls == OfClass(m.content, "call")
        IN IF m.role = "tool"
           THEN [j \in DOMAIN results |-> [role |-> "tool", tool_call_id |-> results[j].tool_call_id,
                                           content |-> results[j].content]]
           ELSE <<[role |-> m.role, content |-> [j \in DOMAIN texts |-> texts[j].text],
                   tool_calls |-> [j \in DOMAIN calls |->
                        [id |-> calls[j].id, arguments |-> calls[j].arguments]]]>>])

\* build_request of each adapter.
BuildRequest(kind, messages) ==
    CASE kind = "anthropic_messages" -> AnthropicMessages(messages)
      [] kind = "openai_responses" -> ResponsesInput(messages)
      [] kind = "openai_chat_completions" -> ChatMessages(messages)

-----------------------------------------------------------------------------
(* The conversation *)

Stamp(j) == <<Len(said) + 1, j>>

Utter(message) ==
    /\ stored' = Append(stored, ModelRow(message))
    /\ said' = Append(said, [role |-> message.role, content |-> message.content, run |-> talk.run])
    /\ history' = Append(history, message)

Phase(phase) == talk' = [talk EXCEPT !.phase = phase]

\* create_run: the question is appended, then the input is rebuilt.
AskQuestion(kind) ==
    LET question == Message("user", <<TextBlock(Stamp(1))>>)
        run == talk.run + 1
        row == [ModelRow(question) EXCEPT !.run = run]
    IN /\ talk.phase = "over" /\ talk.run < MaxQuestions
       /\ talk' = [run |-> run, protocol |-> kind, phase |-> "call"]
       /\ stored' = Append(stored, row)
       /\ said' = Append(said, [role |-> "user", content |-> question.content, run |-> run])
       /\ history' = ProjectStored(stored')
       /\ outgoing' = <<>>

CallVendor ==
    /\ talk.phase = "call"
    /\ outgoing' = BuildRequest(talk.protocol, history)
    /\ Phase("answer")
    /\ UNCHANGED <<stored, said, history>>

SpokenKinds == {"text", "call", "opaque"}

\* Chat Completions has no thoughts and one text, before the calls.
Speakable(kinds) ==
    talk.protocol = "openai_chat_completions" =>
        \A j \in DOMAIN kinds : kinds[j] = "call" \/ (kinds[j] = "text" /\ j = 1)

\* Calls are numbered within an answer, so later answers use ids again.
SpokenBlock(kind, j) ==
    CASE kind = "text" -> TextBlock(Stamp(j))
      [] kind = "call" -> ToolCallBlock(j, Stamp(j))
      [] kind = "opaque" -> OpaqueBlock(talk.protocol, [type |-> "reasoning", body |-> Stamp(j)])

Spoken(kinds) == [j \in DOMAIN kinds |-> SpokenBlock(kinds[j], j)]

Answered == Cardinality({k \in DOMAIN said : said[k].role = "assistant"})

\* The answer enters the history and its row, and its calls are looked at.
ModelSpeaks ==
    /\ talk.phase = "answer" /\ Answered < MaxAnswers
    /\ \E kinds \in UNION {[1 .. n -> SpokenKinds] : n \in 0 .. MaxSpoken} :
        /\ Speakable(kinds)
        /\ Utter(Message("assistant", Spoken(kinds)))
        /\ Phase(IF \E j \in DOMAIN kinds : kinds[j] = "call" THEN "tools" ELSE "end")
    /\ outgoing' = <<>>

\* The calls of an answer return, one result each in their order.
ToolsAnswer ==
    /\ talk.phase = "tools"
    /\ LET calls == OfClass(Last(said).content, "call")
       IN Utter(Message("tool", [j \in DOMAIN calls |->
                    ToolResultBlock(calls[j].id, Stamp(j), FALSE)]))
    /\ Phase("call")
    /\ UNCHANGED outgoing

\* The run fails, reaches its cap or is left by the client.
RunBreaks ==
    /\ talk.phase \in {"call", "answer", "tools"}
    /\ Phase("end")
    /\ outgoing' = <<>>
    /\ UNCHANGED <<stored, said, history>>

\* round_trip_payload_scope clears the thoughts of the run, unless it fails.
RunCloses ==
    /\ talk.phase = "end"
    /\ \E cleared \in BOOLEAN :
        stored' = [k \in DOMAIN stored |->
                    IF cleared /\ stored[k].run = talk.run THEN [stored[k] EXCEPT !.payload = NoPayload]
                    ELSE stored[k]]
    /\ history' = <<>>
    /\ Phase("over")
    /\ UNCHANGED <<said, outgoing>>

TalkInit ==
    /\ stored = <<>> /\ said = <<>> /\ history = <<>> /\ outgoing = <<>>
    /\ talk = [run |-> 0, protocol |-> "none", phase |-> "over"]

TalkNext ==
    \/ \E kind \in Speech : AskQuestion(kind)
    \/ CallVendor \/ ModelSpeaks \/ ToolsAnswer \/ RunBreaks \/ RunCloses

TalkSpec == TalkInit /\ [][TalkNext]_talkVars

-----------------------------------------------------------------------------
(* Properties *)

Heed(what, of, body) == [what |-> what, of |-> of, body |-> body]

\* What a block says, and what a part of a request says.
Meaning(role, b) ==
    CASE b.class = "text" -> Heed("text", role, b.text)
      [] b.class = "call" -> Heed("call", b.id, b.arguments)
      [] b.class = "result" -> Heed("result", b.tool_call_id, b.content)
      [] b.class = "opaque" -> Heed("thought", b.protocol, b.data.body)

PartMeaning(role, part) ==
    CASE part.type = "text" -> Heed("text", role, part.text)
      [] part.type = "input_text" -> Heed("text", "user", part.text)
      [] part.type = "output_text" -> Heed("text", "assistant", part.text)
      [] part.type = "tool_use" -> Heed("call", part.id, part.input)
      [] part.type = "function_call" -> Heed("call", part.call_id, part.arguments)
      [] part.type = "tool_result" -> Heed("result", part.tool_use_id, part.content)
      [] part.type = "function_call_output" -> Heed("result", part.call_id, part.output)
      [] part.type = "reasoning" -> Heed("thought", talk.protocol, part.body)

ReadAll(role, parts) == [j \in DOMAIN parts |-> PartMeaning(role, parts[j])]

ReadChat(m) ==
    IF m.role = "tool" THEN <<Heed("result", m.tool_call_id, m.content)>>
    ELSE [j \in DOMAIN m.content |-> Heed("text", m.role, m.content[j])]
         \o [j \in DOMAIN m.tool_calls |-> Heed("call", m.tool_calls[j].id, m.tool_calls[j].arguments)]

HeardByVendor ==
    CASE talk.protocol = "anthropic_messages" ->
            FlattenSeq([k \in DOMAIN outgoing |-> ReadAll(outgoing[k].role, outgoing[k].content)])
      [] talk.protocol = "openai_responses" -> ReadAll("any", outgoing)
      [] talk.protocol = "openai_chat_completions" ->
            FlattenSeq([k \in DOMAIN outgoing |-> ReadChat(outgoing[k])])

\* What the vendor should hear of message k: everything but the thoughts of
\* earlier runs, and an answer of its own making for a call that has none.
ToHear(k) ==
    LET m == said[k]
        content == IF talk.protocol = "openai_chat_completions"
                   THEN OfClass(m.content, "text") \o OfClass(m.content, "call")
                            \o OfClass(m.content, "result")
                   ELSE IF m.run # talk.run THEN Visible(m.content) ELSE m.content
        calls == OfClass(m.content, "call")
        lost == IF k < Len(said) /\ said[k + 1].role = "tool" THEN <<>>
                ELSE [j \in DOMAIN calls |-> Heed("result", calls[j].id, Orphan)]
    IN [j \in DOMAIN content |-> Meaning(m.role, content[j])] \o lost

\* Whatever earlier runs left, in whatever protocol, a request says all that
\* was said, in its order and with every call answered; thoughts go back in
\* their places to the run that had them and never to another run, whose
\* vendor could not read them, even if they were not cleared.
RequestFaithful ==
    talk.phase = "answer" =>
        HeardByVendor = FlattenSeq([k \in DOMAIN said |-> ToHear(k)])

\* A row gives its message back block for block as long as its payload is
\* kept, and the message without its thoughts at any time (encode_content,
\* decode_message).
RowsKeepMessages ==
    \A k \in DOMAIN stored :
        /\ DecodeMessage(stored[k], FALSE) = Message(said[k].role, Visible(said[k].content))
        /\ stored[k].payload # NoPayload =>
                DecodeMessage(stored[k], TRUE) = Message(said[k].role, said[k].content)
        /\ stored[k].run = talk.run /\ talk.phase # "over" =>
                DecodeMessage(stored[k], TRUE) = Message(said[k].role, said[k].content)

=============================================================================
