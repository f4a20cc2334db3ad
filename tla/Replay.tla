------------------------------- MODULE Replay -------------------------------
(***************************************************************************)
(* RecordingModelPort around an adapter, and ReplayModelPort over what it  *)
(* saved.  The requests of a run are told apart by their turn: each one    *)
(* holds the conversation so far.                                          *)
(***************************************************************************)
EXTENDS ModelAdapters

CONSTANTS
    MaxTurns,    \* bound on the model calls recorded
    MaxRecalled  \* bound on the events of a call that another one follows

ASSUME RecordingAssumption == MaxTurns \in Nat /\ MaxRecalled \in Nat

VARIABLES
    turns,   \* RecordingModelPort._turns
    seen,    \* what the consumer of each recorded call got
    cursor,  \* ReplayModelPort._next_turn, 0 before the recording is loaded
    heard    \* what the consumer of each replayed call got

replayVars == <<turns, seen, cursor, heard>>
replayingVars == <<adapterVars, replayVars>>

Heard(request, stream, failed) ==
    [request |-> request, events |-> stream, failed |-> failed]

-----------------------------------------------------------------------------
(* The file *)

BlockType == [text |-> "text", tool |-> "tool_call", reasoning |-> "opaque"]
BlockKind == [type \in Range(BlockType) |-> CHOOSE kind \in Kinds : BlockType[kind] = type]

MessageToDict(message) ==
    [j \in DOMAIN message |->
        [type |-> BlockType[message[j].kind], id |-> message[j].id, data |-> message[j].parts]]

MessageFromDict(raw) ==
    [j \in DOMAIN raw |-> MessageBlock(BlockKind[raw[j].type], raw[j].id, raw[j].data)]

EventToDict(e) ==
    CASE e.type \in {"text_delta", "reasoning_delta"} -> [type |-> e.type, text |-> e.part]
      [] e.type \in {"tool_call_started", "tool_call_completed"} -> [type |-> e.type, id |-> e.id]
      [] e.type = "tool_call_args_delta" -> [type |-> e.type, id |-> e.id, args_delta |-> e.part]
      [] e.type = "model_call_completed" ->
            [type |-> e.type, message |-> MessageToDict(e.message), usage |-> e.usage,
             stop_reason |-> e.stop]

EventFromDict(raw) ==
    CASE raw.type \in {"text_delta", "reasoning_delta"} -> Delta(raw.type, NoId, raw.text)
      [] raw.type \in {"tool_call_started", "tool_call_completed"} -> Delta(raw.type, raw.id, NoPart)
      [] raw.type = "tool_call_args_delta" -> Delta(raw.type, raw.id, raw.args_delta)
      [] raw.type = "model_call_completed" ->
            [type |-> raw.type, id |-> NoId, part |-> NoPart,
             message |-> MessageFromDict(raw.message), usage |-> raw.usage,
             stop |-> raw.stop_reason]

\* What _event_from_dict refuses: usage that calls itself complete without
\* a number of input tokens.
Decodes(raw) ==
    raw.type = "model_call_completed" =>
        /\ raw.usage.state \in {"complete", "partial", "unavailable"}
        /\ raw.usage.state = "complete" => raw.usage.input

\* A turn has an error in the file if it has one.
TurnToDict(turn) ==
    LET stream == [j \in DOMAIN turn.events |-> EventToDict(turn.events[j])]
    IN IF turn.failed THEN [request |-> turn.request, events |-> stream, error |-> TRUE]
       ELSE [request |-> turn.request, events |-> stream]

TurnFromDict(raw) ==
    Heard(raw.request, [j \in DOMAIN raw.events |-> EventFromDict(raw.events[j])],
          "error" \in DOMAIN raw)

\* save.
Saved == [j \in DOMAIN turns |-> TurnToDict(turns[j])]

\* from_bytes: one event that does not decode refuses the whole recording.
Loadable == \A j \in DOMAIN Saved : \A raw \in Range(Saved[j].events) : Decodes(raw)

-----------------------------------------------------------------------------
(* Recording and replaying *)

\* Slip: only a call that returned is recorded.
RecordedReturn ==
    IF pc' = "returned" THEN Append(turns, Heard(Len(turns) + 1, events', FALSE)) ELSE turns

\* The finally of the recorder's stream.
Recorded ==
    Append(turns, Heard(Len(turns) + 1, events',
                        \/ pc' # "returned"
                        \/ \A e \in Range(events') : e.type # "model_call_completed"))

Over == {"returned", "raised", "cancelled"}

\* Every event goes through the recorder; the call's end adds the turn.
Record ==
    /\ Step \/ Return \/ Reraise \/ Cancel
    /\ IF pc' \in Over
       THEN /\ turns' = Recorded
            /\ seen' = IF pc' = "cancelled" THEN seen
                       ELSE Append(seen, Heard(Len(seen) + 1, events', pc' = "raised"))
       ELSE UNCHANGED <<turns, seen>>
    /\ UNCHANGED <<cursor, heard>>

NextTurn ==
    /\ cursor = 0
    /\ Len(turns) < MaxTurns /\ Len(events) <= MaxRecalled
    /\ Again
    /\ UNCHANGED replayVars

\* A replay begins with the file of the recording.
Load ==
    /\ cursor = 0
    /\ pc \in Over
    /\ Loadable
    /\ turns' = [j \in DOMAIN Saved |-> TurnFromDict(Saved[j])]
    /\ cursor' = 1
    /\ UNCHANGED <<adapterVars, seen, heard>>

\* Whether the next turn answers the request.
Takes(request) == cursor <= Len(turns) /\ turns[cursor].request = request

\* A replayed run asks for its next turn, or for something it should not.
Ask(request) ==
    /\ cursor > 0
    /\ Len(heard) < MaxTurns
    /\ IF Takes(request)
       THEN /\ heard' = Append(heard, Heard(request, turns[cursor].events, turns[cursor].failed))
            /\ cursor' = cursor + 1
       ELSE /\ heard' = Append(heard, Heard(request, <<>>, TRUE))
            /\ UNCHANGED cursor
    /\ UNCHANGED <<adapterVars, turns, seen>>

ReplayInit ==
    /\ AdapterInit
    /\ turns = <<>> /\ seen = <<>>
    /\ cursor = 0
    /\ heard = <<>>

ReplayNext == Record \/ NextTurn \/ Load \/ \E request \in 1 .. MaxTurns + 1 : Ask(request)

ReplaySpec == ReplayInit /\ [][ReplayNext]_replayingVars

-----------------------------------------------------------------------------
(* Properties *)

\* Every saved recording loads; a replayed call fails or hears what the
\* recorded run heard when it asked the same, to the event and the failure,
\* and a run that asks what the recorded one asked hears all of it again.
ReplayRepeats ==
    /\ Loadable
    /\ \A j \in DOMAIN heard :
        /\ heard[j] \in Range(seen) \/ heard[j].failed
        /\ (\A i \in 1 .. j : heard[i].request = i) /\ j <= Len(seen) => heard[j] = seen[j]

=============================================================================
