----------------------------- MODULE Projection -----------------------------
(***************************************************************************)
(* project_messages: from the rows of app.message to the message sequence  *)
(* a model is given.  A row has the fields run, iteration, kind and calls: *)
(* the tool calls of an assistant row, the calls a tool row has results    *)
(* of.  A result is known by its call and by the row it comes from; of its *)
(* text only matters whether it is masked.  Texts are left out otherwise.  *)
(***************************************************************************)
EXTENDS Integers, Sequences, FiniteSets

Result(c, row, stored) ==
    [call |-> c, run |-> row.run, iteration |-> row.iteration, stored |-> stored,
     masked |-> FALSE]

Plain(row) == [run |-> row.run, iteration |-> row.iteration, kind |-> row.kind,
               calls |-> IF row.kind = "assistant" THEN row.calls ELSE {}, results |-> {}]

\* Slip: a call without a stored result is left without one.
RepairNothing(row, existing, source) == {Result(c, source, TRUE) : c \in existing}

\* One result per call, synthesized where none is stored; results of other
\* calls are kept behind them.
Repair(row, existing, source) ==
    {Result(c, source, TRUE) : c \in existing}
        \cup {Result(c, row, FALSE) : c \in row.calls \ existing}

\* The loop of _project_messages_unmasked at row k; consumed tells that the
\* row was taken together with the one before it.
ProjectRow(rows, acc, k) ==
    LET row == rows[k]
        out == acc.out
        paired == k < Len(rows) /\ rows[k + 1].kind = "tool"
        results == IF paired THEN Repair(row, rows[k + 1].calls, rows[k + 1])
                             ELSE Repair(row, {}, row)
    IN IF acc.consumed THEN [acc EXCEPT !.consumed = FALSE]
       ELSE IF row.kind = "tool" /\ (out = <<>> \/ out[Len(out)].calls = {}) THEN acc
       ELSE IF Plain(row).calls = {} THEN [acc EXCEPT !.out = Append(out, Plain(row))]
       ELSE [out |-> out \o << Plain(row), [Plain(row) EXCEPT !.kind = "tool", !.calls = {},
                                                              !.results = results] >>,
             consumed |-> paired]

Loop(rows) ==
    LET loop[k \in 0 .. Len(rows)] ==
            IF k = 0 THEN [out |-> <<>>, consumed |-> FALSE]
            ELSE ProjectRow(rows, loop[k - 1], k)
    IN loop

Project(rows) == Loop(rows)[Len(rows)].out

CallsIn(out) == UNION {out[k].calls : k \in DOMAIN out}

\* The calls of a message with their results in the next one.
Pairs(out) ==
    {p \in (2 .. Len(out)) \X CallsIn(out) :
        /\ out[p[1] - 1].kind = "assistant" /\ p[2] \in out[p[1] - 1].calls
        /\ out[p[1]].kind = "tool" /\ \E x \in out[p[1]].results : x.call = p[2]}

\* The order of the calls within a message is any fixed one.
Turn(out) ==
    CHOOSE turn \in [CallsIn(out) -> 1 .. Cardinality(CallsIn(out))] :
        \A c, d \in CallsIn(out) : turn[c] = turn[d] => c = d

Later(out, p) ==
    {q \in Pairs(out) : \/ q[1] > p[1]
                        \/ q[1] = p[1] /\ Turn(out)[q[2]] > Turn(out)[p[2]]}

\* mask_tool_observations: only the latest pairs keep the text of the result.
Mask(out, window) ==
    LET masked == {p \in Pairs(out) : Cardinality(Later(out, p)) >= window}
    IN [k \in DOMAIN out |->
          [out[k] EXCEPT !.results = {[x EXCEPT !.masked = <<k, x.call>> \in masked] : x \in @}]]

\* project_messages_with_metadata with the arguments create_run passes: no run
\* is pruned.
ModelInput(rows, window) == Mask(Project(rows), window)

\* What a model accepts: tool results follow the message with their calls,
\* every call has a result, and there is no result of another call.
Legal(out) ==
    \A k \in DOMAIN out :
        /\ out[k].kind = "tool" => k > 1 /\ out[k - 1].calls # {}
        /\ out[k].calls # {} =>
              /\ k < Len(out)
              /\ out[k + 1].kind = "tool"
              /\ {x.call : x \in out[k + 1].results} = out[k].calls

\* A result is the one its own run stored, and is made up only when the run
\* stored none.
OwnResults(rows, out) ==
    \A k \in DOMAIN out : out[k].calls # {} =>
        \A x \in out[k + 1].results :
            /\ x.run = out[k].run
            /\ x.iteration = out[k].iteration
            /\ ~x.stored => \A j \in DOMAIN rows : rows[j].kind = "tool" =>
                               rows[j].run # x.run \/ rows[j].iteration # x.iteration

\* The results of a message that kept their text, and all of them.
Read(out, k) == {x \in out[k].results : ~x.masked}

Readable(out) == UNION {{<<k, x>> : x \in Read(out, k)} : k \in DOMAIN out}

\* The latest results, and never more than the window, have kept their text: a
\* run is not asked to go on from results that it can no longer read.
LatestReadable(out, window) ==
    /\ Cardinality(Readable(out)) <= window
    /\ \A k \in DOMAIN out : Read(out, k) # out[k].results =>
          /\ Cardinality(Readable(out)) = window
          /\ \A j \in 1 .. k - 1 : Read(out, j) = {}

=============================================================================
