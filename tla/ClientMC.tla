------------------------------ MODULE ClientMC ------------------------------
(***************************************************************************)
(* Instances of two parts of the browser that share no state: the choice   *)
(* of endpoint and models, and the session page with the session list.  A  *)
(* behaviour belongs to one of them.                                       *)
(***************************************************************************)
EXTENDS ModelChoice, SessionClient, TLC

CONSTANT MaxUnderWay   \* bound: requests of the tab under way together

VARIABLE part

Alike == Permutations(Title)

Init ==
    /\ part \in {"choice", "list"}
    /\ ChoiceInit /\ ClientInit
    /\ part = "choice" => \A s \in Chat : server[s].at = "live"
    /\ part = "list" => page.session = CHOOSE s \in Session : TRUE

Next ==
    /\ UNCHANGED part
    /\ \/ part = "choice" /\ ChoiceStep /\ UNCHANGED clientVars
       \/ part = "list" /\ ClientNext /\ Cardinality(calls') <= MaxUnderWay /\ UNCHANGED choiceVars

Spec == Init /\ [][Next]_<<part, choiceVars, clientVars>>

-----------------------------------------------------------------------------
(* The choice: two presets, one with an auxiliary model of its own *)

At(o, path) == [origin |-> o, path |-> path]

Relayed(kind, base, auth, secret, main, auxiliary) ==
    [protocol |-> kind, base |-> base, auth |-> auth, secret |-> secret, main |-> main,
     auxiliary |-> auxiliary]

EndpointsFile == [p \in {"a", "b"} |->
    IF p = "a"
    THEN Relayed("anthropic_messages", At("o1", <<>>), "x-api-key", "s1", "m1", Null)
    ELSE Relayed("openai_responses", At("o2", <<"v1">>), "authorization", "s2", "m2", "m3")]

SecretsSet == {"s1", "s2"}

Field(kind, base, full, key) ==
    [protocol |-> kind, base |-> base, full |-> full, auth |-> "authorization", key |-> key]

BlankFields == Field("openai_responses", Null, FALSE, Null)

Fields == {
    BlankFields,
    Field("anthropic_messages", At("o9", <<"gw", "">>), FALSE, "u1"),
    Field("openai_chat_completions", At("o9", <<>>), FALSE, "u1"),
    Field("openai_responses", At("o9", <<"v1", "responses">>), TRUE, "u1")}

\* Stored by a version of the page that knew no address modes.
OldModels == [main |-> "m4", auxiliary |-> "m5", follows |-> FALSE, touched |-> TRUE]

OldConfiguration ==
    [choice |-> Custom, default |-> Null, models |-> OldModels, kept |-> OldModels,
     custom |-> Field("anthropic_messages", At("o9", <<"gw">>), Null, "u1")]

=============================================================================
