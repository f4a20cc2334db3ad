----------------------------- MODULE ServicesMC -----------------------------
(***************************************************************************)
(* Instances of four parts of the server that share no state: a recorded   *)
(* run on the adapters, the messages of a conversation, the HTTP side of   *)
(* model calls, and the life of the server.  A behaviour belongs to one of *)
(* them: interleaving them would multiply the states and show nothing.     *)
(***************************************************************************)
EXTENDS Replay, ModelCalls, ServerLife, ModelMessages

VARIABLE part

Init ==
    /\ part \in {"replay", "calls", "life", "talk"}
    /\ ReplayInit /\ CallInit /\ LifeInit /\ TalkInit
    /\ part # "replay" => protocol = CHOOSE kind \in Adapters : TRUE

Next ==
    /\ UNCHANGED part
    /\ \/ part = "replay" /\ ReplayNext /\ UNCHANGED <<callVars, lifeVars, talkVars>>
       \/ part = "calls" /\ CallStep /\ UNCHANGED <<replayingVars, lifeVars, talkVars>>
       \/ part = "life" /\ LifeNext /\ UNCHANGED <<replayingVars, callVars, talkVars>>
       \/ part = "talk" /\ TalkNext /\ UNCHANGED <<replayingVars, callVars, lifeVars>>

Spec == Init /\ [][Next]_<<part, replayingVars, callVars, lifeVars, talkVars>>

-----------------------------------------------------------------------------
(* Model calls: two presets share an address, one has no secret *)

At(o, path) == [origin |-> o, path |-> path]

Relayed(kind, base, auth, secret, main, auxiliary) ==
    [protocol |-> kind, base |-> base, auth |-> auth, secret |-> secret, main |-> main,
     auxiliary |-> auxiliary]

EndpointsFile == [p \in {"anthropic", "openai", "relay", "mirror", "off"} |->
    CASE p = "anthropic" ->
            Relayed("anthropic_messages", At("o1", <<>>), "x-api-key", "s1", "m1", Null)
      [] p = "openai" ->
            Relayed("openai_responses", At("o2", <<"v1">>), "authorization", "s2", "m2", "m3")
      [] p = "relay" ->
            Relayed("openai_chat_completions", At("o2", <<"v1">>), "api-key", "s3", "m2", Null)
      [] p = "mirror" ->
            Relayed("openai_responses", At("O5", <<"v1">>), "authorization", "s5", "m1", Null)
      [] p = "off" ->
            Relayed("openai_responses", At("o4", <<"v1", "">>), "x-api-key", "s4", "m1", Null)]

SecretsSet == {"s1", "s2", "s3", "s5"}

\* Two hosts in capitals and a segment with a space.
Spellings == [name \in {"O5", "O9", "g w"} |->
    CASE name = "O5" -> "o5" [] name = "O9" -> "o9" [] name = "g w" -> "g%20w"]

CustomOverride(kind, base, full, auth) ==
    [NoOverride EXCEPT !.protocol = kind, !.base = base, !.full = full,
                       !.auth = auth, !.key = "u1", !.main = "m1"]

Bases == {At("o9", path) :
             path \in {<<>>, <<"gw">>, <<"v1", "messages", "">>, <<"v1", "chat", "completions">>}}
         \cup {At("O9", <<>>), At("o9", <<"g w">>)}

Visitors ==
    {[NoOverride EXCEPT !.profile = p] : p \in Presets}
    \cup {CustomOverride(kind, base, full, Null) :
            kind \in Protocols, base \in Bases, full \in BOOLEAN}
    \cup {CustomOverride(kind, At("o9", <<>>), FALSE, auth) :
            kind \in Protocols, auth \in {"x-api-key", Markers[1], Markers[2]}}

-----------------------------------------------------------------------------
(* The life of the server: a second release changes one of two texts *)

Names == <<"system", "tools">>

OldRelease == [name \in {"system", "tools"} |-> "old"]

Releases == {OldRelease, [OldRelease EXCEPT !["system"] = "new"]}

RefreshedPresets == <<"openai">>

=============================================================================
