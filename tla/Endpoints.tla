----------------------------- MODULE Endpoints ------------------------------
(***************************************************************************)
(* Which model answers a request, at which address and with whose key: the *)
(* validation of a ModelOverride, resolve_profiles, and the one reading of *)
(* a base URL that model calls and model discovery share.  An address is   *)
(* an origin and the segments of its path, an empty one after a final      *)
(* slash.                                                                  *)
(***************************************************************************)
EXTENDS Naturals, Sequences, SequencesExt

CONSTANTS
    Null,
    Definitions,    \* the endpoints file: name -> ServerProfileDefinition
    DefaultProfile,
    Env             \* the secrets that are set

ASSUME DefaultIsConfigured == DefaultProfile \in DOMAIN Definitions

Protocols == {"anthropic_messages", "openai_responses", "openai_chat_completions"}

Presets == DOMAIN Definitions

\* build_available_profiles: a preset without its secret is not offered.
Available == {p \in Presets : Definitions[p].secret \in Env}

-----------------------------------------------------------------------------
(* endpoint_address.py *)

Operation(protocol) ==
    CASE protocol = "openai_responses" -> <<"responses">>
      [] protocol = "openai_chat_completions" -> <<"chat", "completions">>
      [] protocol = "anthropic_messages" -> <<"messages">>

Slashed(path) == path # <<>> /\ Last(path) = ""

Join(path, suffix) == (IF Slashed(path) THEN Front(path) ELSE path) \o suffix

\* What comes before the operation, if the path ends with the whole of it.
StripOperation(path, operation) ==
    LET candidate == IF Slashed(path) THEN Front(path) ELSE path
    IN IF IsSuffix(operation, candidate)
       THEN SubSeq(candidate, 1, Len(candidate) - Len(operation)) \o <<"">>
       ELSE Null

\* A full URL is used as it is; auto adds v1 to a root only; sdk_native is
\* what the vendors' libraries do by themselves.
ResolveAddress(base, protocol, mode) ==
    LET at(path) == [origin |-> base.origin, path |-> path]
        operation == Operation(protocol)
        whole == IF base.path = <<>> THEN <<"">> ELSE base.path
        before == StripOperation(whole, operation)
        prefix == IF mode = "auto" THEN IF base.path \in {<<>>, <<"">>} THEN <<"v1">> ELSE base.path
                  ELSE IF protocol = "anthropic_messages" THEN Join(base.path, <<"v1">>)
                  ELSE base.path
    IN IF mode = "full"
       THEN [sdk |-> at(<<>>), generation |-> at(whole),
             discovery |-> IF before = Null THEN Null ELSE at(Join(before, <<"models">>))]
       ELSE [sdk |-> base, generation |-> at(Join(prefix, operation)),
             discovery |-> at(Join(prefix, <<"models">>))]

-----------------------------------------------------------------------------
(* override.py *)

NoOverride == [profile |-> Null, protocol |-> Null, base |-> Null, full |-> Null,
               auth |-> Null, key |-> Null, main |-> Null, auxiliary |-> Null]

IsCustom(o) == o.base # Null

Accepts(o) ==
    IF IsCustom(o) THEN o.profile = Null /\ o.key # Null /\ o.main # Null
    ELSE \A field \in {"protocol", "auth", "key", "full"} : o[field] = Null

AddressMode(o) == IF o.full = TRUE THEN "full" ELSE "auto"

-----------------------------------------------------------------------------
(* resolve.py *)

Or(value, default) == IF value = Null THEN default ELSE value

PresetProfile(p) ==
    LET d == Definitions[p]
    IN [protocol |-> d.protocol, base |-> d.base, auth |-> d.auth, key |-> d.secret,
        mode |-> "sdk_native"]

CustomProfile(o) ==
    [protocol |-> Or(o.protocol, "openai_responses"), base |-> o.base,
     auth |-> Or(o.auth, "authorization"), key |-> o.key, mode |-> AddressMode(o)]

Chosen(o) == Or(o.profile, DefaultProfile)

\* The visitor's choice, the configuration's, or the main model.
Auxiliary(o, main) ==
    Or(o.auxiliary, Or(IF IsCustom(o) THEN Null ELSE Definitions[Chosen(o)].auxiliary, main))

\* Null when the preset is unknown or its secret is not set.
Resolve(o) ==
    IF IsCustom(o)
    THEN [profile |-> CustomProfile(o), main |-> o.main, auxiliary |-> Auxiliary(o, o.main),
          shared |-> FALSE]
    ELSE IF Chosen(o) \in Available
    THEN LET main == Or(o.main, Definitions[Chosen(o)].main)
         IN [profile |-> PresetProfile(Chosen(o)), main |-> main,
             auxiliary |-> Auxiliary(o, main), shared |-> TRUE]
    ELSE Null

=============================================================================
