----------------------------- MODULE ModelCalls -----------------------------
(***************************************************************************)
(* The HTTP side of model calls: runs and titles that hold a port, on a    *)
(* client shared through the process's cache or on one of their own, and   *)
(* discovery requests.  Each request is what leaves the process after the  *)
(* client's hooks: an address and the headers that carry a key.            *)
(***************************************************************************)
EXTENDS Endpoints, FiniteSets

CONSTANTS
    Task,        \* concurrent runs, titles and refreshes
    Overrides,   \* what visitors send
    Capacity,    \* _CAPACITY of each cache
    Normal       \* what httpx writes differently (hosts in capitals, default ports,
                 \* characters a path must quote) -> how it writes it

ASSUME CapacityPositive == Capacity \in Nat \ {0}

ASSUME TasksFinite == IsFiniteSet(Task)

VARIABLES
    task,      \* place, resolved endpoint and client of each task
    request,   \* the request a task sent last
    clients,   \* the HTTP clients that exist
    cache      \* of each library, least recently used first

callVars == <<task, request, clients, cache>>

Libraries == {"httpx", "httpx2"}
Library(protocol) == IF protocol = "anthropic_messages" THEN "httpx" ELSE "httpx2"

Markers == <<"x-chatagents-auth-field", "x-chatagents-auth-field-alt">>

\* No key has the name of a marker, and visitors do not know the secrets.
ASSUME KeysApart ==
    /\ \A p \in Presets : Definitions[p].secret \notin {Markers[1], Markers[2]}
    /\ \A o \in Overrides : o.key \notin {Markers[1], Markers[2]} \cup
                               {Definitions[p].secret : p \in Presets}

\* An address has a path of segments, and a protocol is one of the three.
ASSUME EndpointsTyped ==
    /\ \A p \in Presets : /\ Definitions[p].base.path \in Seq(STRING)
                           /\ Definitions[p].protocol \in Protocols
    /\ \A o \in Overrides : IsCustom(o) => /\ o.base.path \in Seq(STRING)
                                            /\ o.protocol \in Protocols \cup {Null}

\* The words of an operation are written as they are.
ASSUME WordsNormal ==
    DOMAIN Normal \cap {"", "v1", "responses", "chat", "completions", "messages", "models"} = {}

-----------------------------------------------------------------------------
(* Clients and their hooks *)

Written(name) == IF name \in DOMAIN Normal THEN Normal[name] ELSE name

\* httpx.URL.
AsSent(address) ==
    [origin |-> Written(address.origin),
     path |-> [i \in DOMAIN address.path |-> Written(address.path[i])]]

ClientIds == 1 .. (Cardinality(Task) + 2 * Capacity)

InUse == {task[t].client : t \in {x \in Task : task[x].pc = "port"}}
Cached == UNION {{cache[l][i].client : i \in DOMAIN cache[l]} : l \in Libraries}

NoClient == [open |-> FALSE, route |-> Null, keeps |-> FALSE]

\* Clients that nothing refers to are forgotten, closed or not.
Referred(all) == [c \in ClientIds |-> IF c \in (InUse \cup Cached)' THEN all[c] ELSE NoClient]

Fresh == CHOOSE c \in ClientIds : c \notin InUse \cup Cached

\* Slip: only a full URL is routed.
RouteOfFull(profile) ==
    IF profile.mode = "full"
    THEN [from |-> ResolveAddress([origin |-> profile.base.origin, path |-> <<>>],
                                  profile.protocol, "sdk_native").generation,
          to |-> ResolveAddress(profile.base, profile.protocol, "full").generation]
    ELSE Null

\* _install_generation_route: where the library's own URL is not the resolved
\* one, a hook replaces it.
Route(profile) ==
    LET resolved == ResolveAddress(profile.base, profile.protocol, profile.mode)
        sdk == ResolveAddress(resolved.sdk, profile.protocol, "sdk_native").generation
    IN IF sdk = resolved.generation THEN Null
       ELSE [from |-> sdk, to |-> resolved.generation]

\* get_model_port and model_port_scope install the header hook.
Client(route) == [open |-> TRUE, route |-> route, keeps |-> TRUE]

\* The headers of a request: the library's own, the selected one, and a
\* marker that names the selected one to the hook.
Headers(profile) ==
    LET native == IF profile.protocol = "anthropic_messages" THEN "x-api-key"
                  ELSE "authorization"
        marker == IF profile.auth = Markers[1] THEN Markers[2] ELSE Markers[1]
    IN [h \in {native, profile.auth, marker} |->
            IF h = marker THEN profile.auth ELSE profile.key]

Without(headers, names) == [h \in DOMAIN headers \ names |-> headers[h]]

\* Slip: the first marker present is the marker.
FirstMarker(headers) == IF Markers[1] \in DOMAIN headers THEN Markers[1] ELSE Markers[2]

MarkerOf(headers) ==
    IF Markers[1] \in DOMAIN headers /\ headers[Markers[1]] = Markers[2] THEN Markers[1]
    ELSE IF Markers[2] \in DOMAIN headers THEN Markers[2] ELSE Markers[1]

KeepSelected(headers) ==
    LET marker == MarkerOf(headers)
    IN IF marker \notin DOMAIN headers THEN headers
       ELSE Without(headers, {marker} \cup ({"authorization", "x-api-key"} \ {headers[marker]}))

\* What the client sends for the library, its hooks applied: the routing hook
\* compares the text of the library's URL with its own, which httpx has not seen.
OnTheWire(client, profile) ==
    LET sdk == ResolveAddress(ResolveAddress(profile.base, profile.protocol, profile.mode).sdk,
                              profile.protocol, "sdk_native").generation
    IN [url |-> AsSent(IF client.route # Null /\ client.route.from = AsSent(sdk)
                       THEN client.route.to ELSE sdk),
        headers |-> IF client.keeps THEN KeepSelected(Headers(profile)) ELSE Headers(profile)]

-----------------------------------------------------------------------------
(* Tasks *)

Idle == [pc |-> "idle", endpoint |-> Null, client |-> 0]

NoRequest == [url |-> Null, headers |-> <<>>]

\* A body that is not accepted, or an endpoint that is not available, ends
\* the request before anything is opened.
Accept(t) ==
    /\ task[t].pc = "idle"
    /\ \E o \in Overrides :
        LET endpoint == Resolve(o)
        IN /\ Accepts(o)
           /\ endpoint # Null
           /\ task' = [task EXCEPT ![t].pc = "resolved", ![t].endpoint = endpoint]
    /\ request' = [request EXCEPT ![t] = NoRequest]
    /\ UNCHANGED <<clients, cache>>

IndexOf(library, base) == {i \in DOMAIN cache[library] : cache[library][i].base = base}

Holds(t, c) == task' = [task EXCEPT ![t].pc = "port", ![t].client = c]

\* A hit moves to the end; the hooks of its client are in place.
SharedHit(t) ==
    LET profile == task[t].endpoint.profile
        library == Library(profile.protocol)
    IN \E i \in IndexOf(library, profile.base) :
        LET entry == cache[library][i]
        IN /\ Holds(t, entry.client)
           /\ cache' = [cache EXCEPT ![library] = Append(RemoveAt(@, i), entry)]
           /\ UNCHANGED clients

\* Slip: the evicted client is closed.
EvictedClosed(evicted) ==
    [c \in ClientIds |-> [clients[c] EXCEPT !.open = @ /\ c \notin evicted]]

\* An evicted client is dropped and stays open.
Evicted(evicted) == clients

SharedMiss(t) ==
    LET profile == task[t].endpoint.profile
        library == Library(profile.protocol)
        grown == Append(cache[library], [base |-> profile.base, client |-> Fresh])
        over == Len(grown) > Capacity
    IN /\ IndexOf(library, profile.base) = {}
       /\ Holds(t, Fresh)
       /\ cache' = [cache EXCEPT ![library] = IF over THEN Tail(grown) ELSE grown]
       /\ clients' = Referred([Evicted(IF over THEN {Head(grown).client} ELSE {})
                                 EXCEPT ![Fresh] = Client(Null)])

Own(t) ==
    /\ Holds(t, Fresh)
    /\ clients' = [clients EXCEPT ![Fresh] = Client(Route(task[t].endpoint.profile))]
    /\ UNCHANGED cache

\* model_port_scope.
Enter(t) ==
    /\ task[t].pc = "resolved"
    /\ IF task[t].endpoint.shared THEN SharedHit(t) \/ SharedMiss(t) ELSE Own(t)
    /\ UNCHANGED request

Call(t) ==
    /\ task[t].pc = "port"
    /\ request' = [request EXCEPT ![t] = OnTheWire(clients[task[t].client], task[t].endpoint.profile)]
    /\ UNCHANGED <<task, clients, cache>>

Exit(t) ==
    /\ task[t].pc = "port"
    /\ task' = [task EXCEPT ![t] = Idle]
    /\ request' = [request EXCEPT ![t] = NoRequest]
    /\ UNCHANGED cache
    /\ clients' = Referred(IF task[t].endpoint.shared THEN clients
                           ELSE [clients EXCEPT ![task[t].client].open = FALSE])

\* Discovery asks with a client of its own and without hooks.
Discover(t) ==
    /\ task[t].pc = "resolved"
    /\ LET profile == task[t].endpoint.profile
           url == ResolveAddress(profile.base, profile.protocol, profile.mode).discovery
       IN /\ url # Null
          /\ request' = [request EXCEPT
                           ![t] = [url |-> AsSent(url),
                                   headers |-> [h \in {profile.auth} |-> profile.key]]]
    /\ task' = [task EXCEPT ![t].pc = "discovered"]
    /\ UNCHANGED <<clients, cache>>

Discovered(t) ==
    /\ task[t].pc = "discovered"
    /\ task' = [task EXCEPT ![t] = Idle]
    /\ request' = [request EXCEPT ![t] = NoRequest]
    /\ UNCHANGED <<clients, cache>>

CallInit ==
    /\ task = [t \in Task |-> Idle]
    /\ request = [t \in Task |-> NoRequest]
    /\ clients = [c \in ClientIds |-> NoClient]
    /\ cache = [l \in Libraries |-> <<>>]

CallStep == \E t \in Task :
    Accept(t) \/ Enter(t) \/ Call(t) \/ Exit(t) \/ Discover(t) \/ Discovered(t)

CallSpec == CallInit /\ [][CallStep]_callVars

-----------------------------------------------------------------------------
(* Properties *)

\* A request carries one key in one header, the selected one, and the key
\* goes home: a preset's secret to the address of that preset, a visitor's
\* key to the address that came with it.
KeyStaysHome ==
    \A t \in Task : request[t].url # Null =>
        LET profile == task[t].endpoint.profile
        IN /\ DOMAIN request[t].headers = {profile.auth}
           /\ LET key == request[t].headers[profile.auth]
              IN IF \E p \in Presets : Definitions[p].secret = key
                 THEN \E p \in Presets : /\ Definitions[p].secret = key
                                         /\ Definitions[p].base = profile.base
                                         /\ Written(Definitions[p].base.origin) = request[t].url.origin
                 ELSE /\ \E o \in Overrides : o.key = key /\ o.base = profile.base
                      /\ request[t].url.origin = Written(profile.base.origin)

\* For a base that httpx sends as it was written, a model call and a discovery go
\* to neighbours: the same address but for the operation, or there is no discovery
\* (endpoint_address.py:3-5).  For another base (a host in capitals, an explicit
\* default port, a character to quote) the routing hook may not know the library's
\* URL (port.py:86); the call then goes there, wherever discovery goes.
OneAddress ==
    \A t \in Task :
        LET profile == task[t].endpoint.profile
            url == request[t].url
            discovery == ResolveAddress(profile.base, profile.protocol, profile.mode).discovery
            path == IF Slashed(url.path) /\ profile.mode = "full" THEN Front(url.path) ELSE url.path
        IN task[t].pc = "port" /\ url # Null /\ AsSent(profile.base) = profile.base =>
           /\ profile.mode = "full" => url.path \in {profile.base.path, <<"">>}
           /\ discovery # Null =>
                \E prefix \in Prefixes(path) :
                    /\ path = prefix \o Operation(profile.protocol)
                    /\ AsSent(discovery) = [url EXCEPT !.path = prefix \o <<"models">>]

\* A task's client stays open until the task lets go of it, a visitor's
\* client is nobody else's, and the caches hold open clients of presets,
\* each address once and no more than their capacity.
ClientsHeld ==
    /\ \A t \in Task : task[t].pc = "port" =>
        /\ clients[task[t].client].open
        /\ ~task[t].endpoint.shared =>
             /\ task[t].client \notin Cached
             /\ \A u \in Task \ {t} : task[u].pc = "port" => task[u].client # task[t].client
    /\ \A l \in Libraries :
        /\ Len(cache[l]) <= Capacity
        /\ \A i, j \in DOMAIN cache[l] : cache[l][i].base = cache[l][j].base => i = j
        /\ \A i \in DOMAIN cache[l] :
             /\ clients[cache[l][i].client].open
             /\ \E p \in Presets : /\ Definitions[p].base = cache[l][i].base
                                   /\ Library(Definitions[p].protocol) = l

=============================================================================
