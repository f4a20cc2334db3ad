---------------------------- MODULE ModelChoice ----------------------------
(***************************************************************************)
(* The browser's choice of endpoint and models: the options store, the     *)
(* effects of the settings dialog on it, what localStorage keeps for each  *)
(* session, and the override that a message is sent with.  The server's    *)
(* side of an override is Endpoints.                                       *)
(***************************************************************************)
EXTENDS Endpoints, FiniteSets

CONSTANTS
    Custom,        \* CUSTOM_PROFILE
    Session,
    Typed,         \* models that the visitor picks or types
    Connections,   \* contents of the custom endpoint's fields
    Blank,         \* DEFAULT_CUSTOM
    Stored,        \* a configuration stored before address modes, or Null
    MaxDownloads,  \* bound: model lists of a custom endpoint on their way
    MaxEdits       \* bound: edits and messages of the visitor

ASSUME BlankIsOne == Blank \in Connections

\* The custom endpoint is no preset, and Null is none of the values it stands
\* apart from.
ASSUME NamesApart ==
    /\ Custom \notin Presets
    /\ \A x \in Presets : x # Null
    /\ Custom # Null /\ Null \notin BOOLEAN

ASSUME FieldsTyped ==
    \A c \in Connections : c.full \in BOOLEAN /\ c.protocol \in Protocols \ {Null}

\* The stored configuration, if there is one, ran on its custom endpoint.
ASSUME StoredTyped ==
    Stored # Null =>
        /\ Stored.custom = [protocol |-> Stored.custom.protocol, base |-> Stored.custom.base,
                            full |-> Null, auth |-> Stored.custom.auth, key |-> Stored.custom.key]
        /\ Stored.custom.protocol \in Protocols \ {Null}
        /\ Stored.custom.base = [origin |-> Stored.custom.base.origin,
                                 path |-> Stored.custom.base.path]
        /\ Stored.custom.base.path \in Seq(STRING)
        /\ Null \notin {Stored.custom.base, Stored.custom.key, Stored.models.main}
        /\ Stored.models = [main |-> Stored.models.main, auxiliary |-> Stored.models.auxiliary,
                            follows |-> Stored.models.follows, touched |-> TRUE]
        /\ Stored.models.follows \in BOOLEAN
        /\ Stored = [choice |-> Custom, default |-> Null, models |-> Stored.models,
                     kept |-> Stored.models, custom |-> Stored.custom]

VARIABLES
    options,     \* the store
    catalog,     \* the custom model list shown: whose it is, and the status
    downloads,   \* requests for one: the fields sent, and whether the revision still holds
    settings,    \* whether the dialog is open, and the profile its prefill saw last
    page,        \* the open session
    storage,     \* localStorage: latest, and by session
    known,       \* sessions that the server has
    edits,       \* how many there were
    ran          \* where the last message of a session was answered, as far as storage can know

choiceVars == <<options, catalog, downloads, settings, page, storage, known, edits, ran>>

-----------------------------------------------------------------------------
(* The store: every setter is a function of the options *)

Untouched == [main |-> Null, auxiliary |-> Null, follows |-> TRUE, touched |-> FALSE]

Fresh == [choice |-> Null, default |-> Null, models |-> Untouched, kept |-> Untouched,
          custom |-> Blank]

\* What the custom endpoint's models are, shown or set aside.
Aside(o) == IF o.choice = Custom THEN o.models ELSE o.kept

\* setProfileChoice.
WithChoice(o, choice) ==
    LET models == IF choice = Custom /\ o.choice # Custom THEN o.kept
                  ELSE IF choice = o.default THEN Untouched
                  ELSE o.models
    IN [o EXCEPT !.choice = choice, !.models = models,
                 !.kept = IF choice = Custom THEN @ ELSE Aside(o)]

WithDefault(o, name) ==
    IF name = o.default THEN o
    ELSE IF o.choice \in {Null, o.default}
    THEN [o EXCEPT !.default = name, !.choice = Null, !.models = Untouched]
    ELSE [o EXCEPT !.default = name]

SystemDefault(o) ==
    [o EXCEPT !.choice = o.default, !.kept = Aside(o), !.models = Untouched]

\* A change of the models, which the custom endpoint keeps for itself.
WithModels(o, models) ==
    [o EXCEPT !.models = models,
              !.kept = IF o.choice = Custom THEN models ELSE @]

WithMain(o, m) ==
    WithModels(o, [o.models EXCEPT !.main = m, !.touched = TRUE,
                                   !.auxiliary = IF o.models.follows THEN m ELSE @])

WithAuxiliary(o, m) ==
    WithModels(o, [o.models EXCEPT !.auxiliary = m, !.follows = FALSE])

\* Slip: only an empty field is filled.
PrefillEmpty(o, p) ==
    IF o.choice = Custom \/ o.models.main # Null THEN o
    ELSE [o EXCEPT !.models.main = Definitions[p].main,
                   !.models.auxiliary = IF o.models.follows
                                        THEN Or(Definitions[p].auxiliary, Definitions[p].main) ELSE @]

\* prefillFromProfile.
Prefill(o, p) ==
    IF o.choice = Custom \/ o.models.touched THEN o
    ELSE [o EXCEPT !.models.main = Definitions[p].main,
                   !.models.auxiliary = IF o.models.follows
                                        THEN Or(Definitions[p].auxiliary, Definitions[p].main) ELSE @]

-----------------------------------------------------------------------------
(* The effects of AdvancedOptions, which run after every change of the store *)

Initial ==
    IF DefaultProfile \in Available THEN DefaultProfile
    ELSE IF Available # {} THEN CHOOSE p \in Available : TRUE
    ELSE Custom

Adopted(o) ==
    LET known_default == WithDefault(o, DefaultProfile)
    IN IF known_default.choice = Null THEN WithChoice(known_default, Initial) ELSE known_default

Settled(o, seen) ==
    LET adopted == Adopted(o)
        last == IF o.choice = Null THEN Null ELSE seen
    IN IF adopted.choice \in Available /\ adopted.choice # last
       THEN Prefill(adopted, adopted.choice) ELSE adopted

Seen(o) == IF o.choice \in Available THEN o.choice ELSE Null

Counted == edits < MaxEdits /\ edits' = edits + 1

\* The store becomes o; the open dialog reacts.
Becomes(o) ==
    IF settings.open
    THEN /\ options' = Settled(o, settings.seen)
         /\ settings' = [settings EXCEPT !.seen = Seen(options')]
    ELSE /\ options' = o
         /\ UNCHANGED settings

OpenSettings ==
    /\ ~settings.open
    /\ options' = Settled(options, Null)
    /\ settings' = [open |-> TRUE, seen |-> Seen(options')]
    /\ UNCHANGED <<catalog, downloads, page, storage, known, edits, ran>>

CloseSettings ==
    /\ settings.open
    /\ settings' = [open |-> FALSE, seen |-> Null]
    /\ UNCHANGED <<options, catalog, downloads, page, storage, known, edits, ran>>

-----------------------------------------------------------------------------
(* The visitor's edits; the dialog is modal *)

Edit ==
    /\ Counted
    /\ settings.open
    /\ \/ \E choice \in Available \cup {Custom} : Becomes(WithChoice(options, choice))
       \/ \E m \in Typed \cup {Null} :
            Becomes(WithMain(options, m)) \/ Becomes(WithAuxiliary(options, m))
    /\ UNCHANGED <<catalog, downloads, page, storage, known, ran>>

\* QuickModelPicker.
QuickPick ==
    /\ Counted
    /\ ~settings.open /\ page.loaded
    /\ \E m \in Typed : Becomes(WithMain(options, m))
    /\ UNCHANGED <<catalog, downloads, page, storage, known, ran>>

NoCatalog == [of |-> Null, status |-> "idle"]

\* The revision has moved on for every download under way.
Stale == {[d EXCEPT !.current = FALSE] : d \in downloads}

\* setCustomField.
SetFields ==
    /\ Counted
    /\ settings.open /\ options.choice = Custom
    /\ \E custom \in Connections \ {options.custom} :
        Becomes([options EXCEPT !.custom = custom])
    /\ catalog' = NoCatalog
    /\ downloads' = Stale
    /\ UNCHANGED <<page, storage, known, ran>>

\* handleDownloadCustomModels, startCustomRefresh.
Download ==
    /\ settings.open /\ options.choice = Custom
    /\ options.custom.base # Null /\ options.custom.key # Null
    /\ Cardinality(downloads) < MaxDownloads
    /\ catalog' = [NoCatalog EXCEPT !.status = "loading"]
    /\ downloads' = Stale \cup {[of |-> options.custom, current |-> TRUE]}
    /\ UNCHANGED <<options, settings, page, storage, known, edits, ran>>

\* Slip: any answer counts while one is awaited.
CountsWhileLoading(d) == catalog.status = "loading"

Counts(d) == d.current /\ catalog.status = "loading"

\* finishCustomRefresh.
Downloaded(d) ==
    /\ downloads' = downloads \ {d}
    /\ IF Counts(d)
       THEN catalog' \in {[of |-> d.of, status |-> "idle"], [of |-> Null, status |-> "error"]}
       ELSE UNCHANGED catalog
    /\ UNCHANGED <<options, settings, page, storage, known, edits, ran>>

-----------------------------------------------------------------------------
(* Sending *)

\* buildModelOverride.
Override(o) ==
    IF o.choice = Custom
    THEN [NoOverride EXCEPT
            !.protocol = o.custom.protocol, !.base = o.custom.base, !.full = o.custom.full,
            !.auth = o.custom.auth, !.key = o.custom.key, !.main = o.models.main,
            !.auxiliary = IF o.models.auxiliary = o.models.main THEN Null ELSE o.models.auxiliary]
    ELSE [NoOverride EXCEPT
            !.profile = IF o.choice = o.default THEN Null ELSE o.choice,
            !.main = IF o.models.touched THEN o.models.main ELSE Null,
            !.auxiliary = IF o.models.follows \/ o.models.auxiliary = o.models.main THEN Null
                          ELSE o.models.auxiliary]

Incomplete(o) ==
    o.choice = Custom /\ Null \in {o.custom.base, o.custom.key, o.models.main}

\* buildSessionModelConfig: all but the name of the default.
Built(o) == [o EXCEPT !.default = Null]

\* A run on defaults is stored as one.
Config(o, override) ==
    IF override = NoOverride THEN [Built(o) EXCEPT !.choice = Null, !.models = Untouched]
    ELSE Built(o)

\* persistSessionModelConfig.
Persisted(config) ==
    [latest |-> config, sessions |-> [storage.sessions EXCEPT ![page.session] = config]]

\* Where a run with this override is answered.
Target(override) ==
    LET resolved == Resolve(override)
    IN IF resolved = Null THEN Null
       ELSE [url |-> ResolveAddress(resolved.profile.base, resolved.profile.protocol,
                                    resolved.profile.mode).generation,
             main |-> resolved.main, auxiliary |-> resolved.auxiliary]

\* executeSend: the configuration is stored, unless the browser refuses to,
\* and the run begins.
Execute(o, override) ==
    LET s == page.session
        config == Config(o, override)
    IN /\ \/ /\ storage' = Persisted(config)
             /\ ran' = [ran EXCEPT ![s] = Target(override)]
          \/ /\ UNCHANGED storage
             /\ ran' = [ran EXCEPT ![s] = Null]
       /\ known' = known \cup {s}

\* sendMessage: a known session without a configuration asks first.
Send ==
    /\ Counted
    /\ ~settings.open /\ page.loaded /\ ~page.asking
    /\ IF page.exists /\ ~page.configured
       THEN /\ page' = [page EXCEPT !.asking = TRUE]
            /\ UNCHANGED <<storage, known, ran>>
       ELSE /\ ~Incomplete(options)
            /\ page' = [page EXCEPT !.configured = TRUE]
            /\ Execute(options, Override(options))
    /\ UNCHANGED <<options, catalog, downloads, settings>>

\* confirmConfigChoice.
Confirm ==
    /\ Counted
    /\ ~settings.open /\ page.asking
    /\ page' = [page EXCEPT !.asking = FALSE, !.configured = TRUE]
    /\ \/ /\ options' = SystemDefault(options)
          /\ Execute(options', NoOverride)
       \/ /\ IF Incomplete(options) THEN UNCHANGED <<storage, known, ran>>
             ELSE Execute(options, Override(options))
          /\ UNCHANGED options
       \/ /\ options' = WithChoice(options, Custom)
          /\ UNCHANGED <<storage, known, ran>>
    /\ UNCHANGED <<catalog, downloads, settings>>

-----------------------------------------------------------------------------
(* Sessions and storage *)

\* migrateAddressMode, migrateBaseUrl: a custom endpoint stored before address
\* modes existed.
Migrated(custom) ==
    IF custom.full # Null THEN custom
    ELSE IF custom.protocol = "anthropic_messages" /\ custom.base # Null
            /\ custom.base.path \notin {<<>>, <<"">>}
    THEN [custom EXCEPT !.full = TRUE, !.base.path = Join(@, <<"v1", "messages">>)]
    ELSE [custom EXCEPT !.full = FALSE]

\* parseConfig.
Parsed(config) == IF config = Null THEN Null ELSE [config EXCEPT !.custom = Migrated(@)]

\* Slip: every session starts from the latest configuration.
LatestForAll(s, exists) == Or(Parsed(storage.sessions[s]), Parsed(storage.latest))

\* restoreSessionModelConfig.
Restored(s, exists) ==
    Or(Parsed(storage.sessions[s]), IF exists THEN Null ELSE Parsed(storage.latest))

\* applySessionModelConfig, resetSessionModelConfig.
Applied(config) == [Or(config, Fresh) EXCEPT !.default = options.default]

OpenSession(s) ==
    /\ ~settings.open
    /\ page' = [session |-> s, loaded |-> FALSE, exists |-> FALSE, configured |-> FALSE,
                asking |-> FALSE]
    /\ UNCHANGED <<options, catalog, downloads, settings, storage, known, edits, ran>>

\* The detail of the session arrives.
DetailArrives ==
    /\ ~page.loaded
    /\ LET exists == page.session \in known
           config == Restored(page.session, exists)
       IN /\ page' = [page EXCEPT !.loaded = TRUE, !.exists = exists, !.configured = config # Null]
          /\ Becomes(Applied(config))
    /\ catalog' = NoCatalog
    /\ downloads' = Stale
    /\ UNCHANGED <<storage, known, edits, ran>>

ChoiceInit ==
    /\ options = Fresh
    /\ catalog = NoCatalog
    /\ downloads = {}
    /\ settings = [open |-> FALSE, seen |-> Null]
    /\ edits = 0
    /\ \E s \in Session :
        /\ page = [session |-> s, loaded |-> FALSE, exists |-> FALSE, configured |-> FALSE,
                   asking |-> FALSE]
        /\ known = {s}
        /\ storage = [latest |-> Stored, sessions |-> [x \in Session |-> IF x = s THEN Stored ELSE Null]]
        /\ ran = [x \in Session |->
                    IF x = s /\ Stored # Null
                    THEN [url |-> ResolveAddress(Stored.custom.base, Stored.custom.protocol,
                                                 "sdk_native").generation,
                          main |-> Stored.models.main,
                          auxiliary |-> Or(Stored.models.auxiliary, Stored.models.main)]
                    ELSE Null]

ChoiceStep ==
    \/ OpenSettings \/ CloseSettings \/ Edit \/ QuickPick \/ SetFields \/ Download
    \/ \E d \in downloads : Downloaded(d)
    \/ Send \/ Confirm \/ DetailArrives
    \/ \E s \in Session : OpenSession(s)

ChoiceSpec == ChoiceInit /\ [][ChoiceStep]_choiceVars

-----------------------------------------------------------------------------
(* Properties *)

\* describeEndpoint: the path that the settings show.
Described(custom) ==
    LET path == custom.base.path
        operation == Operation(custom.protocol)
    IN IF custom.full THEN IF path = <<>> THEN <<"">> ELSE path
       ELSE Join(IF path \in {<<>>, <<"">>} THEN <<"v1">> ELSE path, operation)

Shown(o) == Or(o.models.main, IF o.choice = Custom THEN Null
                              ELSE Definitions[Or(o.choice, DefaultProfile)].main)

\* What a message would be sent with is a configuration that the server
\* accepts, and it runs the model and the endpoint that the page shows, the
\* path in the settings included, whatever was edited, prefilled, set aside
\* and restored before.
ShownIsRun ==
    page.loaded /\ ~Incomplete(options) =>
        LET override == Override(options)
        IN /\ Accepts(override)
           /\ Target(override) # Null =>
                /\ Target(override).main = Shown(options)
                /\ IF options.choice = Custom
                   THEN /\ Target(override).url.origin = options.custom.base.origin
                        /\ Target(override).url.path = Described(options.custom)
                   ELSE Chosen(override) = Or(options.choice, DefaultProfile)

\* A session that is opened again runs where its last message ran, also when
\* its configuration was stored before address modes existed
\* (restoreSessionModelConfig and the comment of migrateAddressMode); a session
\* the server knows never takes over another one's configuration.
SessionKeepsModel ==
    [][DetailArrives /\ ~settings.open =>
        /\ ran[page.session] # Null =>
            ~Incomplete(options') /\ Target(Override(options')) = ran[page.session]
        /\ page'.exists /\ storage.sessions[page.session] = Null =>
            Override(options') = NoOverride]_choiceVars

\* The list of models shown for a custom endpoint came from the endpoint that
\* the fields name now.
CatalogFits == catalog.of # Null => catalog.of = options.custom

\* AdvancedOptions.tsx: once the visitor has set the main model, nothing else
\* writes over it.
PickStays ==
    [][OpenSettings /\ options.models.touched => options'.models.main = options.models.main]_choiceVars
=============================================================================
