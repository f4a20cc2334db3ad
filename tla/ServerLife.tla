---------------------------- MODULE ServerLife ----------------------------
(***************************************************************************)
(* The life of server processes on one database: at its start a process    *)
(* synchronizes the versions of its prompts and tool schemas in one        *)
(* transaction and holds the rows it found; then it refreshes the model    *)
(* lists of its presets in the background, while visitors ask for          *)
(* refreshes too.  Statements see what other transactions have committed   *)
(* (READ COMMITTED).                                                       *)
(***************************************************************************)
EXTENDS Naturals, Sequences, FiniteSets

CONSTANTS
    Process,    \* server processes on the database
    Visited,    \* bound: those that visitors ask for refreshes
    Release,    \* what they may run: Release[r][n] is the text of input n
    Inputs,     \* the names of the prompts and tool schemas, in their order
    Profiles,   \* the available presets, in the order of the configuration
    Model,      \* what a model list may contain
    MaxItems,   \* bound: items of a list, repeated ones included
    MaxStarts   \* bound: starts of processes

ASSUME ItemsBound == MaxItems \in Nat
ASSUME VisitedExist == Visited \subseteq Process
ASSUME InputsDistinct ==
    /\ Inputs \in Seq({Inputs[i] : i \in DOMAIN Inputs})
    /\ \A i, j \in DOMAIN Inputs : Inputs[i] = Inputs[j] => i = j

VARIABLES
    process,    \* each process
    versions,   \* committed rows of prompt_versions and tool_schema_versions
    started,    \* starts so far; the number stands for the time of a start
    refresh,    \* the background task and a visitor's request of each process
    catalog     \* committed model list of each preset, and whether it has a date

lifeVars == <<process, versions, started, refresh, catalog>>

Refreshers == (Process \X {"task"}) \cup (Visited \X {"visitor"})
Configured == {Profiles[i] : i \in DOMAIN Profiles}

Stopped == [pc |-> "stopped", release |-> <<>>, time |-> 0, added |-> {}, found |-> {}]
Syncing(release, time) ==
    [pc |-> "syncing", release |-> release, time |-> time, added |-> {}, found |-> {}]
Stage(pc, i, list) == [pc |-> pc, at |-> i, victims |-> {}, list |-> list, dated |-> FALSE]
Resting == Stage("idle", 0, {})

-----------------------------------------------------------------------------
(* Versions *)

\* build_prompt_versions, build_tool_schema_versions: the row of this start.
RowOf(p, name) ==
    [name |-> name, text |-> process[p].release[name], time |-> process[p].time]

SameContent(row, other) == row.name = other.name /\ row.text = other.text

\* The next input that the process has not found yet.
NextInput(p) == Inputs[Cardinality(process[p].found) + 1]

AllFound(p) == Cardinality(process[p].found) = Len(Inputs)

\* _app_lifespan opens the transaction of model_input_version_lifespan.
Start(p, release) ==
    /\ process[p].pc = "stopped"
    /\ started < MaxStarts
    /\ started' = started + 1
    /\ process' = [process EXCEPT ![p] = Syncing(release, started + 1)]
    /\ UNCHANGED <<versions, refresh, catalog>>

\* INSERT ... ON CONFLICT DO NOTHING waits for a transaction that has inserted
\* the same content, and inserts only where none is committed.
Waits(p, row) ==
    \E q \in Process \ {p} : \E other \in process[q].added : SameContent(row, other)

\* Slip: every start inserts its row.
InsertedAlways(p, row) == process[p].added \cup {row}

Inserted(p, row) ==
    IF \E other \in versions \cup process[p].added : SameContent(row, other)
    THEN process[p].added ELSE process[p].added \cup {row}

\* ... and the SELECT after it: the transaction sees its own rows too.
Sync(p) ==
    /\ process[p].pc = "syncing" /\ ~AllFound(p)
    /\ LET row == RowOf(p, NextInput(p))
           added == Inserted(p, row)
       IN /\ ~Waits(p, row)
          /\ \E found \in versions \cup added :
                /\ SameContent(found, row)
                /\ process' = [process EXCEPT ![p].added = added, ![p].found = @ \cup {found}]
    /\ UNCHANGED <<versions, started, refresh, catalog>>

Commit(p) ==
    /\ process[p].pc = "syncing" /\ AllFound(p)
    /\ versions' = versions \cup process[p].added
    /\ \/ /\ process' = [process EXCEPT ![p].pc = "up", ![p].added = {}]
          /\ refresh' = [refresh EXCEPT ![<<p, "task">>] = Stage("discover", 1, {})]
       \/ /\ process' = [process EXCEPT ![p] = Stopped]   \* the answer is lost
          /\ UNCHANGED refresh
    /\ UNCHANGED <<started, catalog>>

\* A crash, a shutdown, a failed statement: what is not committed is rolled
\* back, and model_discovery_lifespan cancels the task.
Stop(p) ==
    /\ process[p].pc # "stopped"
    /\ process' = [process EXCEPT ![p] = Stopped]
    /\ refresh' = [r \in Refreshers |-> IF r[1] = p THEN Resting ELSE refresh[r]]
    /\ UNCHANGED <<versions, started, catalog>>

-----------------------------------------------------------------------------
(* Model lists *)

Preset(r) == Profiles[refresh[r].at]

Goes(r, pc) == refresh' = [refresh EXCEPT ![r].pc = pc]

\* What follows a refresh: the task goes on to the next preset or sleeps, a
\* request is answered.
Done(r) ==
    IF r[2] = "visitor" THEN Resting
    ELSE IF refresh[r].at < Len(Profiles)
         THEN Stage("discover", refresh[r].at + 1, {})
         ELSE Stage("asleep", 0, {})

\* An exception of the store: nothing catches it before the loop of the task.
Raised(r) == IF r[2] = "visitor" THEN Resting ELSE Stage("dead", 0, {})

\* refresh_models of the API, for an available preset.
AskRefresh(r, i) ==
    /\ r[2] = "visitor"
    /\ process[r[1]].pc = "up"
    /\ refresh[r].pc = "idle"
    /\ refresh' = [refresh EXCEPT ![r] = Stage("discover", i, {})]
    /\ UNCHANGED <<process, versions, started, catalog>>

\* periodic_model_refresh after its interval.
Wake(r) ==
    /\ refresh[r].pc = "asleep"
    /\ refresh' = [refresh EXCEPT ![r] = Stage("discover", 1, {})]
    /\ UNCHANGED <<process, versions, started, catalog>>

Broken == "broken"   \* an item that is no model

\* What may come back: an error or the items of a list, some of them twice.
Answers == {[ok |-> FALSE, items |-> <<>>]}
           \cup [ok : {TRUE}, items : UNION {[1 .. n -> Model \cup {Broken}] : n \in 0 .. MaxItems}]

Failed == [found |-> FALSE, models |-> {}]

\* _parse_models: one broken item discards the list, a repeated one is dropped.
ParsedModels(items) ==
    LET named == {items[i] : i \in DOMAIN items}
    IN IF Broken \in named THEN Failed ELSE [found |-> TRUE, models |-> named]

\* discover_openai_models.
Discovery(answer) == IF answer.ok THEN ParsedModels(answer.items) ELSE Failed

\* Slip: an empty list counts as a discovery.
AnyList(discovery) == discovery.found

Usable(discovery) == discovery.found /\ discovery.models # {}

\* refresh_preset loads what it may have to answer with, then discovers; a
\* failure and an empty list leave the catalog alone.
TryDiscovery(r) ==
    /\ refresh[r].pc = "discover"
    /\ \E answer \in Answers :
        LET discovery == Discovery(answer)
        IN refresh' = [refresh EXCEPT ![r] =
                IF Usable(discovery)
                THEN Stage("delete", refresh[r].at, discovery.models)
                ELSE Done(r)]
    /\ UNCHANGED <<process, versions, started, catalog>>

\* replace, DELETE: it sees the committed rows.
SeeRows(r) ==
    /\ refresh[r].pc = "delete"
    /\ refresh' = [refresh EXCEPT ![r].pc = "lock", ![r].victims = catalog[Preset(r)].rows]
    /\ UNCHANGED <<process, versions, started, catalog>>

Rivals(r, pcs) == {o \in Refreshers \ {r} : refresh[o].pc \in pcs /\ refresh[o].at = refresh[r].at}

\* It waits for a transaction that is deleting one of them.
LockRows(r) ==
    /\ refresh[r].pc = "lock"
    /\ \A o \in Rivals(r, {"insert", "date", "commit"}) :
            refresh[o].victims \cap refresh[r].victims = {}
    /\ Goes(r, "insert")
    /\ UNCHANGED <<process, versions, started, catalog>>

\* The rows of a list are unique in their preset: an INSERT waits for a
\* transaction that has inserted or deleted one of them and fails where one is
\* committed.
InsertRows(r) ==
    /\ refresh[r].pc = "insert"
    /\ \A o \in Rivals(r, {"date", "commit"}) : refresh[o].list \cap refresh[r].list = {}
    /\ \A o \in Rivals(r, {"insert", "date", "commit"}) :
            refresh[o].victims \cap refresh[r].list = {}
    /\ LET left == catalog[Preset(r)].rows \ refresh[r].victims
       IN IF left \cap refresh[r].list # {} THEN refresh' = [refresh EXCEPT ![r] = Raised(r)]
          ELSE Goes(r, "date")
    /\ UNCHANGED <<process, versions, started, catalog>>

\* session.get of the row that dates the list.
ReadDate(r) ==
    /\ refresh[r].pc = "date"
    /\ refresh' = [refresh EXCEPT ![r].pc = "commit", ![r].dated = catalog[Preset(r)].dated]
    /\ UNCHANGED <<process, versions, started, catalog>>

Replaced(old, r) ==
    [rows |-> (old.rows \ refresh[r].victims) \cup refresh[r].list, dated |-> TRUE]

\* The date is inserted or updated and the transaction commits.  A deleter
\* that waited for it finds the rows it saw gone.
Replace(r) ==
    /\ refresh[r].pc = "commit"
    /\ IF ~refresh[r].dated /\ catalog[Preset(r)].dated
       THEN /\ refresh' = [refresh EXCEPT ![r] = Raised(r)]
            /\ UNCHANGED catalog
       ELSE /\ catalog' = [catalog EXCEPT ![Preset(r)] = Replaced(@, r)]
            /\ \E last \in {Done(r), Raised(r)} :   \* the answer may be lost
                refresh' = [o \in Refreshers |->
                    IF o = r THEN last
                    ELSE IF o \in Rivals(r, {"lock"})
                         THEN [refresh[o] EXCEPT !.victims = @ \ refresh[r].victims]
                         ELSE refresh[o]]
    /\ UNCHANGED <<process, versions, started>>

\* A statement or the connection fails.
StoreFails(r) ==
    /\ refresh[r].pc \in {"discover", "delete", "lock", "insert", "date", "commit"}
    /\ refresh' = [refresh EXCEPT ![r] = Raised(r)]
    /\ UNCHANGED <<process, versions, started, catalog>>

-----------------------------------------------------------------------------
LifeInit ==
    /\ process = [p \in Process |-> Stopped]
    /\ versions = {}
    /\ started = 0
    /\ refresh = [r \in Refreshers |-> Resting]
    /\ catalog = [n \in Configured |-> [rows |-> {}, dated |-> FALSE]]

LifeNext ==
    \/ \E p \in Process :
        \/ \E release \in Release : Start(p, release)
        \/ Sync(p) \/ Commit(p) \/ Stop(p)
    \/ \E r \in Refreshers :
        \/ \E i \in DOMAIN Profiles : AskRefresh(r, i)
        \/ Wake(r) \/ TryDiscovery(r) \/ SeeRows(r) \/ LockRows(r)
        \/ InsertRows(r) \/ ReadDate(r) \/ Replace(r) \/ StoreFails(r)

LifeSpec == LifeInit /\ [][LifeNext]_lifeVars

-----------------------------------------------------------------------------
(* Properties *)

\* The rows that a process serves with (sync_model_input_versions, then
\* create_run) are committed, carry the texts of its release, and are the same
\* rows for every process that runs the same text, however the starts
\* interleave: observations of one text never name two versions.
VersionsAgree ==
    /\ \A p \in Process : process[p].pc = "up" =>
        /\ process[p].found \subseteq versions
        /\ \A i \in DOMAIN Inputs :
            \E row \in process[p].found :
                row.name = Inputs[i] /\ row.text = process[p].release[Inputs[i]]
    /\ \A row, other \in versions \cup UNION {process[p].found : p \in Process} :
        SameContent(row, other) => row = other

\* A preset that once had a list keeps one (refresh_preset, replace): no
\* failed, empty, cut off or concurrent refresh ever leaves it without, and a
\* list is there exactly when it is dated: an empty answer is a failure
\* (model_discovery.py:235-236) and never stored, although db/app.py:168-169 keeps
\* the date apart to express a successful empty list.
LastGoodKept ==
    /\ [][\A n \in Configured : catalog[n].rows # {} => catalog'[n].rows # {}]_lifeVars
    /\ [](\A n \in Configured : catalog[n].dated <=> catalog[n].rows # {})

\* periodic_model_refresh: refresh at the start, then every 24 hours, until the
\* shutdown cancels the task.
RefreshGoesOn ==
    \A p \in Process : process[p].pc = "up" => refresh[<<p, "task">>].pc # "dead"
=============================================================================
