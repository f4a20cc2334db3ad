--------------------------- MODULE SessionClient ---------------------------
(***************************************************************************)
(* A browser tab: the session page (useAgentRun) and the session list      *)
(* (session-list-store), and the requests they have under way.  A request  *)
(* reaches the server at any time after it was sent, and its answer the    *)
(* tab at any time after that; requests overtake each other.               *)
(***************************************************************************)
EXTENDS Naturals, FiniteSets

CONSTANTS
    Chat,
    Title,        \* what the visitor renames to
    Nothing,
    MaxCommands,  \* bound: renames and deletions of the tab
    MaxRefreshes  \* bound: refreshes of a session under way

VARIABLES
    server,    \* each session there: none, live or deleted, its title, and
               \* whether a message of the tab made it (history)
    rows,      \* the list: title of each session in it
    loaded,    \* whether the list was loaded
    versions,  \* localWriteVersions
    pending,   \* pendingRenames
    renamed,   \* locallyRenamedSessions
    view,      \* the page: its session, and what it knows of it
    calls,     \* requests under way
    commands,  \* renames and deletions so far
    manual,    \* history: the last undisturbed rename that was confirmed to the tab
    asked      \* history: requests for a title, by session

clientVars == <<server, rows, loaded, versions, pending, renamed, view, calls, commands, manual, asked>>
listVars == <<rows, loaded, versions, pending, renamed>>
countVars == <<commands, manual, asked>>

Absent == "absent"       \* no row, no session
Untitled == "untitled"   \* title: null
Fallback == "fallback"
Generated == "generated"
Present == "present"
Error == "error"

ASSUME MarksAreNoTitles == Title \cap {Absent, Error} = {}

Landing == [session |-> Nothing, loaded |-> FALSE, eligible |-> FALSE, attempted |-> FALSE,
            streaming |-> FALSE]

\* A request is sent, then answered.  The version of a refresh is that of its
\* sending; was is wasRenamed of a rename and active of a deletion; heard says
\* whether the tab still listens; alone (history) says that nothing disturbed a
\* rename since it was sent, that a deletion was sent when no other was under way.
Request(kind, s, value) ==
    [kind |-> kind, session |-> s, at |-> "sent", value |-> value, version |-> 0,
     was |-> FALSE, heard |-> TRUE, alone |-> TRUE, list |-> [x \in Chat |-> Absent]]

Of(kind, s) == {c \in calls : c.kind = kind /\ c.session = s}

Read(s) == [Request("refresh", s, Nothing) EXCEPT !.version = versions[s]]

\* Bound: of the refreshes of a session the first MaxRefreshes count.
Reads(s) == IF Cardinality(Of("refresh", s)) < MaxRefreshes THEN {Read(s)} ELSE {}

\* AbortController.abort: what has not reached the server still may, which matters
\* of what changes something there.
Unheard(kinds) ==
    {c \in calls : c.kind \notin kinds \/ ~c.heard}
    \cup {[c EXCEPT !.heard = FALSE] : c \in {x \in calls :
                                             x.kind \in kinds \ {"detail"} /\ x.at = "sent"}}

\* A rename is disturbed when, while it is under way, another one of its session
\* is sent, or its row goes.
Disturbed(some, sessions) ==
    {IF c.kind = "rename" /\ c.session \in sessions THEN [c EXCEPT !.alone = FALSE] ELSE c : c \in some}

-----------------------------------------------------------------------------
(* The server, as the tab sees it *)

Live(s) == server[s].at = "live"

TitleOf(s) == IF Live(s) THEN server[s].title ELSE Absent

Answered(c, value) ==
    calls' = (calls \ {c}) \cup
             (IF c.heard THEN {[c EXCEPT !.at = "answered", !.value = value]} ELSE {})

Handle(c) ==
    LET s == c.session IN
    \/ /\ c.kind = "detail"
       /\ Answered(c, IF Live(s) THEN Present ELSE Absent)
       /\ UNCHANGED server
    \/ /\ c.kind = "refresh"
       /\ Answered(c, IF Live(s) THEN server[s].title ELSE Error)
       /\ UNCHANGED server
    \/ /\ c.kind = "list"
       /\ calls' = (calls \ {c}) \cup
            {[c EXCEPT !.at = "answered", !.list = [x \in Chat |-> TitleOf(x)]]}
       /\ UNCHANGED server
    \/ /\ c.kind = "run" /\ server[s].at # "deleted"
       /\ server' = [server EXCEPT ![s] = IF @.at = "live" THEN @
                                            ELSE [@ EXCEPT !.at = "live", !.made = TRUE]]
       /\ Answered(c, "accepted")
    \/ /\ c.kind = "title" /\ Live(s)
       /\ server' \in {server, [server EXCEPT ![s].title = IF @ = Fallback THEN Generated ELSE @]}
       /\ \E value \in {server'[s].title, Error} : Answered(c, value)
    \/ /\ c.kind = "rename" /\ Live(s)
       /\ server' = [server EXCEPT ![s].title = c.value]
       /\ \E value \in {c.value, Error} : Answered(c, value)
    \/ /\ c.kind = "delete"
       /\ server' = [server EXCEPT ![s].at = "deleted"]
       /\ \E value \in {Absent, Error} : Answered(c, value)

\* A request may fail before it changes anything.
Serve(c) ==
    /\ c.at = "sent"
    /\ Handle(c) \/ (Answered(c, Error) /\ UNCHANGED server)
    /\ UNCHANGED <<listVars, view, countVars>>

-----------------------------------------------------------------------------
(* The page *)

\* The effect of a new sessionId.
OpenPage(s) ==
    /\ view.session # s
    /\ view' = [Landing EXCEPT !.session = s]
    /\ calls' = Unheard({"run", "title", "detail"}) \cup {Request("detail", s, Nothing)}
    /\ UNCHANGED <<server, listVars, countVars>>

\* The page is left for another one.
Leave ==
    /\ view.session # Nothing
    /\ view' = Landing
    /\ calls' = Unheard({"run", "title", "detail"})
    /\ UNCHANGED <<server, listVars, countVars>>

\* Slip: every page may ask for a title.
AnyEligible(answer) == TRUE

Eligible(answer) == answer = Absent

\* The detail arrives; when it fails the page stays as it is.
Detail(c) ==
    /\ view' = IF c.value = Error THEN view
               ELSE [view EXCEPT !.loaded = TRUE, !.eligible = Eligible(c.value)]
    /\ calls' = calls \ {c}
    /\ UNCHANGED <<server, listVars, countVars>>

\* sendMessage, retryTurn, editMessage: executeSend, with touchDraft.
SendMessage ==
    /\ view.loaded /\ ~view.streaming
    /\ LET s == view.session
       IN /\ rows' = [rows EXCEPT ![s] = IF @ = Absent THEN Untitled ELSE @]
          /\ calls' = calls \cup {Request("run", s, Nothing)}
    /\ view' = [view EXCEPT !.streaming = TRUE]
    /\ UNCHANGED <<server, loaded, versions, pending, renamed, countVars>>

\* RUN_STARTED: startTitleGeneration.
RunStarted(c) ==
    /\ c.value = "accepted"
    /\ LET asks == view.eligible /\ ~view.attempted
           title == IF asks THEN {Request("title", c.session, Nothing)} ELSE {}
       IN /\ view' = [view EXCEPT !.attempted = @ \/ asks]
          /\ asked' = [asked EXCEPT ![c.session] = IF asks THEN @ + 1 ELSE @]
          /\ calls' = (calls \ {c}) \cup {[c EXCEPT !.value = "started"]} \cup title
    /\ UNCHANGED <<server, listVars, commands, manual>>

\* The stream ends, fails or is stopped: refreshSession.
RunEnds(c) ==
    /\ c.value \in {"started", Error}
    /\ view' = [view EXCEPT !.streaming = FALSE]
    /\ calls' = (calls \ {c}) \cup Reads(c.session)
    /\ UNCHANGED <<server, listVars, countVars>>

\* stopStreaming before the server answered.
Stop ==
    /\ view.streaming
    /\ \E c \in calls : c.kind = "run" /\ c.heard /\ c.at = "sent"
    /\ view' = [view EXCEPT !.streaming = FALSE]
    /\ calls' = Unheard({"run"}) \cup Reads(view.session)
    /\ UNCHANGED <<server, listVars, countVars>>

-----------------------------------------------------------------------------
(* The list *)

\* loadInitial.
LoadInitial ==
    /\ ~loaded
    /\ {c \in calls : c.kind = "list"} = {}
    /\ calls' = calls \cup {Request("list", Nothing, Nothing)}
    /\ UNCHANGED <<server, listVars, view, countVars>>

\* The first page replaces whatever is in the list by then.
Listed(c) ==
    /\ loaded' = TRUE
    /\ IF c.value = Error
       THEN calls' = calls \ {c} /\ UNCHANGED <<rows, manual>>
       ELSE /\ rows' = c.list
            /\ manual' = [s \in Chat |-> Nothing]
            /\ calls' = Disturbed(calls \ {c}, Chat)
    /\ UNCHANGED <<server, versions, pending, renamed, view, commands, asked>>

Written(s) == versions' = [versions EXCEPT ![s] = @ + 1]

\* Slip: the answer is the title, whatever the visitor has renamed.
TitleAnyway(s, title) == [rows EXCEPT ![s] = IF @ = Absent THEN @ ELSE title]

\* Slip: the answer makes the row it does not find.
TitleUpserted(s, title) == [rows EXCEPT ![s] = IF s \in renamed THEN @ ELSE title]

\* applyTitle.
ApplyTitle(s, title) == [rows EXCEPT ![s] = IF @ = Absent \/ s \in renamed THEN @ ELSE title]

TitleAnswered(c) ==
    /\ IF c.value = Error THEN UNCHANGED <<rows, versions>>
       ELSE /\ rows' = ApplyTitle(c.session, c.value)
            /\ Written(c.session)
    /\ calls' = calls \ {c}
    /\ UNCHANGED <<server, loaded, pending, renamed, view, countVars>>

\* refreshSession: what the visitor wrote meanwhile, or ever renamed, stays.
RefreshAnswered(c) ==
    LET s == c.session
        changed == s \in pending \/ c.version # versions[s]
    IN /\ rows' = IF c.value \in {Absent, Error} \/ rows[s] = Absent \/ changed \/ s \in renamed
                  THEN rows ELSE [rows EXCEPT ![s] = c.value]
       /\ calls' = calls \ {c}
       /\ UNCHANGED <<server, loaded, versions, pending, renamed, view, countVars>>

\* rename: pending, protected and a local write from the start.
Rename(s, title) ==
    /\ rows[s] \notin {Absent, title}
    /\ commands < MaxCommands
    /\ commands' = commands + 1
    /\ pending' = pending \cup {s}
    /\ renamed' = renamed \cup {s}
    /\ Written(s)
    /\ calls' = Disturbed(calls, {s}) \cup
                {[Request("rename", s, title) EXCEPT !.was = s \in renamed, !.alone = Of("rename", s) = {}]}
    /\ UNCHANGED <<server, rows, loaded, view, manual, asked>>

\* A confirmed rename makes the row if there is none any more.
Confirmed(s, title) == [rows EXCEPT ![s] = title]

\* A failed rename takes the protection back if it was the one that gave it, and
\* asks the server.
RenameAnswered(c) ==
    LET s == c.session IN
    /\ pending' = pending \ {s}
    /\ IF c.value = Error
       THEN /\ renamed' = IF c.was THEN renamed ELSE renamed \ {s}
            /\ calls' = (calls \ {c}) \cup Reads(s)
            /\ UNCHANGED <<rows, manual>>
       ELSE /\ rows' = Confirmed(s, c.value)
            /\ manual' = [manual EXCEPT ![s] = IF c.alone THEN c.value ELSE Nothing]
            /\ calls' = calls \ {c}
            /\ UNCHANGED renamed
    /\ UNCHANGED <<server, loaded, versions, view, commands, asked>>

\* handleDelete: whether the page shows the session is known from the click.
RemoveSession(s) ==
    /\ rows[s] # Absent
    /\ commands < MaxCommands
    /\ commands' = commands + 1
    /\ calls' = calls \cup {[Request("delete", s, Nothing) EXCEPT
                               !.was = view.session = s, !.alone = Of("delete", s) = {}]}
    /\ UNCHANGED <<server, listVars, view, manual, asked>>

\* remove, and SessionListItem leaves whatever page is shown by then.
Removed(c) ==
    LET s == c.session IN
    IF c.value = Error
    THEN calls' = calls \ {c} /\ UNCHANGED <<server, listVars, view, countVars>>
    ELSE /\ rows' = [rows EXCEPT ![s] = Absent]
         /\ pending' = pending \ {s}
         /\ renamed' = renamed \ {s}
         /\ versions' = [versions EXCEPT ![s] = 0]
         /\ manual' = [manual EXCEPT ![s] = Nothing]
         /\ view' = IF c.was THEN Landing ELSE view
         /\ calls' = Disturbed((IF c.was THEN Unheard({"run", "title", "detail"}) ELSE calls) \ {c}, {s})
         /\ UNCHANGED <<server, loaded, commands, asked>>

-----------------------------------------------------------------------------
ClientInit ==
    /\ server \in [Chat -> {[at |-> at, title |-> Fallback, made |-> FALSE] : at \in {"none", "live"}}]
    /\ rows = [s \in Chat |-> Absent]
    /\ loaded = FALSE
    /\ versions = [s \in Chat |-> 0]
    /\ pending = {} /\ renamed = {} /\ calls = {}
    /\ view = Landing
    /\ commands = 0
    /\ manual = [s \in Chat |-> Nothing]
    /\ asked = [s \in Chat |-> 0]

Arrive(c) ==
    /\ c.at = "answered"
    /\ \/ c.kind = "detail" /\ Detail(c)
       \/ c.kind = "run" /\ (RunStarted(c) \/ RunEnds(c))
       \/ c.kind = "list" /\ Listed(c)
       \/ c.kind = "title" /\ TitleAnswered(c)
       \/ c.kind = "refresh" /\ RefreshAnswered(c)
       \/ c.kind = "rename" /\ RenameAnswered(c)
       \/ c.kind = "delete" /\ Removed(c)

ClientNext ==
    \/ \E s \in Chat :
        \/ OpenPage(s) \/ RemoveSession(s)
        \/ \E title \in Title : Rename(s, title)
    \/ Leave \/ SendMessage \/ Stop \/ LoadInitial
    \/ \E c \in calls : Serve(c) \/ Arrive(c)

ClientSpec == ClientInit /\ [][ClientNext]_clientVars

-----------------------------------------------------------------------------
(* Properties *)

\* A rename that the server confirmed to the tab is what its row says until the
\* next one is confirmed: no title of the model and no refresh, sent before or
\* after it, overwrites it, and later renames may fail as they like
\* (session-list-store.ts:14-18, useAgentRun.ts:122).  It ends with the row's
\* removal and with the first page of the list.  Of renames under way together
\* none is promised: when the first of them fails, it takes the protection of the
\* others away (192-194).
ManualStays ==
    \A s \in Chat : manual[s] # Nothing => rows[s] = manual[s]

\* A session enters the list with the loaded list or with a message of the
\* visitor, and no detail, title or refresh brings back one that was removed
\* (useAgentRun.ts:123).  A rename does: one that was under way when the row went
\* and is confirmed afterwards makes the row anew (177-190).
RemovedStays ==
    [][\A s \in Chat :
        rows[s] = Absent /\ rows'[s] # Absent =>
            \/ loaded' /\ ~loaded
            \/ view.session = s /\ view'.streaming /\ ~view.streaming
            \/ \E c \in Of("rename", s) \ calls' : c.at = "answered" /\ c.value # Error /\ ~c.alone]_clientVars

\* However often the page is left, reopened, stopped and used again, the tab
\* asks for the title of a session at most once, and only for one that a message
\* of its own made (useAgentRun.ts:76-80).  Other tabs make no sessions here.
TitleOnce ==
    \A s \in Chat : asked[s] <= 1 /\ (asked[s] > 0 => server[s].made)
=============================================================================
