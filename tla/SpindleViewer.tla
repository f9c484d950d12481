---------------------------- MODULE SpindleViewer ----------------------------
(***************************************************************************)
(* The pipelines tab of the viewer (spindle-viewer-spa/main.js with        *)
(* tangled.js): a user navigates between repositories and runs while loads *)
(* of earlier choices are still under way, the spindle's event feed fills  *)
(* the list of runs, and the list is kept in localStorage per repository.  *)
(* A run is told by its repository, its key (pipeline and workflow) and    *)
(* its status; a route is a repository and a run of it, or NoRun.          *)
(***************************************************************************)
EXTENDS Naturals, SequencesExt

CONSTANTS
    Repositories, \* what the user looks up
    SpindleOf,    \* the spindle of a repository, or NoSpindle
    RunKeys,      \* pipeline/workflow
    RunStatuses,  \* the states a run is reported in
    NoSpindle, NoRun, NoRepo,
    MaxNavs       \* bound on the user's steps

VARIABLES
    view,        \* currentView: its repository, or NoRepo
    loads,       \* loadRepo calls before their answer: [nav, route]
    feeds,       \* sockets to /events: [spindle, up]
    feed,        \* activeEventsSocket, 0 is undefined
    logs,        \* sockets to /logs: [repo, key, up]
    log,         \* activeSocket, 0 is undefined
    listedRuns,        \* pipelineRuns
    stored,      \* localStorage
    hash, suppress, hashEvents,   \* location.hash, suppressNextHashChange, events due
    signedIn, trigger,            \* the OAuth session; the trigger under way
    navs

streamOfPage == <<feeds, feed, logs, log>>
viewerVars == <<view, loads, feeds, feed, logs, log, listedRuns, stored, hash, suppress, hashEvents,
                signedIn, trigger, navs>>

ViewerAssumption ==
    /\ SpindleOf \in [Repositories -> STRING]
    /\ MaxNavs \in Nat
    /\ NoRepo \notin Repositories /\ NoRun \notin RunKeys

ASSUME ViewerAssumption

\* pipelineRunKey: the repository is no part of it.
Run == [repo : Repositories, key : RunKeys, status : RunStatuses]
Route == [repo : Repositories, key : RunKeys \cup {NoRun}]

\* upsertPipelineRun: a known key has its status refreshed in place.
UpsertPipelineRun(list, run) ==
    LET known == {r \in list : r.key = run.key}
    IN  IF known = {} THEN list \cup {run}
        ELSE (list \ known) \cup {[r EXCEPT !.status = run.status] : r \in known}

ViewerInit ==
    /\ view = NoRepo /\ loads = {} /\ listedRuns = {} /\ stored = [r \in Repositories |-> {}]
    /\ feeds = <<>> /\ feed = 0 /\ logs = <<>> /\ log = 0
    /\ hash = [repo |-> NoRepo, key |-> NoRun] /\ suppress = FALSE /\ hashEvents = 0
    /\ signedIn \in BOOLEAN /\ trigger = NoRepo /\ navs = 0

Closed(sockets, active) ==
    IF active = 0 THEN sockets ELSE [sockets EXCEPT ![active].up = FALSE]

-----------------------------------------------------------------------------
(* Loading a repository                                                    *)

\* loadRepo up to its first await: both streams are closed.
LoadRepo(route) ==
    /\ loads' = loads \cup {[nav |-> navs, route |-> route]}
    /\ feeds' = Closed(feeds, feed) /\ feed' = 0
    /\ logs' = Closed(logs, log) /\ log' = 0

\* openLogStream for the repository of the view.
OpenLogStream(repo, key) ==
    LET rest == Closed(logs, log) IN
    \/ /\ SpindleOf[repo] # NoSpindle
       /\ logs' = Append(rest, [repo |-> repo, key |-> key, up |-> TRUE])
       /\ log' = Len(logs) + 1
    \/ logs' = rest /\ log' = 0     \* no spindle, or no socket

\* Mutation: the stream of the view before is left open.
StartEventsStreamKeeps(repo) ==
    IF SpindleOf[repo] = NoSpindle THEN feeds' = Closed(feeds, feed) /\ feed' = 0 /\ listedRuns' = listedRuns
    ELSE /\ feeds' = Append(feeds, [spindle |-> SpindleOf[repo], up |-> TRUE])
         /\ feed' = Len(feeds) + 1
         /\ listedRuns' = stored[repo]

\* Mutation: the list of the view before is kept.
StartEventsStreamUnloaded(repo) ==
    LET rest == Closed(feeds, feed) IN
    IF SpindleOf[repo] = NoSpindle THEN feeds' = rest /\ feed' = 0 /\ listedRuns' = listedRuns
    ELSE /\ feeds' = Append(rest, [spindle |-> SpindleOf[repo], up |-> TRUE])
         /\ feed' = Len(feeds) + 1
         /\ listedRuns' = listedRuns

StartEventsStream(repo) ==
    LET rest == Closed(feeds, feed) IN
    IF SpindleOf[repo] = NoSpindle THEN feeds' = rest /\ feed' = 0 /\ listedRuns' = listedRuns
    ELSE /\ listedRuns' = stored[repo]
         /\ \/ /\ feeds' = Append(rest, [spindle |-> SpindleOf[repo], up |-> TRUE])
               /\ feed' = Len(feeds) + 1
            \/ feeds' = rest /\ feed' = 0     \* the socket cannot be made

\* The repository's record is found: the view changes, the feed is opened and a
\* deep link continues to the log.
RepoLoaded(l) ==
    /\ loads' = loads \ {l}
    /\ view' = l.route.repo
    /\ StartEventsStream(l.route.repo)
    /\ IF l.route.key = NoRun THEN UNCHANGED <<logs, log>> ELSE OpenLogStream(l.route.repo, l.route.key)
    /\ UNCHANGED <<stored, hash, suppress, hashEvents, signedIn, trigger, navs>>

\* An unknown owner or repository: the view of whoever was last is emptied.
RepoNotLoaded(l) ==
    /\ loads' = loads \ {l}
    /\ view' = NoRepo
    /\ UNCHANGED <<streamOfPage, listedRuns, stored, hash, suppress, hashEvents, signedIn, trigger, navs>>

-----------------------------------------------------------------------------
(* Navigation                                                              *)

UserStep == navs < MaxNavs /\ navs' = navs + 1

\* setHash
SetHash(route) ==
    IF hash = route THEN UNCHANGED <<hash, suppress, hashEvents>>
    ELSE hash' = route /\ suppress' = TRUE /\ hashEvents' = hashEvents + 1

\* The lookup form.
NavigateToRepo(repo) ==
    LET route == [repo |-> repo, key |-> NoRun] IN
    /\ UserStep
    /\ SetHash(route)
    /\ LoadRepo(route)
    /\ UNCHANGED <<view, listedRuns, stored, signedIn, trigger>>

\* The logs form, or a run of the list.
NavigateToLogs(key) ==
    /\ UserStep
    /\ view # NoRepo
    /\ SetHash([repo |-> view, key |-> key])
    /\ OpenLogStream(view, key)
    /\ UNCHANGED <<view, loads, feeds, feed, listedRuns, stored, signedIn, trigger>>

\* The user edits the address or goes back.
UserSetsHash(route) ==
    /\ UserStep
    /\ hash # route
    /\ hash' = route /\ hashEvents' = hashEvents + 1
    /\ UNCHANGED <<view, loads, streamOfPage, listedRuns, stored, suppress, signedIn, trigger>>

HandleHashChange ==
    /\ hashEvents > 0
    /\ hashEvents' = hashEvents - 1
    /\ suppress' = FALSE
    /\ IF suppress THEN UNCHANGED <<loads, streamOfPage>> ELSE LoadRepo(hash)
    /\ UNCHANGED <<view, listedRuns, stored, hash, signedIn, trigger, navs>>

LogsDisconnect ==
    /\ log # 0
    /\ logs' = Closed(logs, log) /\ log' = 0
    /\ UNCHANGED <<view, loads, feeds, feed, listedRuns, stored, hash, suppress, hashEvents, signedIn, trigger, navs>>

\* Signing in or out reloads the page: only the hash and localStorage stay, and
\* the route is followed again.
Reload ==
    /\ UserStep
    /\ signedIn' = ~signedIn
    /\ view' = NoRepo /\ listedRuns' = {} /\ feeds' = <<>> /\ feed' = 0 /\ logs' = <<>> /\ log' = 0
    /\ loads' = IF hash.repo = NoRepo THEN {} ELSE {[nav |-> navs, route |-> hash]}
    /\ hashEvents' = 0 /\ suppress' = FALSE /\ trigger' = NoRepo
    /\ UNCHANGED <<stored, hash>>

-----------------------------------------------------------------------------
(* Streams                                                                 *)

\* handlePipelineStatusEnvelope: the feed carries the runs of every repository
\* its spindle serves.
PipelineStatus(s, run) ==
    /\ feeds[s].up /\ feeds[s].spindle = SpindleOf[run.repo]
    /\ listedRuns' = UpsertPipelineRun(listedRuns, run)
    /\ stored' = IF view = NoRepo THEN stored ELSE [stored EXCEPT ![view] = listedRuns']
    /\ UNCHANGED <<view, loads, streamOfPage, hash, suppress, hashEvents, signedIn, trigger, navs>>

FeedCloses(s) ==
    /\ feeds[s].up
    /\ feeds' = [feeds EXCEPT ![s].up = FALSE]
    /\ feed' = IF feed = s THEN 0 ELSE feed
    /\ UNCHANGED <<view, loads, logs, log, listedRuns, stored, hash, suppress, hashEvents, signedIn, trigger, navs>>

LogCloses(s) ==
    /\ logs[s].up
    /\ logs' = [logs EXCEPT ![s].up = FALSE]
    /\ log' = IF log = s THEN 0 ELSE log
    /\ UNCHANGED <<view, loads, feeds, feed, listedRuns, stored, hash, suppress, hashEvents, signedIn, trigger, navs>>

-----------------------------------------------------------------------------
(* triggerPipeline                                                         *)

TriggerPipeline ==
    /\ UserStep
    /\ signedIn /\ view # NoRepo /\ SpindleOf[view] # NoSpindle
    /\ trigger' = view
    /\ UNCHANGED <<view, loads, streamOfPage, listedRuns, stored, hash, suppress, hashEvents, signedIn>>

\* The call is answered, or fails at the knot, the PDS or the spindle.
TriggerAnswered ==
    /\ trigger # NoRepo
    /\ trigger' = NoRepo
    /\ UNCHANGED <<view, loads, streamOfPage, listedRuns, stored, hash, suppress, hashEvents, signedIn, navs>>

ViewerNext ==
    \/ \E l \in loads : RepoLoaded(l) \/ RepoNotLoaded(l)
    \/ \E r \in Repositories : NavigateToRepo(r)
    \/ \E k \in RunKeys : NavigateToLogs(k)
    \/ \E r \in Route : UserSetsHash(r)
    \/ HandleHashChange \/ LogsDisconnect \/ Reload
    \/ \E s \in DOMAIN feeds : FeedCloses(s) \/ \E r \in Run : PipelineStatus(s, r)
    \/ \E s \in DOMAIN logs : LogCloses(s)
    \/ TriggerPipeline \/ TriggerAnswered

ViewerSpec == ViewerInit /\ [][ViewerNext]_viewerVars

-----------------------------------------------------------------------------
(* Properties                                                              *)

\* However loads overlap and whichever answers last, the only streams that are
\* up are the ones the page can still close: none is forgotten by the load that
\* replaces it.
NoForgottenStream ==
    /\ \A s \in DOMAIN feeds : feeds[s].up <=> s = feed
    /\ \A s \in DOMAIN logs : logs[s].up <=> s = log

\* While a repository is viewed and its feed is up, the list on the page is the
\* one a reload would find in localStorage.
ListedRunsAreStored == view # NoRepo /\ feed # 0 => listedRuns = stored[view]

\* However loads, navigations and events overlap, the viewer holds no stream it
\* has forgotten, and the runs it lists are those it has stored.
ViewerIsSound == NoForgottenStream /\ ListedRunsAreStored
=============================================================================
