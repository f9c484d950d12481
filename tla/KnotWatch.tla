----------------------------- MODULE KnotWatch -----------------------------
(***************************************************************************)
(* How pipeline events of a knot reach the spindle (spindle/main.ts):      *)
(* watchKnot follows the event stream of the knot from a cursor it keeps   *)
(* on disk, and starts a pipeline for events of repositories that opted    *)
(* into this spindle.  Opting in is learnt from discovery or Jetstream,    *)
(* cached in repoDidToSpindle and written to a durable record.  The        *)
(* process may crash at any step, and a write of the database file may     *)
(* fail, which saveDB only logs.  Event n of the knot is created at n.     *)
(***************************************************************************)
EXTENDS Naturals, FiniteSets

CONSTANTS
    Repos,
    MaxEvents,        \* bound on the events of the knot
    MaxKnotFaults     \* bound on closed sockets, crashes and failing saves

ASSUME KnotAssumption ==
    /\ MaxEvents \in Nat
    /\ MaxKnotFaults \in Nat

VARIABLES
    repoOf,      \* repository of each event published so far
    optedIn,     \* repositories whose sh.tangled.repo record names this spindle
    repoCache,   \* repoDidToSpindle
    repoRecord,  \* the durable records of SPINDLE_REPOS_NSID
    putting,     \* recordRepoSpindle calls that have yet to write the record
    reposAgent,  \* spindleReposAgent: undefined, null or logged in
    pdsUp,       \* does the PDS of the spindle answer (fixed per behaviour)?
    knotCursor,  \* db.cursors[knot] in memory, or None
    knotSaved,   \* the same in the file at DB_PATH
    knotPos,     \* last event sent on the open socket, or None
    lookups,     \* messages that await getRepoSpindle
    triggered,   \* history: how often each event started a pipeline
    crashedIn,   \* history: events whose handler was cut off by a crash
    skipped,     \* history: events that a seeded cursor passed over
    forgotten,   \* history: how often a restart lost that the cursor was at or past an event
    knotFaults

knotVars == <<repoOf, optedIn, repoCache, repoRecord, putting, reposAgent, pdsUp, knotCursor,
              knotSaved, knotPos, lookups, triggered, crashedIn, skipped, forgotten, knotFaults>>
streamVars == <<knotCursor, knotSaved, knotPos, skipped, forgotten>>
ownerVars  == <<optedIn, repoRecord, putting, pdsUp>>

Events    == 1..MaxEvents
Published == DOMAIN repoOf
None      == MaxEvents + 1

KnotInit ==
    /\ repoOf = <<>>
    /\ optedIn = {} /\ repoCache = {} /\ repoRecord = {} /\ putting = {}
    /\ reposAgent = "undefined"
    /\ pdsUp \in BOOLEAN
    /\ knotCursor = None /\ knotSaved = None /\ knotPos = None /\ lookups = {}
    /\ triggered = [e \in Events |-> 0]
    /\ crashedIn = {} /\ skipped = {} /\ knotFaults = 0
    /\ forgotten = [e \in Events |-> 0]

-----------------------------------------------------------------------------
(* The knot and the owners of repositories                                 *)

Publish(r) ==
    /\ Cardinality(Published) < MaxEvents
    /\ repoOf' = [e \in 1..(Cardinality(Published) + 1) |->
                     IF e \in Published THEN repoOf[e] ELSE r]
    /\ UNCHANGED <<ownerVars, streamVars, repoCache, reposAgent, lookups, triggered, crashedIn,
                   knotFaults>>

OptIn(r) ==
    /\ r \notin optedIn
    /\ optedIn' = optedIn \cup {r}
    /\ UNCHANGED <<repoOf, repoCache, repoRecord, putting, reposAgent, pdsUp, streamVars,
                   lookups, triggered, crashedIn, knotFaults>>

-----------------------------------------------------------------------------
(* Who may run pipelines here                                              *)

\* getSpindleReposAgent: the outcome of the first login is kept for good,
\* also when it failed.
Agent(a) ==
    /\ a = CASE reposAgent # "undefined" -> reposAgent
             [] pdsUp -> "agent"
             [] OTHER -> "null"
    /\ reposAgent' = a

\* recordRepoSpindle caches the repository first and writes the durable record
\* later.
Learn(r) ==
    /\ repoCache' = repoCache \cup {r}
    /\ putting' = putting \cup {r}
    /\ UNCHANGED <<repoOf, optedIn, repoRecord, reposAgent, pdsUp, streamVars,
                   lookups, triggered, crashedIn, knotFaults>>

\* The poll of the owner's sh.tangled.repo records, at the start and every five
\* minutes, ...
DiscoverKnots(r) == r \in optedIn /\ Learn(r)

\* ... and the commit of such a record seen on Jetstream.
JetstreamCommit(r) == r \in optedIn /\ Learn(r)

\* The rest of recordRepoSpindle.
RecordRepo(r) ==
    /\ r \in putting
    /\ putting' = putting \ {r}
    /\ \E a \in {"null", "agent"} :
           /\ Agent(a)
           /\ repoRecord' = IF a = "agent" THEN repoRecord \cup {r} ELSE repoRecord
    /\ UNCHANGED <<repoOf, optedIn, repoCache, pdsUp, streamVars, lookups,
                   triggered, crashedIn, knotFaults>>

-----------------------------------------------------------------------------
(* The event stream                                                        *)

\* saveDB with cursor c: writeTextFileSync may fail, and leave the file as it
\* was or truncated, which loadDB reads as an empty one.
SaveDB(c) ==
    \/ knotSaved' = c /\ UNCHANGED knotFaults
    \/ /\ knotFaults < MaxKnotFaults /\ knotFaults' = knotFaults + 1
       /\ knotSaved' \in {knotSaved, None}

\* Mutation: the cursor is seeded on every connect.
KnotConnectSeedsAlways ==
    /\ knotPos = None
    /\ knotCursor' = Cardinality(Published) /\ SaveDB(knotCursor')
    /\ skipped' = IF knotCursor = None THEN skipped \cup Published ELSE skipped
    /\ knotPos' = knotCursor'
    /\ UNCHANGED <<repoOf, ownerVars, repoCache, reposAgent, lookups, triggered, crashedIn,
                   forgotten>>

\* connect: without a cursor it skips the history of the knot.
KnotConnect ==
    /\ knotPos = None
    /\ IF knotCursor = None
       THEN /\ knotCursor' = Cardinality(Published) /\ SaveDB(knotCursor')
            /\ skipped' = skipped \cup Published
       ELSE UNCHANGED <<knotCursor, knotSaved, skipped, knotFaults>>
    /\ knotPos' = knotCursor'
    /\ UNCHANGED <<repoOf, ownerVars, repoCache, reposAgent, lookups, triggered, crashedIn,
                   forgotten>>

\* Mutation: the cursor is not advanced.
KnotMessageKeepsCursor ==
    /\ knotPos + 1 \in Published
    /\ knotPos' = knotPos + 1
    /\ lookups' = lookups \cup {knotPos + 1}
    /\ UNCHANGED <<repoOf, ownerVars, repoCache, reposAgent, knotCursor, knotSaved, triggered,
                   crashedIn, skipped, forgotten, knotFaults>>

\* onmessage: setCursor advances the cursor and saves it before anything else;
\* then the handler awaits getRepoSpindle.
KnotMessage ==
    /\ knotPos + 1 \in Published
    /\ knotPos' = knotPos + 1
    /\ IF knotPos + 1 > knotCursor
       THEN knotCursor' = knotPos + 1 /\ SaveDB(knotCursor')
       ELSE UNCHANGED <<knotCursor, knotSaved, knotFaults>>
    /\ lookups' = lookups \cup {knotPos + 1}
    /\ UNCHANGED <<repoOf, ownerVars, repoCache, reposAgent, triggered, crashedIn, skipped,
                   forgotten>>

\* submitWorkflows saves its runs in the same file, the cursor with them.
SaveRuns ==
    /\ SaveDB(knotCursor)
    /\ UNCHANGED <<repoOf, ownerVars, repoCache, reposAgent, knotCursor, knotPos, lookups,
                   triggered, crashedIn, skipped, forgotten>>

\* Mutation: a cache miss is final.
GetRepoSpindleCacheOnly(r, known) == known = (r \in repoCache) /\ UNCHANGED reposAgent

\* getRepoSpindle: the cache, then the durable record.
GetRepoSpindle(r, known) ==
    IF r \in repoCache THEN known = TRUE /\ UNCHANGED reposAgent
    ELSE \E a \in {"null", "agent"} : Agent(a) /\ known = (a = "agent" /\ r \in repoRecord)

\* The rest of onmessage: triggerWorkflows for a repository that opted in.
KnotTrigger(e) ==
    /\ e \in lookups
    /\ lookups' = lookups \ {e}
    /\ \E known \in BOOLEAN :
           /\ GetRepoSpindle(repoOf[e], known)
           /\ repoCache' = IF known THEN repoCache \cup {repoOf[e]} ELSE repoCache
           /\ triggered' = IF known THEN [triggered EXCEPT ![e] = @ + 1] ELSE triggered
    /\ UNCHANGED <<repoOf, ownerVars, streamVars, crashedIn, knotFaults>>

\* The socket closes; connect runs again after ten seconds.
KnotClose ==
    /\ knotPos # None
    /\ knotFaults < MaxKnotFaults
    /\ knotFaults' = knotFaults + 1
    /\ knotPos' = None
    /\ UNCHANGED <<repoOf, ownerVars, repoCache, reposAgent, knotCursor, knotSaved, lookups,
                   triggered, crashedIn, skipped, forgotten>>

\* A crash and the restart: loadDB reads the cursor that was saved.
KnotRestart ==
    /\ knotFaults < MaxKnotFaults
    /\ knotFaults' = knotFaults + 1
    /\ crashedIn' = crashedIn \cup lookups
    /\ knotCursor' = knotSaved
    /\ forgotten' = [e \in Events |->
                        IF knotSaved < e /\ e <= knotCursor THEN forgotten[e] + 1 ELSE forgotten[e]]
    /\ repoCache' = {} /\ putting' = {} /\ lookups' = {}
    /\ reposAgent' = "undefined"
    /\ knotPos' = None
    /\ UNCHANGED <<repoOf, optedIn, repoRecord, pdsUp, knotSaved, triggered, skipped>>

KnotNext ==
    \/ \E r \in Repos : Publish(r) \/ OptIn(r) \/ DiscoverKnots(r) \/ JetstreamCommit(r) \/ RecordRepo(r)
    \/ KnotConnect \/ KnotMessage \/ SaveRuns \/ KnotClose \/ KnotRestart
    \/ \E e \in Events : KnotTrigger(e)

KnotSpec ==
    /\ KnotInit /\ [][KnotNext]_knotVars
    /\ WF_knotVars(KnotConnect) /\ WF_knotVars(KnotMessage)
    /\ \A e \in Events : WF_knotVars(KnotTrigger(e))

-----------------------------------------------------------------------------
(* Properties                                                              *)

\* However often the stream reconnects or the spindle restarts, an event of the
\* knot starts a pipeline once, and once more at most for each restart that read
\* a cursor from before the event, because no save after it had succeeded: the
\* cursor is saved before the event is acted upon.
TriggeredAtMostOnce == \A e \in Events : triggered[e] <= 1 + forgotten[e]

\* An event after the cursor, of a repository with a durable record, starts a
\* pipeline, also across restarts that empty the cache; only a crash in the
\* middle of its own handler loses it, or one after a save that left the file
\* truncated, so that the cursor is seeded anew.  (While the PDS of the spindle
\* answers.)
RecordedRepoIsServed ==
    \A e \in Events :
        (/\ e \in Published /\ knotCursor # None /\ e > knotCursor
         /\ pdsUp /\ repoOf[e] \in repoRecord)
            ~> (triggered[e] > 0 \/ e \in crashedIn \/ e \in skipped)
=============================================================================
