---------------------------- MODULE SpindleRuns ----------------------------
(***************************************************************************)
(* Pipeline runs of the spindle (spindle/main.ts): a trigger fetches the   *)
(* workflow, registers a placeholder run, submits it to compute in the     *)
(* background while provisioning lines are published, installs the task    *)
(* and follows it to its end.  A /logs socket that comes while the run is  *)
(* provisioned waits on the run's waiter and is fed through a wake signal. *)
(* Line n of the submission of trigger t is <<t, n>>.  Runs and logs are   *)
(* kept on disk; the process may restart.                                  *)
(*                                                                         *)
(* Apart from the runs, and sharing nothing with them, their status         *)
(* events: broadcastStatus stamps an event with a time that never repeats  *)
(* within the process, keeps it in a capped log that is saved to disk, and *)
(* sends it to the subscribers of /events.  A subscriber that comes back   *)
(* names the last event it has and is sent those it missed before it goes  *)
(* live.  An event is its creation time.                                   *)
(***************************************************************************)
EXTENDS Naturals, SequencesExt, SeqFilter

CONSTANTS
    Triggers, Keys,   \* trigger payloads, and knot/pipelineRkey/workflow
    KeyOf,            \* the run each trigger is for
    LogSocks,         \* clients of /logs
    MaxLines,         \* bound on provisioning lines of a submission
    MaxRunRestarts,   \* bound on restarts
    NoTask,
    Watchers,       \* clients of /events
    MaxLog,         \* MAX_EVENT_LOG
    MaxStatuses,    \* bound on the events of a behaviour
    MaxClock,       \* bound on Date.now
    MaxEvRestarts   \* bound on restarts

ASSUME RunsAssumption ==
    /\ KeyOf \in [Triggers -> Keys]
    /\ {MaxLines, MaxRunRestarts} \subseteq Nat
    /\ NoTask \notin Triggers

ASSUME EventsAssumption == MaxLog \in Nat \ {0} /\ {MaxStatuses, MaxClock, MaxEvRestarts} \subseteq Nat

VARIABLES
    submission,  \* how far each trigger is
    runs,        \* taskId and last status of each run; "none" without an entry
    waiter,      \* runWaiters
    lineCount,   \* lines in the array preLogs of each submission
    preRunLogs,  \* whose array each key holds
    diskRuns,    \* db.runs: the persisted task
    diskPreLogs, \* logsDB.preLogs: owner of the array and its length
    diskLogs,    \* logsDB.logs: the task whose console output is stored
    sock,        \* /logs sockets
    runRestarts,
    clock, lastNanos,  \* Date.now and the last stamp
    eventLog,          \* the ring
    eventDisk,         \* EVENTS_DB_PATH
    watch,             \* where each client is: away, live, or gone unnoticed
    got,               \* what each client received, over all its connections
    cursor,            \* the cursor of its last connection
    evRestarts, statuses

runVars == <<submission, runs, waiter, lineCount, preRunLogs, diskRuns, diskPreLogs,
             diskLogs, sock, runRestarts>>
storeVars == <<diskRuns, diskPreLogs, diskLogs, runRestarts>>

Array(t, n) == [i \in 1..n |-> <<t, i>>]
NoSock == [at |-> "off", key |-> NoTask, sent |-> 0, lines |-> <<>>, open |-> FALSE,
           output |-> NoTask]

RunsInit ==
    /\ submission = [t \in Triggers |-> "idle"]
    /\ runs = [k \in Keys |-> [task |-> NoTask, status |-> "none"]]
    /\ waiter = [k \in Keys |-> "none"]
    /\ lineCount = [t \in Triggers |-> 0]
    /\ preRunLogs = [k \in Keys |-> NoTask]
    /\ diskRuns = [k \in Keys |-> NoTask]
    /\ diskPreLogs = [k \in Keys |-> <<>>]
    /\ diskLogs = [k \in Keys |-> NoTask]
    /\ sock = [s \in LogSocks |-> NoSock]
    /\ runRestarts = 0

-----------------------------------------------------------------------------
(* Triggers and submissions                                                *)

\* handleTrigger or watchKnot accepted the trigger; the knot is asked for the
\* workflow files.
Trigger(t) ==
    /\ submission[t] = "idle"
    /\ submission' = [submission EXCEPT ![t] = "fetching"]
    /\ UNCHANGED <<runs, waiter, lineCount, preRunLogs, sock, storeVars>>

\* fetchWorkflows found nothing to run, or failed.
NoWorkflows(t) ==
    /\ submission[t] = "fetching"
    /\ submission' = [submission EXCEPT ![t] = "ended"]
    /\ UNCHANGED <<runs, waiter, lineCount, preRunLogs, sock, storeVars>>

\* triggerWorkflows registers a placeholder where there is no run yet, and
\* submitWorkflows starts at once with an empty array of its own.
Register(t) ==
    LET k == KeyOf[t] IN
    /\ submission[t] = "fetching"
    /\ submission' = [submission EXCEPT ![t] = "provisioning"]
    /\ IF runs[k].status = "none"
       THEN /\ runs' = [runs EXCEPT ![k].status = "submitted"]
            /\ waiter' = [waiter EXCEPT ![k] = IF @ = "none" THEN "armed" ELSE @]
       ELSE UNCHANGED <<runs, waiter>>
    /\ preRunLogs' = [preRunLogs EXCEPT ![k] = t]
    /\ UNCHANGED <<lineCount, sock, storeVars>>

\* flush of a waiting socket: lines from index sent on, of the array the key
\* holds now.
Flush(x, array) ==
    [x EXCEPT !.sent = IF Len(array) > @ THEN Len(array) ELSE @,
              !.lines = @ \o SubSeq(array, x.sent + 1, Len(array))]

\* Mutation: a wake signal carries the line instead of asking for a flush.
PublishPreLogPushes(k, array) ==
    sock' = [s \in LogSocks |->
                IF sock[s].at = "waiting" /\ sock[s].key = k
                THEN [sock[s] EXCEPT !.lines = Append(@, Last(array))] ELSE sock[s]]

PublishPreLog(k, array) ==
    sock' = [s \in LogSocks |->
                IF sock[s].at = "waiting" /\ sock[s].key = k THEN Flush(sock[s], array)
                                                             ELSE sock[s]]

\* A line of the provisioning log: pushed, persisted, published.
ProvisionLine(t) ==
    LET k == KeyOf[t] IN
    /\ submission[t] = "provisioning"
    /\ lineCount[t] < MaxLines
    /\ lineCount' = [lineCount EXCEPT ![t] = @ + 1]
    /\ diskPreLogs' = [diskPreLogs EXCEPT ![k] = Array(t, lineCount[t] + 1)]
    /\ PublishPreLog(k, Array(preRunLogs[k], lineCount'[preRunLogs[k]]))
    /\ UNCHANGED <<submission, runs, waiter, preRunLogs, diskRuns, diskLogs, runRestarts>>

Settle(k, r) == waiter' = [waiter EXCEPT ![k] = IF @ = "armed" THEN r ELSE @]

\* Mutation: the failure is not told to the waiter.
SubmitFailsSilently(t) ==
    /\ submission[t] = "provisioning"
    /\ submission' = [submission EXCEPT ![t] = "ended"]
    /\ UNCHANGED <<runs, waiter, lineCount, preRunLogs, sock, storeVars>>

\* No bid, no compute or no policy engine: the placeholder stays as it is.
SubmitFails(t) ==
    /\ submission[t] = "provisioning"
    /\ submission' = [submission EXCEPT ![t] = "ended"]
    /\ Settle(KeyOf[t], "failed")
    /\ UNCHANGED <<runs, lineCount, preRunLogs, sock, storeVars>>

\* The task exists: it is installed in the run, the waiter is released, the
\* run is persisted and followed from now on.
SubmitSucceeds(t) ==
    LET k == KeyOf[t] IN
    /\ submission[t] = "provisioning"
    /\ submission' = [submission EXCEPT ![t] = "tracked"]
    /\ runs' = [runs EXCEPT ![k] = [task |-> t, status |-> "submitted"]]
    /\ Settle(k, "ready")
    /\ diskRuns' = [diskRuns EXCEPT ![k] = t]
    /\ UNCHANGED <<lineCount, preRunLogs, sock, diskPreLogs, diskLogs, runRestarts>>

\* A poll of trackRun that finds the workflow running.
TrackRunning(t) ==
    /\ submission[t] = "tracked"
    /\ runs' = [runs EXCEPT ![KeyOf[t]].status = "in_progress"]
    /\ UNCHANGED <<submission, waiter, lineCount, preRunLogs, sock, storeVars>>

\* A poll that finds it ended; the console output is persisted if there is any.
TrackEnds(t) ==
    LET k == KeyOf[t] IN
    /\ submission[t] = "tracked"
    /\ submission' = [submission EXCEPT ![t] = "ended"]
    /\ \E s \in {"complete", "unknown"} : runs' = [runs EXCEPT ![k].status = s]
    /\ \E output \in {runs[k].task, diskLogs[k]} : diskLogs' = [diskLogs EXCEPT ![k] = output]
    /\ UNCHANGED <<waiter, lineCount, preRunLogs, sock, diskRuns, diskPreLogs, runRestarts>>

-----------------------------------------------------------------------------
(* /logs                                                                   *)

PreLogs(k) == IF preRunLogs[k] = NoTask THEN diskPreLogs[k]
              ELSE Array(preRunLogs[k], lineCount[preRunLogs[k]])

\* onopen up to its first await: a socket for a placeholder whose waiter is
\* live waits; any other replays the provisioning lines there are.
LogOpen(s, k) ==
    /\ sock[s].at = "off"
    /\ runs[k].status # "none"
    /\ LET waits == runs[k].task = NoTask /\ waiter[k] = "armed" IN
       sock' = [sock EXCEPT ![s] =
                   Flush([NoSock EXCEPT !.at = IF waits THEN "waiting" ELSE "piping",
                                        !.key = k, !.open = TRUE], PreLogs(k))]
    /\ UNCHANGED <<submission, runs, waiter, lineCount, preRunLogs, storeVars>>

\* The waiter was settled: a last flush, then the output of the task.
LogReady(s) ==
    LET x == Flush(sock[s], PreLogs(sock[s].key)) IN
    /\ sock[s].at = "waiting"
    /\ waiter[sock[s].key] \in {"ready", "failed"}
    /\ sock' = [sock EXCEPT ![s] = [x EXCEPT !.at = IF x.open THEN "piping" ELSE "closed"]]
    /\ UNCHANGED <<submission, runs, waiter, lineCount, preRunLogs, storeVars>>

\* The console output: from the policy engine's stream, from its status or
\* console_output, or from the persisted log when the engine has nothing.
LogPipe(s) ==
    LET k == sock[s].key IN
    /\ sock[s].at = "piping"
    /\ \E out \in {runs[k].task, diskLogs[k]} :
           sock' = [sock EXCEPT ![s].at = "closed", ![s].output = out]
    /\ UNCHANGED <<submission, runs, waiter, lineCount, preRunLogs, storeVars>>

LogLeaves(s) ==
    /\ sock[s].open /\ sock[s].at # "closed"
    /\ sock' = [sock EXCEPT ![s].open = FALSE]
    /\ UNCHANGED <<submission, runs, waiter, lineCount, preRunLogs, storeVars>>

-----------------------------------------------------------------------------
(* Restart                                                                 *)

\* Runs with a task and the provisioning lines come back from disk; nobody
\* follows the tasks, and placeholders are gone.
RunsRestart ==
    /\ runRestarts < MaxRunRestarts
    /\ runRestarts' = runRestarts + 1
    /\ submission' = [t \in Triggers |-> IF submission[t] = "idle" THEN "idle" ELSE "lost"]
    /\ runs' = [k \in Keys |-> IF diskRuns[k] = NoTask THEN [task |-> NoTask, status |-> "none"]
                               ELSE [task |-> diskRuns[k], status |-> "submitted"]]
    /\ waiter' = [k \in Keys |-> "none"]
    /\ sock' = [s \in LogSocks |-> IF sock[s].at = "off" THEN NoSock
                                   ELSE [sock[s] EXCEPT !.at = "cut", !.open = FALSE]]
    /\ preRunLogs' = [k \in Keys |-> NoTask]
    /\ UNCHANGED <<lineCount, diskRuns, diskPreLogs, diskLogs>>

SubmissionStep(t) ==
    \/ NoWorkflows(t) \/ Register(t) \/ SubmitFails(t) \/ SubmitSucceeds(t) \/ TrackEnds(t)

RunsNext ==
    \/ \E t \in Triggers : Trigger(t) \/ SubmissionStep(t) \/ ProvisionLine(t) \/ TrackRunning(t)
    \/ \E s \in LogSocks : LogReady(s) \/ LogPipe(s) \/ LogLeaves(s)
                           \/ \E k \in Keys : LogOpen(s, k)
    \/ RunsRestart

\* Provisioning has time limits, and promises that are settled run on.
RunsFairness ==
    /\ \A t \in Triggers : WF_runVars(SubmissionStep(t))
    /\ \A s \in LogSocks : WF_runVars(LogReady(s)) /\ WF_runVars(LogPipe(s))

RunsSpec == RunsInit /\ [][RunsNext]_runVars /\ RunsFairness

-----------------------------------------------------------------------------
(* Status events                                                           *)

eventVars == <<clock, lastNanos, eventLog, eventDisk, watch, got, cursor, evRestarts, statuses>>

EventsInit ==
    /\ clock = 1 /\ lastNanos = 0
    /\ eventLog = <<>> /\ eventDisk = <<>>
    /\ watch = [w \in Watchers |-> "away"]
    /\ got = [w \in Watchers |-> <<>>] /\ cursor = [w \in Watchers |-> 0]
    /\ evRestarts = 0 /\ statuses = 0

Tick ==
    /\ clock < MaxClock
    /\ clock' = clock + 1
    /\ UNCHANGED <<lastNanos, eventLog, eventDisk, watch, got, cursor, evRestarts, statuses>>

\* Mutation: no guard against two events in one millisecond.
NowNsUnguarded == clock

NowNs == IF clock <= lastNanos THEN lastNanos + 1 ELSE clock

Ring(log, e) == Append(IF Len(log) >= MaxLog THEN Tail(log) ELSE log, e)

\* saveEventLog may fail, which is only logged.
BroadcastStatus(saved) ==
    /\ statuses < MaxStatuses
    /\ statuses' = statuses + 1
    /\ lastNanos' = NowNs
    /\ eventLog' = Ring(eventLog, NowNs)
    /\ eventDisk' = IF saved THEN eventLog' ELSE eventDisk
    /\ got' = [w \in Watchers |-> IF watch[w] = "live" THEN Append(got[w], NowNs) ELSE got[w]]
    /\ UNCHANGED <<clock, watch, cursor, evRestarts>>

\* Mutation: events at the cursor are sent again.
BackfillInclusive(from) == AtIndices(eventLog, {i \in DOMAIN eventLog : eventLog[i] >= from})

\* Without a cursor the whole log is sent.
Backfill(from) ==
    IF from > 0 THEN AtIndices(eventLog, {i \in DOMAIN eventLog : eventLog[i] > from}) ELSE eventLog

\* A client connects with the last event it has; onopen sends the backfill and
\* adds the socket to the subscribers in one turn.
WatchOpen(w) ==
    /\ watch[w] = "away"
    /\ watch' = [watch EXCEPT ![w] = "live"]
    /\ cursor' = [cursor EXCEPT ![w] = IF got[w] = <<>> THEN 0 ELSE Last(got[w])]
    /\ got' = [got EXCEPT ![w] = @ \o Backfill(cursor'[w])]
    /\ UNCHANGED <<clock, lastNanos, eventLog, eventDisk, evRestarts, statuses>>

\* The client leaves; what is sent until cleanup runs is lost.
WatchLeaves(w) ==
    /\ watch[w] = "live"
    /\ watch' = [watch EXCEPT ![w] = "gone"]
    /\ UNCHANGED <<clock, lastNanos, eventLog, eventDisk, got, cursor, evRestarts, statuses>>

WatchCleanup(w) ==
    /\ watch[w] = "gone"
    /\ watch' = [watch EXCEPT ![w] = "away"]
    /\ UNCHANGED <<clock, lastNanos, eventLog, eventDisk, got, cursor, evRestarts, statuses>>

\* A restart: the log comes from disk, lastNanos starts over.  A restart takes
\* longer than lastNanos can run ahead of the clock.
EventsRestart ==
    /\ evRestarts < MaxEvRestarts
    /\ evRestarts' = evRestarts + 1
    /\ eventLog' = eventDisk
    /\ lastNanos' = 0
    /\ clock' = IF lastNanos >= clock THEN lastNanos + 1 ELSE clock
    /\ watch' = [w \in Watchers |-> "away"]
    /\ UNCHANGED <<eventDisk, got, cursor, statuses>>

EventsNext ==
    \/ Tick \/ EventsRestart
    \/ \E saved \in BOOLEAN : BroadcastStatus(saved)
    \/ \E w \in Watchers : WatchOpen(w) \/ WatchLeaves(w) \/ WatchCleanup(w)

EventsSpec == EventsInit /\ [][EventsNext]_eventVars

-----------------------------------------------------------------------------
(* Properties                                                              *)

\* What a /logs socket was sent is the provisioning log of a submission from
\* its first line on, in order, nothing dropped or doubled, whenever the
\* socket came and however flushes, wake signals and the settling interleave.
LogIsExact ==
    \A s \in LogSocks :
        \E t \in Triggers \cup {NoTask} :
            sock[s].lines = Array(t, Len(sock[s].lines))

\* Whoever read the log of a submission that ended has all its lines.
LogIsComplete ==
    \A s \in LogSocks :
        sock[s].at = "closed" =>
            \/ ~ sock[s].open
            \/ \A t \in Triggers : KeyOf[t] = sock[s].key /\ submission[t] = "ended" =>
                   Len(sock[s].lines) = lineCount[t]

\* Every /logs socket is released: by the task, by the failure of the
\* submission, or by a restart of the process.
LogSocketReleased == \A s \in LogSocks : sock[s].at = "waiting" ~> sock[s].at \in {"closed", "cut"}

\* A /logs socket is sent the log of its submission from the first line on,
\* nothing dropped or doubled, and all of it once the submission has ended.
LogIsSound == LogIsExact /\ LogIsComplete

Increasing(s) == \A i \in 1..(Len(s) - 1) : s[i] < s[i + 1]

\* A client that is connected has every event of the log after its cursor, in
\* the order of creation and none twice, over reconnects,
\* restarts and lost sends: the promise of the cursor of /events.
FeedIsGapless ==
    /\ Increasing(eventLog)
    /\ \A w \in Watchers :
          /\ Increasing(got[w])
          /\ watch[w] = "live" =>
                \A e \in ToSet(eventLog) : e > cursor[w] => e \in ToSet(got[w])
=============================================================================
