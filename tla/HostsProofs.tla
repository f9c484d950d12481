---------------------------- MODULE HostsProofs -----------------------------
(***************************************************************************)
(* Proofs about what runs jobs on machines: the knot events, runs, logs    *)
(* and status events of the spindle, the contract of a job, the bring-up of *)
(* a bidder, the ephemeral provider and PID 1 of its containers, for any   *)
(* number of events, runs, jobs, accepts, contracts, proofs and units.     *)
(***************************************************************************)
EXTENDS KnotWatch, SpindleRuns, ComputeContract, EphemeralCompute,
        SystemctlShim, BidderBringUp, SequenceLemmas, TLAPS

-----------------------------------------------------------------------------
(* KnotWatch: an event of a knot starts at most one pipeline               *)

Cursors == 0..(MaxEvents + 1)

KnotTypeOK ==
    /\ \E n \in 0..MaxEvents : repoOf \in [1..n -> Repos]
    /\ knotCursor \in Cursors /\ knotSaved \in Cursors /\ knotPos \in Cursors
    /\ lookups \subseteq Events
    /\ triggered \in [Events -> Nat] /\ forgotten \in [Events -> Nat]

\* Without a cursor nothing is under way; an open stream is at the cursor; and
\* what was looked up or started is published.
CursorFirst ==
    /\ knotCursor = None => lookups = {} /\ knotPos = None /\ knotSaved = None
    /\ knotPos # None => knotCursor = knotPos
    /\ \A e \in Events : e \in lookups \/ triggered[e] > 0 => e \in Published

\* How often an event started a pipeline or is about to.
Starts(e) == triggered[e] + (IF e \in lookups THEN 1 ELSE 0)

\* An event behind the cursor has been started by no more than the restarts
\* that forgot it, one before the cursor once more.
StartedOnce ==
    \A e \in Events : /\ Starts(e) <= 1 + forgotten[e]
                      /\ knotCursor # None /\ e > knotCursor => Starts(e) <= forgotten[e]

KnotInv == KnotTypeOK /\ CursorFirst /\ StartedOnce

\* Nothing is published and the cursor is not chosen yet.
LEMMA KnotInitInv == KnotInit => KnotInv
  <1> SUFFICES ASSUME KnotInit PROVE KnotInv
    OBVIOUS
  <1>1. KnotTypeOK
    <2>1. repoOf \in [1..0 -> Repos] /\ 0 \in 0..MaxEvents
      BY KnotAssumption DEF KnotInit
    <2>2. knotCursor \in Cursors /\ knotPos \in Cursors /\ knotSaved \in Cursors
      BY KnotAssumption DEF KnotInit, Cursors, None
    <2> QED
      BY <2>1, <2>2 DEF KnotInit, KnotTypeOK
  <1>2. CursorFirst
    BY DEF KnotInit, CursorFirst
  <1>3. StartedOnce
    BY DEF KnotInit, StartedOnce, Starts
  <1> QED
    BY <1>1, <1>2, <1>3 DEF KnotInv

\* What is published, is published under the numbers up to the bound.
LEMMA PublishedIsFinite ==
    ASSUME KnotTypeOK
    PROVE  /\ Published \subseteq Events
           /\ Cardinality(Published) \in 0..MaxEvents
           /\ Published = 1..Cardinality(Published)
           /\ repoOf \in [Published -> Repos]
  <1>1. PICK n \in 0..MaxEvents : repoOf \in [1..n -> Repos]
    BY DEF KnotTypeOK
  <1>2. Cardinality(1..n) = n
    BY <1>1, FS_Interval
  <1> QED
    BY <1>1, <1>2, KnotAssumption DEF Published, Events

\* A save leaves a cursor in the file: this one, the one there was, or none.
LEMMA SavedIsCursor ==
    ASSUME KnotTypeOK, NEW c \in Cursors, SaveDB(c)
    PROVE  knotSaved' \in Cursors /\ (c = None /\ knotSaved = None => knotSaved' = None)
  <1>1. None \in Cursors
    BY KnotAssumption DEF None, Cursors
  <1> QED
    BY <1>1 DEF SaveDB, KnotTypeOK

\* Every step of the stream, of the owners and of the handlers keeps it.
LEMMA KnotNextInv == KnotInv /\ [KnotNext]_knotVars => KnotInv'
  <1> SUFFICES ASSUME KnotInv, [KnotNext]_knotVars PROVE KnotInv'
    OBVIOUS
  <1> USE KnotAssumption DEF KnotInv
  <1>0. /\ Published \subseteq Events
        /\ Cardinality(Published) \in 0..MaxEvents
        /\ Published = 1..Cardinality(Published)
        /\ repoOf \in [Published -> Repos]
    BY PublishedIsFinite
  <1>1. ASSUME NEW r \in Repos, Publish(r) PROVE KnotInv'
    <2>1. repoOf' \in [1..(Cardinality(Published) + 1) -> Repos]
      BY <1>0, <1>1 DEF Publish
    <2>2. Cardinality(Published) + 1 \in 0..MaxEvents
      BY <1>0, <1>1 DEF Publish
    <2>3. UNCHANGED <<knotCursor, knotSaved, knotPos, lookups, triggered, forgotten>>
      BY <1>1 DEF Publish, streamVars
    <2>4. KnotTypeOK'
      BY <2>1, <2>2, <2>3 DEF KnotTypeOK, Events, Cursors
    <2>5. Published \subseteq Published'
      BY <1>0, <1>1 DEF Publish, Published
    <2>6. CursorFirst'
      BY <2>3, <2>5 DEF CursorFirst, None, Events
    <2> QED
      BY <2>3, <2>4, <2>6 DEF StartedOnce, Starts, None, Events
  <1>2. ASSUME UNCHANGED <<repoOf, knotCursor, knotSaved, knotPos, lookups, triggered, forgotten>>
        PROVE KnotInv'
    BY <1>2 DEF KnotTypeOK, CursorFirst, StartedOnce, Starts, None, Events, Cursors, Published
  <1>3. ASSUME NEW r \in Repos, OptIn(r) \/ DiscoverKnots(r) \/ JetstreamCommit(r) \/ RecordRepo(r)
        PROVE  KnotInv'
    BY <1>2, <1>3 DEF OptIn, DiscoverKnots, JetstreamCommit, RecordRepo, Learn, streamVars
  <1>4. CASE KnotConnect
    <2>1. /\ knotPos' = knotCursor' /\ knotCursor' \in Cursors
          /\ knotCursor # None => knotCursor' = knotCursor /\ knotSaved' = knotSaved
          /\ knotCursor = None => knotCursor' = Cardinality(Published) /\ SaveDB(knotCursor')
          /\ UNCHANGED <<repoOf, lookups, triggered, forgotten>>
      BY <1>0, <1>4 DEF KnotConnect, KnotTypeOK, Cursors
    <2>2. knotSaved' \in Cursors
      BY <2>1, SavedIsCursor DEF KnotTypeOK
    <2>3. KnotTypeOK'
      BY <2>1, <2>2 DEF KnotTypeOK, Cursors, Events
    <2>4. CursorFirst'
      BY <1>0, <2>1 DEF CursorFirst, None, Published
    <2>5. ASSUME NEW e \in Events, knotCursor = None, e > knotCursor' PROVE Starts(e) = 0
      <3>1. e \notin Published
        BY <1>0, <2>1, <2>5 DEF Events
      <3> QED
        BY <3>1 DEF CursorFirst, Starts, KnotTypeOK
    <2>6. StartedOnce'
      BY <2>1, <2>5 DEF StartedOnce, Starts, KnotTypeOK, None
    <2> QED
      BY <2>3, <2>4, <2>6
  <1>5. CASE KnotMessage
    <2>0. PICK e \in Events : e = knotPos + 1
      BY <1>0, <1>5 DEF KnotMessage
    <2>1. knotPos # None /\ knotCursor = knotPos /\ knotPos \in Nat /\ e \in Published
      BY <1>0, <1>5, <2>0 DEF KnotMessage, CursorFirst, Events, None, KnotTypeOK, Cursors
    <2>2. /\ knotPos' = e /\ knotCursor' = e /\ lookups' = lookups \cup {e}
          /\ SaveDB(e) /\ UNCHANGED <<repoOf, triggered, forgotten>>
      BY <1>5, <2>0, <2>1 DEF KnotMessage
    <2>3. Starts(e) <= forgotten[e]
      BY <2>0, <2>1 DEF StartedOnce, None
    <2>a. e > knotCursor
      BY <2>0, <2>1
    <2>4. KnotTypeOK'
      <3>1. e \in Cursors
        BY DEF Events, Cursors
      <3>2. knotSaved' \in Cursors
        BY <2>2, <3>1, SavedIsCursor
      <3> QED
        BY <2>1, <2>2, <3>1, <3>2 DEF KnotTypeOK, Events, Cursors
    <2>5. CursorFirst'
      BY <2>1, <2>2 DEF CursorFirst, KnotTypeOK, Events, None, Published, Cursors
    <2>6. ASSUME NEW f \in Events PROVE /\ f # e => Starts(f)' = Starts(f)
                                        /\ Starts(e)' <= Starts(e) + 1
      BY <2>1, <2>2 DEF Starts, KnotTypeOK
    <2>7. Starts(e) \in Nat /\ Starts(e)' \in Nat /\ forgotten[e] \in Nat
      BY <2>1, <2>2 DEF Starts, KnotTypeOK
    <2>8. ASSUME NEW f \in Events
          PROVE /\ Starts(f)' <= 1 + forgotten'[f]
                /\ f > knotCursor' => Starts(f)' <= forgotten'[f]
      <3>1. CASE f = e
        BY <2>1, <2>2, <2>3, <2>6, <2>7, <3>1 DEF Events
      <3>2. CASE f # e
        <4>1. Starts(f) <= 1 + forgotten[f] /\ (f > knotCursor => Starts(f) <= forgotten[f])
          BY <2>1 DEF StartedOnce
        <4>2. f > knotCursor' => f > knotCursor
          BY <2>1, <2>2, <2>a DEF Events, KnotTypeOK, Cursors
        <4> QED
          BY <2>2, <2>6, <3>2, <4>1, <4>2
      <3> QED
        BY <3>1, <3>2
    <2> QED
      BY <2>4, <2>5, <2>8 DEF StartedOnce
  <1>s. CASE SaveRuns
    <2>1. SaveDB(knotCursor) /\ UNCHANGED <<repoOf, knotCursor, knotPos, lookups, triggered, forgotten>>
      BY <1>s DEF SaveRuns
    <2>2. knotSaved' \in Cursors /\ (knotCursor = None => knotSaved' = None)
      BY <2>1, SavedIsCursor DEF CursorFirst, KnotTypeOK
    <2> QED
      BY <2>1, <2>2 DEF KnotTypeOK, CursorFirst, StartedOnce, Starts, None, Events, Cursors, Published
  <1>6. CASE KnotClose
    <2>1. /\ knotPos' = None
          /\ UNCHANGED <<repoOf, knotCursor, knotSaved, lookups, triggered, forgotten>>
      BY <1>6 DEF KnotClose
    <2>2. None \in Cursors
      BY DEF None, Cursors
    <2> QED
      BY <2>1, <2>2 DEF KnotTypeOK, CursorFirst, StartedOnce, Starts, None, Events, Cursors, Published
  <1>7. CASE KnotRestart
    <2>1. /\ knotPos' = None /\ lookups' = {} /\ knotCursor' = knotSaved
          /\ UNCHANGED <<repoOf, knotSaved, triggered>>
          /\ forgotten' = [e \in Events |->
                 IF knotSaved < e /\ e <= knotCursor THEN forgotten[e] + 1 ELSE forgotten[e]]
      BY <1>7 DEF KnotRestart
    <2>2. KnotTypeOK'
      <3>1. None \in Cursors
        BY DEF None, Cursors
      <3>2. forgotten' \in [Events -> Nat]
        BY <2>1 DEF KnotTypeOK
      <3> QED
        BY <2>1, <3>1, <3>2 DEF KnotTypeOK, Cursors, Events
    <2>3. CursorFirst'
      BY <2>1 DEF CursorFirst, None, Published
    <2>4. ASSUME NEW e \in Events
          PROVE /\ Starts(e)' <= 1 + forgotten'[e]
                /\ knotCursor' # None /\ e > knotCursor' => Starts(e)' <= forgotten'[e]
      <3>1. /\ Starts(e)' = triggered[e] /\ Starts(e)' <= Starts(e)
            /\ triggered[e] \in Nat /\ forgotten[e] \in Nat
            /\ e \in Nat /\ knotCursor \in Nat /\ knotSaved \in Nat
        BY <2>1 DEF Starts, KnotTypeOK, Events, Cursors
      <3>2. /\ forgotten'[e] \in Nat /\ forgotten'[e] >= forgotten[e]
            /\ knotSaved < e /\ e <= knotCursor => forgotten'[e] = forgotten[e] + 1
        BY <2>1, <3>1
      <3>3. Starts(e) <= 1 + forgotten[e] /\ Starts(e) \in Nat
        BY DEF StartedOnce, Starts, KnotTypeOK
      <3>4. knotCursor' # None /\ e > knotCursor' => Starts(e)' <= forgotten'[e]
        <4> SUFFICES ASSUME knotSaved # None, e > knotSaved PROVE Starts(e)' <= forgotten'[e]
          BY <2>1 DEF None
        <4>1. CASE e <= knotCursor
          BY <3>1, <3>2, <3>3, <4>1
        <4>2. CASE e > knotCursor
          <5>1. knotCursor # None
            BY DEF CursorFirst
          <5>2. Starts(e) <= forgotten[e]
            BY <4>2, <5>1 DEF StartedOnce
          <5> QED
            BY <3>1, <3>2, <3>3, <5>2
        <4> QED
          BY <3>1, <4>1, <4>2
      <3> QED
        BY <3>1, <3>2, <3>3, <3>4, <2>2 DEF KnotTypeOK
    <2> QED
      BY <2>2, <2>3, <2>4 DEF StartedOnce
  <1>8. ASSUME NEW e \in Events, KnotTrigger(e) PROVE KnotInv'
    <2>1. /\ e \in lookups /\ lookups' = lookups \ {e}
          /\ UNCHANGED <<repoOf, knotCursor, knotSaved, knotPos, forgotten>>
          /\ \/ triggered' = triggered
             \/ triggered' = [triggered EXCEPT ![e] = @ + 1]
      BY <1>8 DEF KnotTrigger, streamVars
    <2>2. triggered' \in [Events -> Nat]
      BY <2>1 DEF KnotTypeOK
    <2>3. ASSUME NEW f \in Events PROVE Starts(f)' <= Starts(f) /\ Starts(f) \in Nat /\ Starts(f)' \in Nat
      BY <2>1 DEF KnotTypeOK, Starts
    <2>4. KnotTypeOK'
      <3>1. lookups' \subseteq Events
        BY <2>1 DEF KnotTypeOK
      <3> QED
        BY <2>1, <2>2, <3>1 DEF KnotTypeOK, Events, Cursors
    <2>5. CursorFirst'
      <3>1. \A f \in Events : f \in lookups' \/ triggered'[f] > 0 => f \in Published
        BY <2>1 DEF CursorFirst, KnotTypeOK
      <3> QED
        BY <2>1, <3>1 DEF CursorFirst, None, Published
    <2>6. StartedOnce'
      <3> SUFFICES ASSUME NEW f \in Events
                   PROVE  /\ Starts(f)' <= 1 + forgotten[f]
                          /\ knotCursor # None /\ f > knotCursor => Starts(f)' <= forgotten[f]
        BY <2>1 DEF StartedOnce, None, Events
      <3>1. forgotten[f] \in Nat
        BY DEF KnotTypeOK
      <3> QED
        BY <2>3, <3>1 DEF StartedOnce
    <2> QED
      BY <2>4, <2>5, <2>6
  <1>9. CASE UNCHANGED knotVars
    BY <1>2, <1>9 DEF knotVars
  <1> QED
    BY <1>1, <1>3, <1>4, <1>5, <1>s, <1>6, <1>7, <1>8, <1>9 DEF KnotNext

\* However often the stream of a knot reconnects and the spindle restarts,
\* watchKnot starts one pipeline for an event, because the cursor is saved before
\* the handler's first await, and another one at most for each restart that read
\* a cursor from before the event, whatever saves failed.
THEOREM KnotTriggersOnce == KnotSpec => []TriggeredAtMostOnce
  <1>1. KnotInv => TriggeredAtMostOnce
    BY DEF KnotInv, KnotTypeOK, StartedOnce, Starts, TriggeredAtMostOnce
  <1> QED
    BY KnotInitInv, KnotNextInv, <1>1, PTL DEF KnotSpec

-----------------------------------------------------------------------------
(* SpindleRuns: a log socket gets the log of its submission, all of it     *)

\* Each run has one trigger; nothing in handleTrigger sees to it.
OneTriggerEach == \A t, u \in Triggers : KeyOf[t] = KeyOf[u] => t = u

Submissions == {"idle", "fetching", "provisioning", "tracked", "ended", "lost"}
PastProvisioning == {"tracked", "ended", "lost"}
Tasks == Triggers \cup {NoTask}
RunRecords == [task : Tasks, status : {"none", "submitted", "in_progress", "complete", "unknown"}]
SockRecords ==
    [at : {"off", "waiting", "piping", "closed", "cut"}, key : Keys \cup {NoTask}, sent : Nat,
     lines : Seq(Triggers \X Nat), open : BOOLEAN, output : Tasks]

RunsTypeOK ==
    /\ submission \in [Triggers -> Submissions]
    /\ runs \in [Keys -> RunRecords]
    /\ waiter \in [Keys -> {"none", "armed", "ready", "failed"}]
    /\ lineCount \in [Triggers -> Nat]
    /\ preRunLogs \in [Keys -> Tasks]
    /\ diskRuns \in [Keys -> Tasks]
    /\ diskPreLogs \in [Keys -> Seq(Triggers \X Nat)]
    /\ diskLogs \in [Keys -> Tasks]
    /\ sock \in [LogSocks -> SockRecords]
    /\ runRestarts \in Nat

\* A task is installed, and a waiter settled, by the trigger of the run when it
\* publishes no more lines; a placeholder has a waiter.
TaskEndsLines(t) ==
    LET k == KeyOf[t] IN
    /\ runs[k].task = t \/ diskRuns[k] = t \/ waiter[k] \in {"ready", "failed"} =>
           submission[t] \in PastProvisioning
    /\ submission[t] = "tracked" => runs[k].task = t

RunIsNamed(k) ==
    /\ runs[k].task # NoTask => KeyOf[runs[k].task] = k
    /\ diskRuns[k] # NoTask => KeyOf[diskRuns[k]] = k
    /\ runs[k].status # "none" => \E t \in Triggers : KeyOf[t] = k
    /\ runs[k].status # "none" /\ runs[k].task = NoTask => waiter[k] # "none"

\* The array in memory and the one on disk are the lines of the trigger.
ArrayIsKept(t) ==
    LET k == KeyOf[t] IN
    /\ preRunLogs[k] \in {t, NoTask}
    /\ submission[t] = "provisioning" => preRunLogs[k] = t
    /\ diskPreLogs[k] = Array(t, lineCount[t])

\* A socket has the lines of the trigger of its run: all of them, unless the
\* process ended meanwhile.
SockIsAt(s, t) ==
    LET x == sock[s] IN
    /\ x.key = KeyOf[t]
    /\ x.lines = Array(t, Len(x.lines))
    /\ x.at # "cut" => Len(x.lines) = lineCount[t]
    /\ x.at = "waiting" => x.sent = lineCount[t]
    /\ x.at \in {"piping", "closed"} => submission[t] \in PastProvisioning

SocksAreFed ==
    \A s \in LogSocks : IF sock[s].at = "off" THEN sock[s] = NoSock
                        ELSE \E t \in Triggers : SockIsAt(s, t)

RunsInv ==
    /\ RunsTypeOK
    /\ \A t \in Triggers : TaskEndsLines(t) /\ ArrayIsKept(t)
    /\ \A k \in Keys : RunIsNamed(k)
    /\ SocksAreFed

\* The lines of a trigger are a sequence.
LEMMA ArrayIsSeq ==
    ASSUME NEW t \in Triggers, NEW n \in Nat
    PROVE  /\ Array(t, n) \in Seq(Triggers \X Nat) /\ Len(Array(t, n)) = n
           /\ DOMAIN Array(t, n) = 1..n /\ \A i \in 1..n : Array(t, n)[i] = <<t, i>>
           /\ n = 0 => Array(t, n) = <<>>
  BY DEF Array

\* The initial states satisfy the invariant.
LEMMA RunsInitInv == OneTriggerEach /\ RunsInit => RunsInv
  <1> SUFFICES ASSUME RunsInit PROVE RunsInv
    OBVIOUS
  <1>1. RunsTypeOK
    <2>1. NoSock \in SockRecords
      BY DEF NoSock, SockRecords, Tasks
    <2> QED
      BY <2>1 DEF RunsInit, RunsTypeOK, RunRecords, Submissions, Tasks
  <1>2. \A t \in Triggers : TaskEndsLines(t) /\ ArrayIsKept(t)
    <2> TAKE t \in Triggers
    <2>1. KeyOf[t] \in Keys /\ t # NoTask /\ Array(t, 0) = <<>>
      BY ArrayIsSeq, RunsAssumption
    <2> QED
      BY <2>1 DEF RunsInit, TaskEndsLines, ArrayIsKept
  <1>3. \A k \in Keys : RunIsNamed(k)
    BY DEF RunsInit, RunIsNamed
  <1>4. SocksAreFed
    BY DEF RunsInit, SocksAreFed, NoSock
  <1> QED
    BY <1>1, <1>2, <1>3, <1>4 DEF RunsInv

\* flush appends what is new of the array it reads.
LEMMA FlushReads ==
    ASSUME NEW x \in SockRecords, NEW t \in Triggers, NEW n \in Nat, NEW m \in Nat, n <= m,
           x.sent = n, x.lines = Array(t, n)
    PROVE  /\ Flush(x, Array(t, m)) \in SockRecords
           /\ Flush(x, Array(t, m)).at = x.at /\ Flush(x, Array(t, m)).key = x.key
           /\ Flush(x, Array(t, m)).sent = m /\ Flush(x, Array(t, m)).lines = Array(t, m)
           /\ n = m => Flush(x, Array(t, m)) = x
  <1>1. PICK a, b : a = Array(t, n) /\ b = Array(t, m)
    OBVIOUS
  <1>2. /\ a \in Seq(Triggers \X Nat) /\ Len(a) = n /\ \A i \in 1..n : a[i] = <<t, i>>
        /\ b \in Seq(Triggers \X Nat) /\ Len(b) = m /\ \A i \in 1..m : b[i] = <<t, i>>
    BY <1>1, ArrayIsSeq
  <1>3. PICK c : c = SubSeq(b, n + 1, m)
    OBVIOUS
  <1>4. /\ c \in Seq(Triggers \X Nat) /\ Len(c) = m - n /\ \A i \in 1..(m - n) : c[i] = b[n + i]
    BY <1>2, <1>3
  <1>5. a \o c = b
    <2>1. /\ a \o c \in Seq(Triggers \X Nat) /\ Len(a \o c) = m
          /\ \A i \in 1..m : (a \o c)[i] = IF i <= n THEN a[i] ELSE c[i - n]
      <3>1. /\ a \o c \in Seq(Triggers \X Nat) /\ Len(a \o c) = Len(a) + Len(c)
            /\ \A i \in 1..(Len(a) + Len(c)) : (a \o c)[i] = IF i <= Len(a) THEN a[i] ELSE c[i - Len(a)]
        BY <1>2, <1>4, ConcatProperties
      <3>2. Len(a) + Len(c) = m /\ Len(a) = n
        BY <1>2, <1>4
      <3> QED
        BY <3>1, <3>2
    <2>2. \A i \in 1..m : (a \o c)[i] = b[i]
      <3> TAKE i \in 1..m
      <3>1. CASE i <= n
        <4>1. i \in 1..n
          BY <3>1
        <4> QED
          BY <1>2, <2>1, <3>1, <4>1
      <3>2. CASE ~(i <= n)
        <4>1. i - n \in 1..(m - n) /\ n + (i - n) = i
          BY <3>2
        <4> QED
          BY <1>4, <2>1, <3>2, <4>1
      <3> QED
        BY <3>1, <3>2
    <2> QED
      BY <1>2, <2>1, <2>2, SeqEqual
  <1>6. (IF Len(b) > x.sent THEN Len(b) ELSE x.sent) = m
    BY <1>2
  <1>7. x.lines \o SubSeq(b, x.sent + 1, Len(b)) = b
    BY <1>1, <1>2, <1>3, <1>5
  <1> QED
    <2>1. Flush(x, b) = [x EXCEPT !.sent = m, !.lines = b]
      BY <1>6, <1>7 DEF Flush, SockRecords
    <2>2. PICK y : y = Flush(x, b)
      OBVIOUS
    <2>3. y \in SockRecords /\ y.at = x.at /\ y.key = x.key /\ y.sent = m /\ y.lines = b
      BY <1>2, <2>1, <2>2 DEF SockRecords
    <2>4. ASSUME n = m PROVE y = x
      <3>1. y = [x EXCEPT !.sent = x.sent, !.lines = x.lines]
        BY <1>1, <2>1, <2>2, <2>4
      <3>2. [x EXCEPT !.sent = x.sent, !.lines = x.lines] = x
        BY DEF SockRecords
      <3> QED
        BY <3>1, <3>2
    <2> QED
      BY <1>1, <2>2, <2>3, <2>4

\* While nothing is published, sockets stay fed: who is past provisioning stays so.
LEMMA SocksRest ==
    ASSUME RunsTypeOK, SocksAreFed, UNCHANGED <<sock, lineCount>>,
           \A t \in Triggers : submission[t] \in PastProvisioning => submission'[t] \in PastProvisioning
    PROVE  SocksAreFed'
  <1> SUFFICES ASSUME NEW s \in LogSocks, sock[s].at # "off"
               PROVE  \E t \in Triggers : SockIsAt(s, t)'
    BY DEF SocksAreFed
  <1>1. PICK t \in Triggers : SockIsAt(s, t)
    BY DEF SocksAreFed
  <1>2. SockIsAt(s, t)'
    BY <1>1 DEF SockIsAt
  <1> QED
    BY <1>2

\* Arrays and disk are left alone, and nobody starts provisioning.
LEMMA ArraysRest ==
    ASSUME NEW t \in Triggers, ArrayIsKept(t), UNCHANGED <<preRunLogs, lineCount, diskPreLogs>>,
           submission'[t] = "provisioning" => submission[t] = "provisioning"
    PROVE  ArrayIsKept(t)'
  BY DEF ArrayIsKept

\* The steps of a trigger that only move its submission on.
LEMMA MovesOn ==
    ASSUME RunsInv, NEW t \in Triggers, Trigger(t) \/ NoWorkflows(t)
    PROVE  RunsInv'
  <1>1. RunsTypeOK /\ SocksAreFed /\ \A u \in Triggers : TaskEndsLines(u) /\ ArrayIsKept(u)
    BY DEF RunsInv
  <1>2. PICK to \in {"fetching", "ended"} : submission' = [submission EXCEPT ![t] = to]
    BY DEF Trigger, NoWorkflows
  <1>3. /\ submission[t] \in {"idle", "fetching"}
        /\ UNCHANGED <<runs, waiter, lineCount, preRunLogs, sock, diskRuns, diskPreLogs, diskLogs, runRestarts>>
    BY DEF Trigger, NoWorkflows, storeVars
  <1>4. submission'[t] = to /\ \A u \in Triggers \ {t} : submission'[u] = submission[u]
    BY <1>1, <1>2 DEF RunsTypeOK
  <1>5. RunsTypeOK'
    BY <1>1, <1>2, <1>3 DEF RunsTypeOK, Submissions
  <1>6. ASSUME NEW u \in Triggers PROVE TaskEndsLines(u)' /\ ArrayIsKept(u)'
    <2>1. CASE u = t
      <3>1. TaskEndsLines(t)'
        BY <1>1, <1>3, <1>4 DEF TaskEndsLines, PastProvisioning
      <3> QED
        BY <1>1, <1>3, <1>4, <2>1, <3>1, ArraysRest
    <2>2. CASE u # t
      <3>1. TaskEndsLines(u)'
        BY <1>1, <1>3, <1>4, <2>2 DEF TaskEndsLines
      <3> QED
        BY <1>1, <1>3, <1>4, <2>2, <3>1, ArraysRest
    <2> QED
      BY <2>1, <2>2
  <1>7. \A k \in Keys : RunIsNamed(k)'
    BY <1>3 DEF RunsInv, RunIsNamed
  <1>8. SocksAreFed'
    BY <1>1, <1>3, <1>4, SocksRest DEF PastProvisioning
  <1> QED
    BY <1>5, <1>6, <1>7, <1>8 DEF RunsInv

\* What a trigger does to its own run leaves the runs of others alone.
LEMMA OtherRuns ==
    ASSUME OneTriggerEach, NEW t \in Triggers, NEW u \in Triggers, u # t
    PROVE  KeyOf[u] # KeyOf[t] /\ KeyOf[u] \in Keys /\ KeyOf[t] \in Keys
  BY RunsAssumption DEF OneTriggerEach

\* Register: the placeholder, with a waiter, and a new array.
LEMMA RegisterKeeps ==
    ASSUME OneTriggerEach, RunsInv, NEW t \in Triggers, Register(t)
    PROVE  RunsInv'
  <1>1. RunsTypeOK /\ SocksAreFed /\ \A u \in Triggers : TaskEndsLines(u) /\ ArrayIsKept(u)
    BY DEF RunsInv
  <1>2. PICK k \in Keys : k = KeyOf[t]
    BY RunsAssumption
  <1>3. /\ submission[t] = "fetching" /\ submission' = [submission EXCEPT ![t] = "provisioning"]
        /\ preRunLogs' = [preRunLogs EXCEPT ![k] = t]
        /\ UNCHANGED <<lineCount, sock, diskRuns, diskPreLogs, diskLogs, runRestarts>>
    BY <1>2 DEF Register, storeVars
  <1>4. /\ runs[k].task # t /\ diskRuns[k] # t /\ waiter[k] \in {"none", "armed"}
    BY <1>1, <1>2, <1>3 DEF TaskEndsLines, PastProvisioning, RunsTypeOK
  <1>5. PICK a, w : /\ runs' = [runs EXCEPT ![k] = a] /\ waiter' = [waiter EXCEPT ![k] = w]
                    /\ a.task = runs[k].task /\ a \in RunRecords
                    /\ w \in {"none", "armed"}
                    /\ a.status # "none" /\ (runs[k].status = "none" => w = "armed")
                    /\ (runs[k].status # "none" => w = waiter[k])
    <2>1. runs[k] \in RunRecords
      BY <1>1 DEF RunsTypeOK
    <2>2. CASE runs[k].status = "none"
      <3>1. PICK a, w : a = [runs[k] EXCEPT !.status = "submitted"] /\ w = "armed"
        OBVIOUS
      <3>2. a.task = runs[k].task /\ a \in RunRecords /\ a.status = "submitted"
        BY <2>1, <3>1 DEF RunRecords
      <3>3. runs' = [runs EXCEPT ![k] = a] /\ waiter' = [waiter EXCEPT ![k] = w]
        BY <1>2, <1>4, <2>2, <3>1 DEF Register
      <3> QED
        BY <2>2, <3>1, <3>2, <3>3
    <2>3. CASE runs[k].status # "none"
      <3>1. runs' = [runs EXCEPT ![k] = runs[k]] /\ waiter' = [waiter EXCEPT ![k] = waiter[k]]
        BY <1>1, <1>2, <2>3 DEF Register, RunsTypeOK
      <3> QED
        BY <1>4, <2>1, <2>3, <3>1
    <2> QED
      BY <2>2, <2>3
  <1>6. /\ submission'[t] = "provisioning" /\ \A u \in Triggers \ {t} : submission'[u] = submission[u]
        /\ preRunLogs'[k] = t /\ runs'[k] = a /\ waiter'[k] = w
        /\ \A l \in Keys \ {k} : preRunLogs'[l] = preRunLogs[l] /\ runs'[l] = runs[l] /\ waiter'[l] = waiter[l]
    BY <1>1, <1>3, <1>5 DEF RunsTypeOK
  <1>7. RunsTypeOK'
    BY <1>1, <1>3, <1>5 DEF RunsTypeOK, Submissions, Tasks
  <1>8. ASSUME NEW u \in Triggers PROVE TaskEndsLines(u)' /\ ArrayIsKept(u)'
    <2>1. CASE u = t
      <3>1. TaskEndsLines(t)'
        BY <1>2, <1>3, <1>4, <1>5, <1>6 DEF TaskEndsLines
      <3>2. ArrayIsKept(t)'
        BY <1>1, <1>2, <1>3, <1>6 DEF ArrayIsKept
      <3> QED
        BY <2>1, <3>1, <3>2
    <2>2. CASE u # t
      <3>1. KeyOf[u] \in Keys \ {k}
        BY <1>2, <2>2, OtherRuns
      <3>2. TaskEndsLines(u)'
        BY <1>1, <1>3, <1>6, <2>2, <3>1 DEF TaskEndsLines
      <3>3. ArrayIsKept(u)'
        BY <1>1, <1>3, <1>6, <2>2, <3>1 DEF ArrayIsKept
      <3> QED
        BY <3>2, <3>3
    <2> QED
      BY <2>1, <2>2
  <1>9. ASSUME NEW l \in Keys PROVE RunIsNamed(l)'
    <2>1. RunIsNamed(l)
      BY DEF RunsInv
    <2>2. CASE l = k
      BY <1>2, <1>3, <1>5, <1>6, <2>1, <2>2 DEF RunIsNamed
    <2>3. CASE l # k
      BY <1>3, <1>6, <2>1, <2>3 DEF RunIsNamed
    <2> QED
      BY <2>2, <2>3
  <1>10. SocksAreFed'
    BY <1>1, <1>3, <1>6, SocksRest DEF PastProvisioning
  <1> QED
    BY <1>7, <1>8, <1>9, <1>10 DEF RunsInv

\* What a submission that ends its provisioning, or is past it, does to its run.
LEMMA OwnRun ==
    ASSUME OneTriggerEach, RunsInv, NEW t \in Triggers,
           NEW to \in {"tracked", "ended"}, NEW a \in RunRecords,
           NEW w \in {"none", "armed", "ready", "failed"}, NEW d \in {NoTask, t},
           submission' = [submission EXCEPT ![t] = to],
           runs' = [runs EXCEPT ![KeyOf[t]] = a],
           waiter' = [waiter EXCEPT ![KeyOf[t]] = w],
           diskRuns' = [diskRuns EXCEPT ![KeyOf[t]] = d],
           diskLogs' \in [Keys -> Tasks],
           UNCHANGED <<lineCount, preRunLogs, sock, diskPreLogs, runRestarts>>,
           a.task \in {NoTask, t}, to = "tracked" => a.task = t,
           a.task = NoTask /\ a.status # "none" => w # "none"
    PROVE  RunsInv'
  <1>1. RunsTypeOK /\ SocksAreFed /\ \A u \in Triggers : TaskEndsLines(u) /\ ArrayIsKept(u)
    BY DEF RunsInv
  <1>2. PICK k \in Keys : k = KeyOf[t]
    BY RunsAssumption
  <1>3. /\ submission'[t] = to /\ \A u \in Triggers \ {t} : submission'[u] = submission[u]
        /\ runs'[k] = a /\ waiter'[k] = w /\ diskRuns'[k] = d
        /\ \A l \in Keys \ {k} : diskRuns'[l] = diskRuns[l] /\ runs'[l] = runs[l] /\ waiter'[l] = waiter[l]
    BY <1>1, <1>2 DEF RunsTypeOK
  <1>4. RunsTypeOK'
    <2>1. runs' \in [Keys -> RunRecords] /\ diskRuns' \in [Keys -> Tasks]
      BY <1>1, <1>2 DEF RunsTypeOK, RunRecords, Tasks
    <2> QED
      BY <1>1, <1>2, <2>1 DEF RunsTypeOK, RunRecords, Submissions
  <1>5. ASSUME NEW u \in Triggers PROVE TaskEndsLines(u)' /\ ArrayIsKept(u)'
    <2>1. CASE u = t
      <3>1. TaskEndsLines(t)'
        BY <1>2, <1>3 DEF TaskEndsLines, PastProvisioning
      <3>2. ArrayIsKept(t)'
        BY <1>1, <1>3, ArraysRest
      <3> QED
        BY <2>1, <3>1, <3>2
    <2>2. CASE u # t
      <3>1. KeyOf[u] \in Keys \ {k}
        BY <1>2, <2>2, OtherRuns
      <3>2. TaskEndsLines(u)'
        BY <1>1, <1>3, <2>2, <3>1 DEF TaskEndsLines
      <3>3. ArrayIsKept(u)'
        BY <1>1, <1>3, <2>2, ArraysRest
      <3> QED
        BY <3>2, <3>3
    <2> QED
      BY <2>1, <2>2
  <1>6. ASSUME NEW l \in Keys PROVE RunIsNamed(l)'
    <2>1. RunIsNamed(l)
      BY DEF RunsInv
    <2>2. CASE l = k
      BY <1>2, <1>3, <2>2 DEF RunIsNamed
    <2>3. CASE l # k
      BY <1>3, <2>1, <2>3 DEF RunIsNamed
    <2> QED
      BY <2>2, <2>3
  <1>7. SocksAreFed'
    BY <1>1, <1>3, SocksRest DEF PastProvisioning
  <1> QED
    BY <1>4, <1>5, <1>6, <1>7 DEF RunsInv

\* The end of provisioning, and the polls of trackRun.
LEMMA SubmissionKeeps ==
    ASSUME OneTriggerEach, RunsInv, NEW t \in Triggers,
           SubmitFails(t) \/ SubmitSucceeds(t) \/ TrackRunning(t) \/ TrackEnds(t)
    PROVE  RunsInv'
  <1>1. RunsTypeOK /\ TaskEndsLines(t)
    BY DEF RunsInv
  <1>2. PICK k \in Keys : k = KeyOf[t]
    BY RunsAssumption
  <1>3. RunIsNamed(k)
    BY DEF RunsInv
  <1>4. /\ runs[k] \in RunRecords /\ waiter[k] \in {"none", "armed", "ready", "failed"}
        /\ diskRuns[k] \in Tasks /\ runs[k].task \in Tasks
    BY <1>1 DEF RunsTypeOK, RunRecords
  <1>5. runs[k].task \in {NoTask, t} /\ diskRuns[k] \in {NoTask, t}
    BY <1>2, <1>3, <1>4 DEF RunIsNamed, OneTriggerEach, Tasks
  <1>7. /\ runs = [runs EXCEPT ![k] = runs[k]] /\ waiter = [waiter EXCEPT ![k] = waiter[k]]
        /\ diskRuns = [diskRuns EXCEPT ![k] = diskRuns[k]]
        /\ submission = [submission EXCEPT ![t] = submission[t]]
        /\ diskLogs \in [Keys -> Tasks]
    BY <1>1 DEF RunsTypeOK
  <1>8. PICK w, v : /\ w = (IF waiter[k] = "armed" THEN "failed" ELSE waiter[k])
                    /\ v = (IF waiter[k] = "armed" THEN "ready" ELSE waiter[k])
    OBVIOUS
  <1>9. /\ w \in {"none", "armed", "ready", "failed"} /\ v \in {"none", "armed", "ready", "failed"}
        /\ (waiter[k] # "none" => w # "none" /\ v # "none")
    BY <1>4, <1>8
  <1>10. CASE SubmitFails(t)
    <2>1. /\ submission' = [submission EXCEPT ![t] = "ended"]
          /\ runs' = [runs EXCEPT ![KeyOf[t]] = runs[k]]
          /\ waiter' = [waiter EXCEPT ![KeyOf[t]] = w]
          /\ diskRuns' = [diskRuns EXCEPT ![KeyOf[t]] = diskRuns[k]] /\ diskLogs' \in [Keys -> Tasks]
          /\ UNCHANGED <<lineCount, preRunLogs, sock, diskPreLogs, runRestarts>>
      BY <1>2, <1>7, <1>8, <1>10 DEF SubmitFails, Settle, storeVars
    <2>2. runs[k].task = NoTask /\ runs[k].status # "none" => w # "none"
      BY <1>3, <1>9 DEF RunIsNamed
    <2> QED
      BY <1>4, <1>5, <1>9, <2>1, <2>2, OwnRun
  <1>11. CASE SubmitSucceeds(t)
    <2>1. PICK a : a = [task |-> t, status |-> "submitted"]
      OBVIOUS
    <2>2. a \in RunRecords /\ a.task = t /\ t # NoTask
      BY <2>1, RunsAssumption DEF RunRecords, Tasks
    <2>3. /\ submission' = [submission EXCEPT ![t] = "tracked"]
          /\ runs' = [runs EXCEPT ![KeyOf[t]] = a]
          /\ waiter' = [waiter EXCEPT ![KeyOf[t]] = v]
          /\ diskRuns' = [diskRuns EXCEPT ![KeyOf[t]] = t] /\ diskLogs' \in [Keys -> Tasks]
          /\ UNCHANGED <<lineCount, preRunLogs, sock, diskPreLogs, runRestarts>>
      BY <1>2, <1>7, <1>8, <1>11, <2>1 DEF SubmitSucceeds, Settle
    <2> QED
      BY <1>9, <2>2, <2>3, OwnRun
  <1>12. ASSUME submission[t] = "tracked" PROVE runs[k].task = t /\ t # NoTask
    BY <1>1, <1>2, <1>12, RunsAssumption DEF TaskEndsLines
  <1>13. CASE TrackRunning(t)
    <2>1. PICK a : a = [runs[k] EXCEPT !.status = "in_progress"]
      OBVIOUS
    <2>2. a \in RunRecords /\ a.task = t /\ t # NoTask
      BY <1>4, <1>12, <1>13, <2>1 DEF RunRecords, TrackRunning
    <2>3. /\ submission' = [submission EXCEPT ![t] = "tracked"]
          /\ runs' = [runs EXCEPT ![KeyOf[t]] = a]
          /\ waiter' = [waiter EXCEPT ![KeyOf[t]] = waiter[k]]
          /\ diskRuns' = [diskRuns EXCEPT ![KeyOf[t]] = diskRuns[k]] /\ diskLogs' \in [Keys -> Tasks]
          /\ UNCHANGED <<lineCount, preRunLogs, sock, diskPreLogs, runRestarts>>
      BY <1>2, <1>7, <1>13, <2>1 DEF TrackRunning, storeVars
    <2> QED
      BY <1>4, <1>5, <2>2, <2>3, OwnRun
  <1>14. CASE TrackEnds(t)
    <2>1. PICK st \in {"complete", "unknown"} : runs' = [runs EXCEPT ![k].status = st]
      BY <1>2, <1>14 DEF TrackEnds
    <2>2. PICK a : a = [runs[k] EXCEPT !.status = st]
      OBVIOUS
    <2>3. a \in RunRecords /\ a.task = t /\ t # NoTask
      BY <1>4, <1>12, <1>14, <2>2 DEF RunRecords, TrackEnds
    <2>4. diskLogs' \in [Keys -> Tasks]
      BY <1>2, <1>4, <1>7, <1>14 DEF TrackEnds
    <2>5. /\ submission' = [submission EXCEPT ![t] = "ended"]
          /\ runs' = [runs EXCEPT ![KeyOf[t]] = a]
          /\ waiter' = [waiter EXCEPT ![KeyOf[t]] = waiter[k]]
          /\ diskRuns' = [diskRuns EXCEPT ![KeyOf[t]] = diskRuns[k]]
          /\ UNCHANGED <<lineCount, preRunLogs, sock, diskPreLogs, runRestarts>>
      BY <1>2, <1>7, <1>14, <2>1, <2>2 DEF TrackEnds
    <2> QED
      BY <1>4, <1>5, <2>3, <2>4, <2>5, OwnRun
  <1> QED
    BY <1>10, <1>11, <1>13, <1>14

\* What a socket reads is the lines of the trigger of its run, from memory or,
\* after a restart, from disk.
LEMMA PreLogsAreTheLines ==
    ASSUME RunsInv, NEW t \in Triggers
    PROVE  PreLogs(KeyOf[t]) = Array(t, lineCount[t]) /\ lineCount[t] \in Nat
  <1>1. ArrayIsKept(t) /\ t # NoTask /\ lineCount[t] \in Nat
    BY RunsAssumption DEF RunsInv, RunsTypeOK
  <1> QED
    BY <1>1 DEF ArrayIsKept, PreLogs

\* Steps of one socket.
LEMMA OneSock ==
    ASSUME RunsInv, NEW s \in LogSocks, NEW x \in SockRecords, sock' = [sock EXCEPT ![s] = x],
           UNCHANGED <<submission, runs, waiter, lineCount, preRunLogs, diskRuns, diskPreLogs, diskLogs, runRestarts>>,
           x.at # "off", \E t \in Triggers : SockIsAt(s, t)'
    PROVE  RunsInv'
  <1>1. RunsTypeOK /\ SocksAreFed
    BY DEF RunsInv
  <1>2. sock'[s] = x /\ \A r \in LogSocks \ {s} : sock'[r] = sock[r]
    BY <1>1 DEF RunsTypeOK
  <1>3. RunsTypeOK'
    BY <1>1 DEF RunsTypeOK
  <1>4. \A t \in Triggers : TaskEndsLines(t)' /\ ArrayIsKept(t)'
    BY DEF RunsInv, TaskEndsLines, ArrayIsKept
  <1>5. \A k \in Keys : RunIsNamed(k)'
    BY DEF RunsInv, RunIsNamed
  <1>6. ASSUME NEW r \in LogSocks \ {s}, sock[r].at # "off" PROVE \E t \in Triggers : SockIsAt(r, t)'
    <2>1. PICK t \in Triggers : SockIsAt(r, t)
      BY <1>1, <1>6 DEF SocksAreFed
    <2>2. SockIsAt(r, t)'
      BY <1>2, <2>1 DEF SockIsAt
    <2> QED
      BY <2>2
  <1>7. SocksAreFed'
    BY <1>1, <1>2, <1>6 DEF SocksAreFed
  <1> QED
    BY <1>3, <1>4, <1>5, <1>7 DEF RunsInv

\* onopen: waiting only if the lines are not all there yet.
LEMMA LogOpenKeeps ==
    ASSUME OneTriggerEach, RunsInv, NEW s \in LogSocks, NEW k \in Keys, LogOpen(s, k)
    PROVE  RunsInv'
  <1>1. RunIsNamed(k) /\ RunsTypeOK /\ runs[k].status # "none"
    BY DEF RunsInv, LogOpen
  <1>2. PICK t \in Triggers : KeyOf[t] = k
    BY <1>1 DEF RunIsNamed
  <1>3. PICK waits : waits = (runs[k].task = NoTask /\ waiter[k] = "armed")
    OBVIOUS
  <1>4. PICK how : how = IF waits THEN "waiting" ELSE "piping"
    OBVIOUS
  <1>5. PICK y : y = [NoSock EXCEPT !.at = how, !.key = k, !.open = TRUE]
    OBVIOUS
  <1>6. NoSock \in SockRecords /\ NoSock.sent = 0 /\ NoSock.lines = <<>>
    BY DEF NoSock, SockRecords, Tasks
  <1>7. y \in SockRecords /\ y.sent = 0 /\ y.lines = <<>> /\ y.at = how /\ y.key = k
    BY <1>4, <1>5, <1>6 DEF SockRecords
  <1>8. PICK n \in Nat : n = lineCount[t] /\ PreLogs(k) = Array(t, n)
    BY <1>2, PreLogsAreTheLines
  <1>9. PICK x : x = Flush(y, Array(t, n))
    OBVIOUS
  <1>10. y.lines = Array(t, 0) /\ 0 <= n /\ 0 \in Nat
    BY <1>7, ArrayIsSeq
  <1>11. /\ x \in SockRecords /\ x.at = how /\ x.key = k /\ x.sent = n /\ x.lines = Array(t, n)
         /\ Len(x.lines) = n
    <2>1. Len(Array(t, n)) = n
      BY ArrayIsSeq
    <2> QED
      BY <1>7, <1>9, <1>10, <2>1, FlushReads
  <1>12. sock' = [sock EXCEPT ![s] = x]
    BY <1>3, <1>4, <1>5, <1>8, <1>9 DEF LogOpen
  <1>13. how = "piping" => submission[t] \in PastProvisioning
    <2> SUFFICES ASSUME ~(runs[k].task = NoTask /\ waiter[k] = "armed") PROVE submission[t] \in PastProvisioning
      BY <1>3, <1>4
    <2>1. runs[k].task \in Tasks /\ waiter[k] \in {"none", "armed", "ready", "failed"}
      BY <1>1 DEF RunsTypeOK, RunRecords
    <2>2. CASE runs[k].task # NoTask
      <3>1. runs[k].task = t
        BY <1>1, <1>2, <2>1, <2>2 DEF RunIsNamed, OneTriggerEach, Tasks
      <3> QED
        BY <1>2, <3>1 DEF RunsInv, TaskEndsLines
    <2>3. CASE runs[k].task = NoTask
      <3>1. waiter[k] \in {"ready", "failed"}
        BY <1>1, <2>1, <2>3 DEF RunIsNamed
      <3> QED
        BY <1>2, <3>1 DEF RunsInv, TaskEndsLines
    <2> QED
      BY <2>2, <2>3
  <1>14. UNCHANGED <<submission, runs, waiter, lineCount, preRunLogs, diskRuns, diskPreLogs, diskLogs, runRestarts>>
    BY DEF LogOpen, storeVars
  <1>15. sock'[s] = x
    BY <1>1, <1>12 DEF RunsTypeOK
  <1>16. SockIsAt(s, t)'
    BY <1>2, <1>4, <1>8, <1>11, <1>13, <1>14, <1>15 DEF SockIsAt
  <1> QED
    BY <1>4, <1>11, <1>12, <1>14, <1>16, OneSock

\* The last flush, the output, and the client's leaving.
LEMMA SockKeeps ==
    ASSUME RunsInv, NEW s \in LogSocks, LogReady(s) \/ LogPipe(s) \/ LogLeaves(s)
    PROVE  RunsInv'
  <1>1. RunsTypeOK /\ SocksAreFed /\ sock[s] \in SockRecords
    BY DEF RunsInv, RunsTypeOK
  <1>2. sock[s].at # "off"
    BY <1>1 DEF LogReady, LogPipe, LogLeaves, SocksAreFed, NoSock
  <1>3. PICK t \in Triggers : SockIsAt(s, t)
    BY <1>1, <1>2 DEF SocksAreFed
  <1>4. UNCHANGED <<submission, runs, waiter, lineCount, preRunLogs, diskRuns, diskPreLogs, diskLogs, runRestarts>>
    BY DEF LogReady, LogPipe, LogLeaves, storeVars
  <1>5. ASSUME NEW x \in SockRecords, sock' = [sock EXCEPT ![s] = x], x.at # "off",
               x.key = sock[s].key, x.lines = sock[s].lines, x.sent = sock[s].sent,
               x.at # sock[s].at => x.at \in {"piping", "closed"} /\ sock[s].at # "cut"
                                    /\ submission[t] \in PastProvisioning
        PROVE  RunsInv'
    <2>1. sock'[s] = x
      BY <1>1, <1>5 DEF RunsTypeOK
    <2>2. SockIsAt(s, t)'
      BY <1>3, <1>4, <1>5, <2>1 DEF SockIsAt
    <2> QED
      BY <1>4, <1>5, <2>2, OneSock
  <1>6. CASE LogReady(s)
    <2>1. sock[s].at = "waiting" /\ waiter[sock[s].key] \in {"ready", "failed"}
      BY <1>6 DEF LogReady
    <2>2. submission[t] \in PastProvisioning
      BY <1>3, <2>1 DEF RunsInv, SockIsAt, TaskEndsLines
    <2>3. PICK n \in Nat : n = lineCount[t] /\ PreLogs(sock[s].key) = Array(t, n)
      BY <1>3, PreLogsAreTheLines DEF SockIsAt
    <2>4. sock[s].sent = n /\ sock[s].lines = Array(t, n)
      BY <1>3, <2>1, <2>3 DEF SockIsAt
    <2>5. Flush(sock[s], Array(t, n)) = sock[s]
      <3>1. PICK y \in SockRecords : y = sock[s]
        BY <1>1
      <3>2. n <= n /\ y.sent = n /\ y.lines = Array(t, n)
        BY <2>4, <3>1
      <3> QED
        BY <3>1, <3>2, FlushReads
    <2>6. Flush(sock[s], PreLogs(sock[s].key)) = sock[s]
      BY <2>3, <2>5
    <2>7. PICK x : x = [sock[s] EXCEPT !.at = IF sock[s].open THEN "piping" ELSE "closed"]
      OBVIOUS
    <2>8. sock' = [sock EXCEPT ![s] = x]
      BY <1>6, <2>6, <2>7 DEF LogReady
    <2>9. /\ x \in SockRecords /\ x.at \in {"piping", "closed"}
          /\ x.key = sock[s].key /\ x.lines = sock[s].lines /\ x.sent = sock[s].sent
      BY <1>1, <2>7 DEF SockRecords
    <2> QED
      BY <1>5, <2>1, <2>2, <2>8, <2>9
  <1>7. CASE LogPipe(s)
    <2>1. sock[s].at = "piping"
      BY <1>7 DEF LogPipe
    <2>2. submission[t] \in PastProvisioning
      BY <1>3, <2>1 DEF SockIsAt
    <2>3. PICK out \in {runs[sock[s].key].task, diskLogs[sock[s].key]} :
              sock' = [sock EXCEPT ![s].at = "closed", ![s].output = out]
      BY <1>7 DEF LogPipe
    <2>4. out \in Tasks
      <3>1. sock[s].key \in Keys
        BY <1>3, RunsAssumption DEF SockIsAt
      <3> QED
        BY <1>1, <2>3, <3>1 DEF RunsTypeOK, RunRecords
    <2>5. PICK x : x = [sock[s] EXCEPT !.at = "closed", !.output = out]
      OBVIOUS
    <2>6. sock' = [sock EXCEPT ![s] = x]
      BY <1>1, <2>3, <2>5 DEF RunsTypeOK
    <2>7. /\ x \in SockRecords /\ x.at = "closed"
          /\ x.key = sock[s].key /\ x.lines = sock[s].lines /\ x.sent = sock[s].sent
      BY <1>1, <2>4, <2>5 DEF SockRecords
    <2> QED
      BY <1>5, <2>1, <2>2, <2>6, <2>7
  <1>8. CASE LogLeaves(s)
    <2>1. PICK x : x = [sock[s] EXCEPT !.open = FALSE]
      OBVIOUS
    <2>2. sock' = [sock EXCEPT ![s] = x]
      BY <1>8, <2>1 DEF LogLeaves
    <2>3. /\ x \in SockRecords /\ x.at = sock[s].at
          /\ x.key = sock[s].key /\ x.lines = sock[s].lines /\ x.sent = sock[s].sent
      BY <1>1, <2>1 DEF SockRecords
    <2> QED
      BY <1>2, <1>5, <2>2, <2>3
  <1> QED
    BY <1>6, <1>7, <1>8

\* A line is pushed, persisted, and read by every socket that waits for it.
LEMMA ProvisionLineKeeps ==
    ASSUME OneTriggerEach, RunsInv, NEW t \in Triggers, ProvisionLine(t)
    PROVE  RunsInv'
  <1>1. RunsTypeOK /\ SocksAreFed /\ \A u \in Triggers : TaskEndsLines(u) /\ ArrayIsKept(u)
    BY DEF RunsInv
  <1>2. PICK k \in Keys : k = KeyOf[t]
    BY RunsAssumption
  <1>3. PICK n \in Nat : n = lineCount[t]
    BY <1>1 DEF RunsTypeOK
  <1>4. submission[t] = "provisioning" /\ preRunLogs[k] = t
    BY <1>1, <1>2 DEF ProvisionLine, ArrayIsKept
  <1>5. /\ UNCHANGED <<submission, runs, waiter, preRunLogs, diskRuns, diskLogs, runRestarts>>
        /\ lineCount' = [lineCount EXCEPT ![t] = n + 1]
        /\ diskPreLogs' = [diskPreLogs EXCEPT ![k] = Array(t, n + 1)]
    BY <1>2, <1>3 DEF ProvisionLine
  <1>6. /\ lineCount'[t] = n + 1 /\ \A u \in Triggers \ {t} : lineCount'[u] = lineCount[u]
        /\ diskPreLogs'[k] = Array(t, n + 1) /\ \A l \in Keys \ {k} : diskPreLogs'[l] = diskPreLogs[l]
    BY <1>1, <1>5 DEF RunsTypeOK
  <1>7. sock' = [s \in LogSocks |-> IF sock[s].at = "waiting" /\ sock[s].key = k
                                    THEN Flush(sock[s], Array(t, n + 1)) ELSE sock[s]]
    BY <1>2, <1>4, <1>6 DEF ProvisionLine, PublishPreLog
  <1>8. ASSUME NEW s \in LogSocks
        PROVE  /\ sock'[s] \in SockRecords
               /\ IF sock[s].at = "off" THEN sock'[s] = NoSock
                  ELSE sock'[s].at # "off" /\ \E u \in Triggers : SockIsAt(s, u)'
    <2>1. sock[s] \in SockRecords
      BY <1>1 DEF RunsTypeOK
    <2>2. CASE sock[s].at = "off"
      BY <1>1, <1>7, <2>1, <2>2 DEF SocksAreFed
    <2>3. CASE sock[s].at # "off"
      <3>1. PICK u \in Triggers : SockIsAt(s, u)
        BY <1>1, <2>3 DEF SocksAreFed
      <3>2. CASE u = t
        <4>1. sock[s].key = k /\ sock[s].at \in {"waiting", "cut"}
          BY <1>2, <1>4, <2>1, <2>3, <3>1, <3>2 DEF SockIsAt, PastProvisioning, SockRecords
        <4>2. CASE sock[s].at = "waiting"
          <5>1. PICK y \in SockRecords : y = sock[s]
            BY <2>1
          <5>2. y.sent = n /\ y.lines = Array(t, n) /\ n + 1 \in Nat /\ n <= n + 1
            BY <1>3, <3>1, <3>2, <4>2, <5>1 DEF SockIsAt
          <5>3. PICK x : x = Flush(y, Array(t, n + 1))
            OBVIOUS
          <5>4. /\ x \in SockRecords /\ x.at = "waiting" /\ x.key = k /\ x.sent = n + 1
                /\ x.lines = Array(t, n + 1)
            BY <4>1, <4>2, <5>1, <5>2, <5>3, FlushReads
          <5>5. Len(Array(t, n + 1)) = n + 1
            BY <5>2, ArrayIsSeq
          <5>6. sock'[s] = x
            BY <1>7, <4>1, <4>2, <5>1, <5>3
          <5>7. SockIsAt(s, t)'
            BY <1>2, <1>6, <5>4, <5>5, <5>6 DEF SockIsAt
          <5> QED
            BY <2>3, <5>4, <5>6, <5>7
        <4>3. CASE sock[s].at = "cut"
          <5>1. sock'[s] = sock[s]
            BY <1>7, <4>3
          <5>2. SockIsAt(s, t)'
            BY <3>1, <3>2, <4>3, <5>1 DEF SockIsAt
          <5> QED
            BY <2>1, <2>3, <5>1, <5>2
        <4> QED
          BY <4>1, <4>2, <4>3
      <3>3. CASE u # t
        <4>1. KeyOf[u] # k
          BY <1>2, <3>3, OtherRuns
        <4>2. sock'[s] = sock[s]
          BY <1>7, <3>1, <4>1 DEF SockIsAt
        <4>3. SockIsAt(s, u)'
          BY <1>5, <1>6, <3>1, <3>3, <4>2 DEF SockIsAt
        <4> QED
          BY <2>1, <2>3, <4>2, <4>3
      <3> QED
        BY <3>2, <3>3
    <2> QED
      BY <2>2, <2>3
  <1>9. RunsTypeOK'
    <2>1. sock' \in [LogSocks -> SockRecords]
      BY <1>7, <1>8
    <2>2. Array(t, n + 1) \in Seq(Triggers \X Nat)
      BY ArrayIsSeq
    <2> QED
      BY <1>1, <1>5, <2>1, <2>2 DEF RunsTypeOK
  <1>10. ASSUME NEW u \in Triggers PROVE TaskEndsLines(u)' /\ ArrayIsKept(u)'
    <2>1. TaskEndsLines(u)'
      BY <1>1, <1>5 DEF TaskEndsLines
    <2>2. CASE u = t
      BY <1>1, <1>2, <1>5, <1>6, <2>1, <2>2 DEF ArrayIsKept
    <2>3. CASE u # t
      <3>1. KeyOf[u] \in Keys \ {k}
        BY <1>2, <2>3, OtherRuns
      <3> QED
        BY <1>1, <1>5, <1>6, <2>1, <2>3, <3>1 DEF ArrayIsKept
    <2> QED
      BY <2>2, <2>3
  <1>11. \A l \in Keys : RunIsNamed(l)'
    BY <1>5 DEF RunsInv, RunIsNamed
  <1>12. SocksAreFed'
    <2>1. NoSock.at = "off"
      BY DEF NoSock
    <2> QED
      BY <1>8, <2>1 DEF SocksAreFed
  <1> QED
    BY <1>9, <1>10, <1>11, <1>12 DEF RunsInv

\* A restart: sockets are cut with what they have, runs come back from disk.
LEMMA RunsRestartKeeps == RunsInv /\ RunsRestart => RunsInv'
  <1> SUFFICES ASSUME RunsInv, RunsRestart PROVE RunsInv'
    OBVIOUS
  <1>1. RunsTypeOK /\ SocksAreFed /\ \A u \in Triggers : TaskEndsLines(u) /\ ArrayIsKept(u)
    BY DEF RunsInv
  <1>2. /\ UNCHANGED <<lineCount, diskRuns, diskPreLogs, diskLogs>> /\ runRestarts' = runRestarts + 1
        /\ submission' = [t \in Triggers |-> IF submission[t] = "idle" THEN "idle" ELSE "lost"]
        /\ runs' = [k \in Keys |-> IF diskRuns[k] = NoTask THEN [task |-> NoTask, status |-> "none"]
                                   ELSE [task |-> diskRuns[k], status |-> "submitted"]]
        /\ waiter' = [k \in Keys |-> "none"] /\ preRunLogs' = [k \in Keys |-> NoTask]
        /\ sock' = [s \in LogSocks |-> IF sock[s].at = "off" THEN NoSock
                                       ELSE [sock[s] EXCEPT !.at = "cut", !.open = FALSE]]
    BY DEF RunsRestart
  <1>3. ASSUME NEW s \in LogSocks
        PROVE  /\ sock'[s] \in SockRecords
               /\ IF sock[s].at = "off" THEN sock'[s] = NoSock
                  ELSE sock'[s].at # "off" /\ \E u \in Triggers : SockIsAt(s, u)'
    <2>1. sock[s] \in SockRecords
      BY <1>1 DEF RunsTypeOK
    <2>2. CASE sock[s].at = "off"
      BY <1>1, <1>2, <2>1, <2>2 DEF SocksAreFed
    <2>3. CASE sock[s].at # "off"
      <3>1. PICK u \in Triggers : SockIsAt(s, u)
        BY <1>1, <2>3 DEF SocksAreFed
      <3>2. PICK x : x = [sock[s] EXCEPT !.at = "cut", !.open = FALSE]
        OBVIOUS
      <3>3. sock'[s] = x
        BY <1>2, <2>3, <3>2
      <3>4. x \in SockRecords /\ x.at = "cut" /\ x.key = sock[s].key /\ x.lines = sock[s].lines
        BY <2>1, <3>2 DEF SockRecords
      <3>5. SockIsAt(s, u)'
        BY <3>1, <3>3, <3>4 DEF SockIsAt
      <3> QED
        BY <2>3, <3>3, <3>4, <3>5
    <2> QED
      BY <2>2, <2>3
  <1>4. RunsTypeOK'
    <2>1. sock' \in [LogSocks -> SockRecords]
      BY <1>2, <1>3
    <2>2. runs' \in [Keys -> RunRecords]
      BY <1>1, <1>2 DEF RunsTypeOK, RunRecords, Tasks
    <2>3. /\ submission' \in [Triggers -> Submissions] /\ waiter' \in [Keys -> {"none", "armed", "ready", "failed"}]
          /\ preRunLogs' \in [Keys -> Tasks]
      BY <1>2 DEF Submissions, Tasks
    <2>4. UNCHANGED <<lineCount, diskRuns, diskPreLogs, diskLogs>> /\ runRestarts' = runRestarts + 1
      BY <1>2
    <2> QED
      BY <1>1, <2>1, <2>2, <2>3, <2>4 DEF RunsTypeOK, RunRecords
  <1>5. ASSUME NEW t \in Triggers PROVE TaskEndsLines(t)' /\ ArrayIsKept(t)'
    <2>1. KeyOf[t] \in Keys /\ t # NoTask
      BY RunsAssumption
    <2>2. /\ submission'[t] \in {"idle", "lost"} /\ (submission[t] \in PastProvisioning => submission'[t] = "lost")
          /\ waiter'[KeyOf[t]] = "none" /\ preRunLogs'[KeyOf[t]] = NoTask
          /\ (runs'[KeyOf[t]].task = t => diskRuns[KeyOf[t]] = t)
      BY <1>2, <2>1 DEF PastProvisioning
    <2>3. TaskEndsLines(t)'
      BY <1>1, <1>2, <2>2 DEF TaskEndsLines, PastProvisioning
    <2>4. ArrayIsKept(t)'
      BY <1>1, <1>2, <2>2 DEF ArrayIsKept
    <2> QED
      BY <2>3, <2>4
  <1>6. ASSUME NEW k \in Keys PROVE RunIsNamed(k)'
    <2>1. RunIsNamed(k) /\ diskRuns[k] \in Tasks
      BY <1>1 DEF RunsInv, RunsTypeOK
    <2>2. \/ diskRuns[k] = NoTask /\ runs'[k].task = NoTask /\ runs'[k].status = "none"
          \/ diskRuns[k] # NoTask /\ runs'[k].task = diskRuns[k]
      BY <1>2
    <2> QED
      BY <1>2, <2>1, <2>2 DEF RunIsNamed, Tasks
  <1>7. SocksAreFed'
    <2>1. NoSock.at = "off"
      BY DEF NoSock
    <2> QED
      BY <1>3, <2>1 DEF SocksAreFed
  <1> QED
    BY <1>4, <1>5, <1>6, <1>7 DEF RunsInv

\* Every step keeps the invariant.
LEMMA RunsNextInv == OneTriggerEach /\ RunsInv /\ [RunsNext]_runVars => RunsInv'
  <1> SUFFICES ASSUME OneTriggerEach, RunsInv, [RunsNext]_runVars PROVE RunsInv'
    OBVIOUS
  <1>1. CASE UNCHANGED runVars
    BY <1>1 DEF runVars, RunsInv, RunsTypeOK, TaskEndsLines, ArrayIsKept, RunIsNamed, SocksAreFed, SockIsAt
  <1>2. CASE RunsNext
    BY <1>2, MovesOn, RegisterKeeps, SubmissionKeeps, ProvisionLineKeeps, LogOpenKeeps, SockKeeps,
       RunsRestartKeeps DEF RunsNext, SubmissionStep
  <1> QED
    BY <1>1, <1>2

\* If each run has one trigger, a /logs socket is sent the log of its submission
\* from the first line on, and all of it once the submission has ended, whenever
\* it came and wherever the process restarts.
THEOREM LogsHold ==
    ASSUME OneTriggerEach PROVE RunsSpec => []LogIsSound
  <1>1. RunsSpec => []RunsInv
    BY RunsInitInv, RunsNextInv, PTL DEF RunsSpec
  <1>2. RunsInv => LogIsSound
    <2> SUFFICES ASSUME RunsInv PROVE LogIsExact /\ LogIsComplete
      BY DEF LogIsSound
    <2>1. ASSUME NEW s \in LogSocks
          PROVE  /\ \E t \in Triggers \cup {NoTask} : sock[s].lines = Array(t, Len(sock[s].lines))
                 /\ sock[s].at = "closed" =>
                       \A t \in Triggers : KeyOf[t] = sock[s].key => Len(sock[s].lines) = lineCount[t]
      <3>1. CASE sock[s].at = "off"
        <4>1. sock[s].lines = <<>> /\ Len(sock[s].lines) = 0
          BY <3>1 DEF RunsInv, SocksAreFed, NoSock
        <4>2. Array(NoTask, 0) = <<>>
          BY DEF Array
        <4> QED
          BY <3>1, <4>1, <4>2
      <3>2. CASE sock[s].at # "off"
        <4>1. PICK u \in Triggers : SockIsAt(s, u)
          BY <3>2 DEF RunsInv, SocksAreFed
        <4> QED
          BY <4>1 DEF SockIsAt, OneTriggerEach
      <3> QED
        BY <3>1, <3>2
    <2> QED
      BY <2>1 DEF LogIsExact, LogIsComplete
  <1> QED
    BY <1>1, <1>2, PTL

-----------------------------------------------------------------------------
(* SpindleRuns: a client of /events misses nothing after its cursor      *)

Ascending(s) == \A i, j \in 1..Len(s) : i < j => s[i] < s[j]

\* Every event of s has a time before the next stamp.
Stamped(s) == \A i \in 1..Len(s) : s[i] > 0 /\ (s[i] <= lastNanos \/ s[i] < clock)

EventsTypeOK ==
    /\ clock \in Nat \ {0} /\ lastNanos \in Nat
    /\ eventLog \in Seq(Nat) /\ eventDisk \in Seq(Nat)
    /\ watch \in [Watchers -> {"away", "live", "gone"}]
    /\ got \in [Watchers -> Seq(Nat)] /\ cursor \in [Watchers -> Nat]

\* A live client has what the log has after its cursor.
HasAfterCursor(w) ==
    watch[w] = "live" =>
        \A i \in 1..Len(eventLog) : eventLog[i] > cursor[w] =>
            \E j \in 1..Len(got[w]) : got[w][j] = eventLog[i]

EventsInv ==
    /\ EventsTypeOK
    /\ Ascending(eventLog) /\ Stamped(eventLog)
    /\ Ascending(eventDisk) /\ Stamped(eventDisk)
    /\ \A w \in Watchers : Ascending(got[w]) /\ Stamped(got[w]) /\ HasAfterCursor(w)

\* The initial states satisfy the invariant.
LEMMA EventsInitInv == EventsInit => EventsInv
  <1> SUFFICES ASSUME EventsInit PROVE EventsInv
    OBVIOUS
  <1>1. EventsTypeOK
    BY DEF EventsInit, EventsTypeOK
  <1>2. Len(<<>>) = 0
    OBVIOUS
  <1> QED
    BY <1>1, <1>2 DEF EventsInit, EventsInv, Ascending, Stamped, HasAfterCursor

\* A new stamp is later than every event.
LEMMA StampIsNew ==
    ASSUME EventsTypeOK
    PROVE  /\ NowNs \in Nat \ {0}
           /\ \A x \in Nat : x <= lastNanos \/ x < clock => x < NowNs
  BY DEF EventsTypeOK, NowNs

\* Appending a later event keeps a sequence ascending.
LEMMA AppendAscends ==
    ASSUME NEW s \in Seq(Nat), Ascending(s), NEW e \in Nat, \A i \in 1..Len(s) : s[i] < e
    PROVE  /\ Append(s, e) \in Seq(Nat) /\ Ascending(Append(s, e))
           /\ Len(Append(s, e)) = Len(s) + 1 /\ Append(s, e)[Len(s) + 1] = e
           /\ \A i \in 1..Len(s) : Append(s, e)[i] = s[i]
  <1>1. PICK t \in Seq(Nat) : t = Append(s, e)
    BY AppendProperties
  <1>2. Len(t) = Len(s) + 1 /\ t[Len(s) + 1] = e /\ \A i \in 1..Len(s) : t[i] = s[i]
    BY <1>1, AppendProperties
  <1>3. Ascending(t)
    <2> SUFFICES ASSUME NEW i \in 1..Len(t), NEW j \in 1..Len(t), i < j PROVE t[i] < t[j]
      BY DEF Ascending
    <2>1. i \in 1..Len(s) /\ t[i] = s[i]
      BY <1>2
    <2>2. CASE j \in 1..Len(s)
      BY <1>2, <2>1, <2>2 DEF Ascending
    <2>3. CASE j = Len(s) + 1
      BY <1>2, <2>1, <2>3
    <2>4. PICK n \in Nat : n = Len(s)
      OBVIOUS
    <2>5. j \in 1..(n + 1)
      BY <1>2, <2>4
    <2>6. j \in 1..n \/ j = n + 1
      BY <2>5
    <2>7. j \in 1..Len(s) \/ j = Len(s) + 1
      BY <2>4, <2>6
    <2> QED
      BY <2>2, <2>3, <2>7
  <1> QED
    BY <1>1, <1>2, <1>3

\* So does dropping the first one.
LEMMA TailAscends ==
    ASSUME NEW s \in Seq(Nat), Ascending(s), Len(s) # 0
    PROVE  /\ Tail(s) \in Seq(Nat) /\ Ascending(Tail(s)) /\ Len(Tail(s)) = Len(s) - 1
           /\ \A i \in 1..Len(Tail(s)) : i + 1 \in 1..Len(s) /\ Tail(s)[i] = s[i + 1]
  <1>1. s # <<>>
    OBVIOUS
  <1>2. PICK t \in Seq(Nat) : t = Tail(s)
    BY <1>1, HeadTailProperties
  <1>3. Len(t) = Len(s) - 1 /\ \A i \in 1..Len(t) : i + 1 \in 1..Len(s) /\ t[i] = s[i + 1]
    BY <1>1, <1>2, HeadTailProperties
  <1>4. Ascending(t)
    <2> SUFFICES ASSUME NEW i \in 1..Len(t), NEW j \in 1..Len(t), i < j PROVE t[i] < t[j]
      BY DEF Ascending
    <2>1. i + 1 \in 1..Len(s) /\ j + 1 \in 1..Len(s) /\ i + 1 < j + 1
      BY <1>3
    <2> QED
      BY <1>3, <2>1 DEF Ascending
  <1> QED
    BY <1>2, <1>3, <1>4

\* The ring stays ascending; what is in it is the new event or was in it.
LEMMA RingAscends ==
    ASSUME NEW s \in Seq(Nat), Ascending(s), NEW e \in Nat, \A i \in 1..Len(s) : s[i] < e
    PROVE  /\ Ring(s, e) \in Seq(Nat) /\ Ascending(Ring(s, e))
           /\ \A i \in 1..Len(Ring(s, e)) :
                 Ring(s, e)[i] = e \/ \E j \in 1..Len(s) : Ring(s, e)[i] = s[j]
  <1>1. CASE Len(s) >= MaxLog
    <2>1. Len(s) # 0
      BY <1>1, EventsAssumption
    <2>2. PICK t \in Seq(Nat) : t = Tail(s) /\ Ascending(t) /\ \A i \in 1..Len(t) : i + 1 \in 1..Len(s) /\ t[i] = s[i + 1]
      BY <2>1, TailAscends
    <2>3. \A i \in 1..Len(t) : t[i] < e
      BY <2>2
    <2>4. Ring(s, e) = Append(t, e)
      BY <1>1, <2>2 DEF Ring
    <2>5. PICK u \in Seq(Nat) : /\ u = Append(t, e) /\ Ascending(u)
                                /\ Len(u) = Len(t) + 1 /\ u[Len(t) + 1] = e
                                /\ \A i \in 1..Len(t) : u[i] = t[i]
      BY <2>2, <2>3, AppendAscends
    <2>6. \A i \in 1..Len(u) : u[i] = e \/ \E j \in 1..Len(s) : u[i] = s[j]
      <3> SUFFICES ASSUME NEW i \in 1..Len(u), u[i] # e PROVE \E j \in 1..Len(s) : u[i] = s[j]
        OBVIOUS
      <3>1. i \in 1..Len(t)
        BY <2>5
      <3> QED
        BY <2>2, <2>5, <3>1
    <2> QED
      BY <2>4, <2>5, <2>6
  <1>2. CASE ~(Len(s) >= MaxLog)
    <2>1. Ring(s, e) = Append(s, e)
      BY <1>2 DEF Ring
    <2>2. PICK u \in Seq(Nat) : /\ u = Append(s, e) /\ Ascending(u)
                                /\ Len(u) = Len(s) + 1 /\ u[Len(s) + 1] = e
                                /\ \A i \in 1..Len(s) : u[i] = s[i]
      BY AppendAscends
    <2>3. \A i \in 1..Len(u) : u[i] = e \/ \E j \in 1..Len(s) : u[i] = s[j]
      <3> SUFFICES ASSUME NEW i \in 1..Len(u), u[i] # e PROVE \E j \in 1..Len(s) : u[i] = s[j]
        OBVIOUS
      <3>1. i \in 1..Len(s)
        BY <2>2
      <3> QED
        BY <2>2, <3>1
    <2> QED
      BY <2>1, <2>2, <2>3
  <1> QED
    BY <1>1, <1>2
\* The backfill is what the log has after the cursor, in its order.
LEMMA BackfillIsAfter ==
    ASSUME EventsInv, NEW from \in Nat
    PROVE  /\ Backfill(from) \in Seq(Nat) /\ Ascending(Backfill(from))
           /\ \A k \in 1..Len(Backfill(from)) :
                 /\ Backfill(from)[k] > from
                 /\ \E i \in 1..Len(eventLog) : Backfill(from)[k] = eventLog[i]
           /\ \A i \in 1..Len(eventLog) : eventLog[i] > from =>
                 \E k \in 1..Len(Backfill(from)) : Backfill(from)[k] = eventLog[i]
  <1>1. PICK s \in Seq(Nat) : s = eventLog /\ Ascending(s) /\ \A i \in 1..Len(s) : s[i] > 0
    BY DEF EventsInv, EventsTypeOK, Stamped
  <1>2. CASE from = 0
    <2>1. Backfill(from) = s
      BY <1>1, <1>2 DEF Backfill
    <2> QED
      BY <1>1, <1>2, <2>1
  <1>3. CASE from > 0
    <2>1. PICK I \in SUBSET (DOMAIN s) : I = {i \in DOMAIN s : s[i] > from}
      OBVIOUS
    <2>2. PICK b : b = Backfill(from) /\ b = AtIndices(s, I)
      BY <1>1, <1>3, <2>1 DEF Backfill
    <2>3. PICK g : /\ Picks(g, I) /\ b = [k \in 1..Cardinality(I) |-> s[g[k]]]
                   /\ b \in Seq(Nat) /\ Len(b) = Cardinality(I)
      BY <2>2, AtIndicesPicks
    <2>4. /\ g \in [1..Len(b) -> I]
          /\ \A k, l \in 1..Len(b) : k < l => g[k] < g[l]
          /\ \A i \in I : \E k \in 1..Len(b) : g[k] = i
      BY <2>3 DEF Picks
    <2>5. \A k \in 1..Len(b) : g[k] \in 1..Len(s) /\ b[k] = s[g[k]] /\ s[g[k]] > from
      <3> TAKE k \in 1..Len(b)
      <3>1. g[k] \in I
        BY <2>4
      <3>2. b[k] = s[g[k]]
        BY <2>3
      <3> QED
        BY <2>1, <3>1, <3>2
    <2>6. Ascending(b)
      BY <1>1, <2>4, <2>5 DEF Ascending
    <2>7. \A i \in 1..Len(s) : s[i] > from => \E k \in 1..Len(b) : b[k] = s[i]
      BY <2>1, <2>4, <2>5
    <2>8. \A k \in 1..Len(b) : b[k] > from /\ \E i \in 1..Len(s) : b[k] = s[i]
      BY <2>5
    <2>9. b \in Seq(Nat)
      BY <2>3
    <2>10. Backfill(from) = b /\ eventLog = s
      BY <1>1, <2>2
    <2> HIDE <1>1, <2>2
    <2> QED
      BY <2>6, <2>7, <2>8, <2>9, <2>10
  <1> QED
    BY <1>2, <1>3

\* One sequence after another that is before it throughout.
LEMMA ConcatAscends ==
    ASSUME NEW s \in Seq(Nat), NEW t \in Seq(Nat), Ascending(s), Ascending(t),
           \A i \in 1..Len(s), j \in 1..Len(t) : s[i] < t[j]
    PROVE  /\ s \o t \in Seq(Nat) /\ Ascending(s \o t)
           /\ \A i \in 1..Len(s \o t) : \/ \E j \in 1..Len(s) : (s \o t)[i] = s[j]
                                        \/ \E j \in 1..Len(t) : (s \o t)[i] = t[j]
           /\ \A j \in 1..Len(t) : \E i \in 1..Len(s \o t) : (s \o t)[i] = t[j]
  <1>0. PICK u : u = s \o t
    OBVIOUS
  <1>1. /\ u \in Seq(Nat) /\ u = s \o t /\ Len(u) = Len(s) + Len(t)
        /\ \A i \in 1..Len(u) : u[i] = IF i <= Len(s) THEN s[i] ELSE t[i - Len(s)]
    BY <1>0, ConcatProperties
  <1>2. \A i \in 1..Len(u) : IF i <= Len(s) THEN i \in 1..Len(s) /\ u[i] = s[i]
                             ELSE i - Len(s) \in 1..Len(t) /\ u[i] = t[i - Len(s)]
    BY <1>1
  <1>3. Ascending(u)
    <2> SUFFICES ASSUME NEW i \in 1..Len(u), NEW j \in 1..Len(u), i < j PROVE u[i] < u[j]
      BY DEF Ascending
    <2>1. CASE j <= Len(s)
      BY <1>2, <2>1 DEF Ascending
    <2>2. CASE i <= Len(s) /\ ~(j <= Len(s))
      BY <1>2, <2>2
    <2>3. CASE ~(i <= Len(s))
      <3>1. i - Len(s) \in 1..Len(t) /\ j - Len(s) \in 1..Len(t) /\ i - Len(s) < j - Len(s)
        BY <1>2, <2>3
      <3>2. u[i] = t[i - Len(s)] /\ u[j] = t[j - Len(s)]
        BY <1>2, <2>3
      <3> QED
        BY <3>1, <3>2 DEF Ascending
    <2> QED
      BY <2>1, <2>2, <2>3
  <1>4. \A j \in 1..Len(t) : Len(s) + j \in 1..Len(u) /\ u[Len(s) + j] = t[j]
    BY <1>1
  <1> QED
    BY <1>1, <1>2, <1>3, <1>4

\* Every step keeps the invariant.
LEMMA EventsNextInv == EventsInv /\ [EventsNext]_eventVars => EventsInv'
  <1> SUFFICES ASSUME EventsInv, [EventsNext]_eventVars PROVE EventsInv'
    OBVIOUS
  <1>1. EventsTypeOK
    BY DEF EventsInv
  <1>2. CASE Tick
    <2>1. EventsTypeOK'
      BY <1>1, <1>2 DEF Tick, EventsTypeOK
    <2>2. ASSUME NEW s \in Seq(Nat), Stamped(s) PROVE \A i \in 1..Len(s) : s[i] > 0 /\ (s[i] <= lastNanos' \/ s[i] < clock')
      BY <1>1, <1>2, <2>2 DEF Tick, EventsTypeOK, Stamped
    <2>3. Stamped(eventLog)' /\ Stamped(eventDisk)' /\ \A w \in Watchers : Stamped(got[w])'
      BY <1>1, <1>2, <2>2 DEF Tick, EventsTypeOK, EventsInv, Stamped
    <2> QED
      BY <1>2, <2>1, <2>3 DEF Tick, EventsInv, Ascending, HasAfterCursor
  <1>3. CASE EventsRestart
    <2>1. EventsTypeOK'
      BY <1>1, <1>3 DEF EventsRestart, EventsTypeOK
    <2>2. ASSUME NEW s \in Seq(Nat), Stamped(s) PROVE \A i \in 1..Len(s) : s[i] > 0 /\ (s[i] <= lastNanos' \/ s[i] < clock')
      <3>1. clock' \in Nat /\ clock' > lastNanos /\ clock' >= clock /\ lastNanos \in Nat /\ clock \in Nat
        BY <1>1, <1>3 DEF EventsRestart, EventsTypeOK
      <3>2. ASSUME NEW x \in Nat, x <= lastNanos \/ x < clock PROVE x < clock'
        BY <3>1, <3>2
      <3>3. \A i \in 1..Len(s) : s[i] \in Nat
        OBVIOUS
      <3> QED
        BY <2>2, <3>2, <3>3 DEF Stamped
    <2>3. Stamped(eventLog)' /\ Stamped(eventDisk)' /\ \A w \in Watchers : Stamped(got[w])'
      BY <1>1, <1>3, <2>2 DEF EventsRestart, EventsTypeOK, EventsInv, Stamped
    <2>4. \A w \in Watchers : watch'[w] # "live"
      BY <1>3 DEF EventsRestart
    <2> QED
      BY <1>3, <2>1, <2>3, <2>4 DEF EventsRestart, EventsInv, Ascending, HasAfterCursor
  <1>4. ASSUME NEW saved \in BOOLEAN, BroadcastStatus(saved) PROVE EventsInv'
    <2>1. PICK e \in Nat \ {0} : e = NowNs /\ \A x \in Nat : x <= lastNanos \/ x < clock => x < e
      BY <1>1, StampIsNew
    <2>2. /\ lastNanos' = e /\ clock' = clock /\ watch' = watch /\ cursor' = cursor
          /\ eventLog' = Ring(eventLog, e) /\ eventDisk' \in {eventLog', eventDisk}
          /\ got' = [w \in Watchers |-> IF watch[w] = "live" THEN Append(got[w], e) ELSE got[w]]
      BY <1>4, <2>1 DEF BroadcastStatus
    <2>3. ASSUME NEW s \in Seq(Nat), Stamped(s)
          PROVE  \A i \in 1..Len(s) : s[i] > 0 /\ s[i] < e
      BY <2>1, <2>3 DEF Stamped
    <2>4. PICK r \in Seq(Nat) :
             /\ r = Ring(eventLog, e) /\ Ascending(r)
             /\ \A i \in 1..Len(r) : r[i] = e \/ \E j \in 1..Len(eventLog) : r[i] = eventLog[j]
      BY <1>1, <2>1, <2>3, RingAscends DEF EventsInv, EventsTypeOK
    <2>5. \A i \in 1..Len(r) : r[i] > 0 /\ r[i] <= e
      BY <1>1, <2>1, <2>3, <2>4 DEF EventsInv, EventsTypeOK
    <2>6. \A i \in 1..Len(eventDisk) : eventDisk[i] > 0 /\ eventDisk[i] <= e
      BY <1>1, <2>1, <2>3 DEF EventsInv, EventsTypeOK
    <2>7. eventLog' \in Seq(Nat) /\ Ascending(eventLog)' /\ Stamped(eventLog)'
      BY <2>2, <2>4, <2>5 DEF Ascending, Stamped
    <2>8. eventDisk' \in Seq(Nat) /\ Ascending(eventDisk)' /\ Stamped(eventDisk)'
      BY <1>1, <2>2, <2>4, <2>5, <2>6 DEF Ascending, Stamped, EventsInv, EventsTypeOK
    <2>9. ASSUME NEW w \in Watchers
          PROVE  got'[w] \in Seq(Nat) /\ Ascending(got[w])' /\ Stamped(got[w])' /\ HasAfterCursor(w)'
      <3>1. PICK s \in Seq(Nat) : s = got[w] /\ Ascending(s) /\ \A i \in 1..Len(s) : s[i] > 0 /\ s[i] < e
        BY <1>1, <2>3 DEF EventsInv, EventsTypeOK
      <3>2. CASE watch[w] # "live"
        <4>1. got'[w] = s /\ watch'[w] # "live"
          BY <2>2, <3>1, <3>2
        <4>2. \A i \in 1..Len(s) : s[i] <= e
          BY <2>1, <3>1
        <4> QED
          BY <2>2, <3>1, <4>1, <4>2 DEF Ascending, Stamped, HasAfterCursor
      <3>3. CASE watch[w] = "live"
        <4>1. PICK u \in Seq(Nat) : /\ u = Append(s, e) /\ Ascending(u)
                                    /\ Len(u) = Len(s) + 1 /\ u[Len(s) + 1] = e
                                    /\ \A i \in 1..Len(s) : u[i] = s[i]
          BY <2>1, <3>1, AppendAscends
        <4>2. got'[w] = u
          BY <2>2, <3>1, <3>3, <4>1
        <4>3. \A i \in 1..Len(u) : u[i] > 0 /\ u[i] <= e
          <5> TAKE i \in 1..Len(u)
          <5>1. i \in 1..Len(s) \/ i = Len(s) + 1
            BY <4>1
          <5> QED
            BY <2>1, <3>1, <4>1, <5>1
        <4>4. \A i \in 1..Len(r) : r[i] > cursor[w] => \E j \in 1..Len(u) : u[j] = r[i]
          <5> SUFFICES ASSUME NEW i \in 1..Len(r), r[i] > cursor[w] PROVE \E j \in 1..Len(u) : u[j] = r[i]
            OBVIOUS
          <5>1. CASE r[i] = e
            BY <4>1, <5>1
          <5>2. CASE r[i] # e
            <6>1. PICK k \in 1..Len(eventLog) : r[i] = eventLog[k]
              BY <2>4, <5>2
            <6>2. PICK j \in 1..Len(s) : s[j] = eventLog[k]
              BY <3>1, <3>3, <6>1 DEF EventsInv, HasAfterCursor
            <6>3. j \in 1..Len(u)
              BY <4>1
            <6> QED
              BY <4>1, <6>1, <6>2, <6>3
          <5> QED
            BY <5>1, <5>2
        <4> QED
          <5>1. Ascending(got[w])' /\ Stamped(got[w])'
            BY <2>2, <4>1, <4>2, <4>3 DEF Ascending, Stamped
          <5>2. HasAfterCursor(w)'
            BY <2>2, <2>4, <4>2, <4>4 DEF HasAfterCursor
          <5> QED
            BY <4>1, <4>2, <5>1, <5>2
      <3> QED
        BY <3>2, <3>3
    <2>10. EventsTypeOK'
      <3>1. got' \in [Watchers -> Seq(Nat)]
        <4>1. got' = [w \in Watchers |-> got'[w]]
          BY <2>2
        <4> QED
          BY <2>9, <4>1
      <3> QED
        BY <1>1, <2>1, <2>2, <2>7, <2>8, <3>1 DEF EventsTypeOK
    <2> QED
      BY <2>7, <2>8, <2>9, <2>10 DEF EventsInv
  <1>5. ASSUME NEW v \in Watchers, WatchOpen(v) PROVE EventsInv'
    <2>1. PICK s \in Seq(Nat) : s = got[v] /\ Ascending(s) /\ Stamped(s)
      BY <1>1 DEF EventsInv, EventsTypeOK
    <2>2. PICK c : c = (IF s = <<>> THEN 0 ELSE Last(s))
      OBVIOUS
    <2>3. c \in Nat /\ \A i \in 1..Len(s) : s[i] <= c
      <3>1. CASE s = <<>>
        <4>1. Len(s) = 0
          BY <3>1
        <4> QED
          BY <2>2, <3>1, <4>1
      <3>2. CASE s # <<>>
        <4>1. Len(s) \in 1..Len(s) /\ c = s[Len(s)]
          BY <2>2, <3>2 DEF Last
        <4>2. \A i \in 1..Len(s) : i < Len(s) \/ i = Len(s)
          OBVIOUS
        <4>3. c \in Nat /\ \A i \in 1..Len(s) : s[i] \in Nat
          BY <4>1
        <4>4. \A i \in 1..Len(s) : s[i] < c \/ s[i] = c
          BY <2>1, <4>1, <4>2 DEF Ascending
        <4> QED
          BY <4>3, <4>4
      <3> QED
        BY <3>1, <3>2
    <2>4. PICK b \in Seq(Nat) :
             /\ b = Backfill(c) /\ Ascending(b)
             /\ \A k \in 1..Len(b) : b[k] > c /\ \E i \in 1..Len(eventLog) : b[k] = eventLog[i]
             /\ \A i \in 1..Len(eventLog) : eventLog[i] > c => \E k \in 1..Len(b) : b[k] = eventLog[i]
      BY <2>3, BackfillIsAfter
    <2>5. \A i \in 1..Len(s), j \in 1..Len(b) : s[i] < b[j]
      BY <2>3, <2>4
    <2>60. PICK u : u = s \o b
      OBVIOUS
    <2>6. /\ u \in Seq(Nat) /\ u = s \o b /\ Ascending(u)
          /\ \A i \in 1..Len(u) : \/ \E j \in 1..Len(s) : u[i] = s[j]
                                  \/ \E j \in 1..Len(b) : u[i] = b[j]
          /\ \A j \in 1..Len(b) : \E i \in 1..Len(u) : u[i] = b[j]
      <3>1. Ascending(s) /\ Ascending(b)
        BY <2>1, <2>4
      <3> QED
        BY <2>5, <2>60, <3>1, ConcatAscends
    <2>7. /\ clock' = clock /\ lastNanos' = lastNanos /\ eventLog' = eventLog /\ eventDisk' = eventDisk
          /\ watch' = [watch EXCEPT ![v] = "live"] /\ cursor' = [cursor EXCEPT ![v] = c]
      BY <1>5, <2>1, <2>2 DEF WatchOpen
    <2>8. cursor'[v] = c
      BY <1>1, <2>7 DEF EventsTypeOK
    <2>9. got' = [got EXCEPT ![v] = u]
      BY <1>5, <2>1, <2>4, <2>6, <2>8 DEF WatchOpen
    <2>10. Stamped(u)
      <3> SUFFICES ASSUME NEW i \in 1..Len(u) PROVE u[i] > 0 /\ (u[i] <= lastNanos \/ u[i] < clock)
        BY DEF Stamped
      <3>1. CASE \E j \in 1..Len(s) : u[i] = s[j]
        BY <2>1, <3>1 DEF Stamped
      <3>2. CASE \E j \in 1..Len(b) : u[i] = b[j]
        <4>1. PICK k \in 1..Len(eventLog) : u[i] = eventLog[k]
          BY <2>4, <3>2
        <4> QED
          BY <4>1 DEF Stamped, EventsInv
      <3> QED
        BY <2>6, <3>1, <3>2
    <2>11. EventsTypeOK'
      BY <1>1, <2>3, <2>6, <2>7, <2>9 DEF EventsTypeOK
    <2>12. ASSUME NEW w \in Watchers
           PROVE  Ascending(got[w])' /\ Stamped(got[w])' /\ HasAfterCursor(w)'
      <3>1. CASE w = v
        <4>1. got'[w] = u /\ cursor'[w] = c
          BY <1>1, <2>7, <2>9, <3>1 DEF EventsTypeOK
        <4>2. \A i \in 1..Len(eventLog) : eventLog[i] > c => \E j \in 1..Len(u) : u[j] = eventLog[i]
          BY <2>4, <2>6
        <4> QED
          BY <2>6, <2>7, <2>10, <4>1, <4>2 DEF Ascending, Stamped, HasAfterCursor
      <3>2. CASE w # v
        <4>1. got'[w] = got[w] /\ cursor'[w] = cursor[w] /\ watch'[w] = watch[w]
          BY <1>1, <2>7, <2>9, <3>2 DEF EventsTypeOK
        <4> QED
          <5>1. Ascending(got[w]) /\ Stamped(got[w]) /\ HasAfterCursor(w)
            BY DEF EventsInv
          <5>2. Ascending(got[w])' /\ Stamped(got[w])'
            BY <2>7, <4>1, <5>1 DEF Ascending, Stamped
          <5>3. HasAfterCursor(w)'
            BY <2>7, <4>1, <5>1 DEF HasAfterCursor
          <5> QED
            BY <5>2, <5>3
      <3> QED
        BY <3>1, <3>2
    <2> QED
      BY <2>7, <2>11, <2>12 DEF EventsInv, Ascending, Stamped
  <1>6. ASSUME NEW v \in Watchers, WatchLeaves(v) \/ WatchCleanup(v) PROVE EventsInv'
    <2>1. PICK x \in {"gone", "away"} : watch' = [watch EXCEPT ![v] = x]
      BY <1>6 DEF WatchLeaves, WatchCleanup
    <2>2. UNCHANGED <<clock, lastNanos, eventLog, eventDisk, got, cursor>>
      BY <1>6 DEF WatchLeaves, WatchCleanup
    <2>3. EventsTypeOK'
      BY <1>1, <2>1, <2>2 DEF EventsTypeOK
    <2>4. \A w \in Watchers : watch'[w] = "live" => watch[w] = "live"
      BY <1>1, <2>1 DEF EventsTypeOK
    <2> QED
      BY <2>2, <2>3, <2>4 DEF EventsInv, Ascending, Stamped, HasAfterCursor
  <1>7. CASE UNCHANGED eventVars
    BY <1>7 DEF eventVars, EventsInv, EventsTypeOK, Ascending, Stamped, HasAfterCursor
  <1> QED
    BY <1>2, <1>3, <1>4, <1>5, <1>6, <1>7 DEF EventsNext

\* THEOREM.  However clients leave, come back and lose sends, and wherever the
\* process restarts, a connected client has every event of the log after its
\* cursor, in the order of creation and none twice (broadcastStatus, /events).
THEOREM FeedHolds == EventsSpec => []FeedIsGapless
  <1>1. EventsInv => FeedIsGapless
    <2> SUFFICES ASSUME EventsInv PROVE FeedIsGapless
      OBVIOUS
    <2>1. ASSUME NEW s \in Seq(Nat), Ascending(s) PROVE Increasing(s)
      BY <2>1 DEF Ascending, Increasing
    <2>2. eventLog \in Seq(Nat) /\ \A w \in Watchers : got[w] \in Seq(Nat)
      BY DEF EventsInv, EventsTypeOK
    <2>3. Increasing(eventLog) /\ \A w \in Watchers : Increasing(got[w])
      BY <2>1, <2>2 DEF EventsInv
    <2>4. ASSUME NEW w \in Watchers, watch[w] = "live", NEW e \in ToSet(eventLog), e > cursor[w]
          PROVE  e \in ToSet(got[w])
      BY <2>2, <2>4 DEF EventsInv, HasAfterCursor, ToSet
    <2> QED
      BY <2>3, <2>4 DEF FeedIsGapless
  <1> QED
    BY <1>1, EventsInitInv, EventsNextInv, PTL DEF EventsSpec

-----------------------------------------------------------------------------
(* ComputeContract: the VM of a job, its grant and its lease               *)

Early == {"idle", "accepted", "submitting"}

\* A receipt belongs to an onAccept run of the same job that was answered, and
\* a job holds none before submitAccept returned.
ReceiptOfTheJob ==
    \A j \in Jobs : receipt[j] # NoReceipt =>
        /\ step[j] \notin Early
        /\ jobOf[receipt[j]] = j
        /\ handler[receipt[j]] = "answered"

\* Only a job that has ended has reported its VM, under the receipt it holds.
ReportedAtTheEnd ==
    \A a \in reported :
        /\ jobOf[a] \in Jobs
        /\ receipt[jobOf[a]] = a
        /\ step[jobOf[a]] \in {"done", "failed"}

\* A vm.delete run is about a reported receipt, and only its VM goes.
DeletesReported ==
    /\ \A k \in VmDeletes :
          /\ deletes[k] # NoReceipt => deletes[k] \in reported
          /\ deleter[k] \in {"asserted", "destroying"} => deletes[k] # NoReceipt
    /\ \A a \in Accepts : vm[a] = "gone" => a \in reported

\* How far an onAccept run has come shows in its job and its VM.
HandlerProgress ==
    \A a \in Accepts :
        /\ handler[a] = "unused" <=> jobOf[a] = NoJob
        /\ handler[a] \in {"unused", "verifying"} => vm[a] = "none"
        /\ handler[a] \in {"provisioned", "answered"} => vm[a] # "none"

\* An answered run whose VM has an id is in activeContracts until the VM is
\* reported.
AnsweredIsTracked ==
    ~restarted => \A a \in Accepts :
        /\ handler[a] = "answered"
        /\ a \notin reported
        /\ vm[a] # "unnamed"
        => a \in activeContracts

\* The grant of a job is written when its accept is submitted, and only
\* submitted accepts are handled.
SubmittedIsGranted ==
    /\ \A j \in submitted : step[j] \notin {"idle", "accepted"} /\ rbac[j] # "none"
    /\ \A j \in Jobs : step[j] = "submitting" => j \in submitted
    /\ \A a \in Accepts : jobOf[a] # NoJob => jobOf[a] \in submitted

ContractInv ==
    /\ TypeOK
    /\ ReceiptOfTheJob
    /\ ReportedAtTheEnd
    /\ DeletesReported
    /\ HandlerProgress
    /\ AnsweredIsTracked
    /\ SubmittedIsGranted

\* Initially there is no accept, no VM and no receipt.
LEMMA InitContractInv == Init => ContractInv
  <1> SUFFICES ASSUME Init PROVE ContractInv
    OBVIOUS
  <1> USE ContractAssumption DEF Init
  <1>1. TypeOK
    BY DEF TypeOK, Steps
  <1>2. ReceiptOfTheJob /\ ReportedAtTheEnd
    BY DEF ReceiptOfTheJob, ReportedAtTheEnd
  <1>3. DeletesReported /\ HandlerProgress
    BY DEF DeletesReported, HandlerProgress
  <1>4. AnsweredIsTracked /\ SubmittedIsGranted
    BY DEF AnsweredIsTracked, SubmittedIsGranted
  <1> QED
    BY <1>1, <1>2, <1>3, <1>4 DEF ContractInv

\* A step of the spindle that only moves jobs on: none comes back from its end,
\* to before its accept was submitted or to before submitAccept returned, and
\* none comes to submit its accept.
Onward ==
    /\ step' \in [Jobs -> Steps]
    /\ goal' \in [Jobs -> {"done", "failed"}]
    /\ \A j \in Jobs :
          /\ step[j] \in {"done", "failed"} => step'[j] = step[j]
          /\ step'[j] \in {"idle", "accepted"} => step[j] \in {"idle", "accepted"}
          /\ step'[j] \in Early => step[j] \in Early
          /\ step'[j] = "submitting" => step[j] = "submitting"
    /\ UNCHANGED <<rbac, submitted, receipt, reported, bidderVars>>

\* Such a step disturbs no part of the invariant.
LEMMA OnwardPreserves ==
    ASSUME ContractInv, Onward
    PROVE  ContractInv'
  <1> USE DEF ContractInv, Onward, bidderVars
  <1>1. TypeOK'
    BY DEF TypeOK
  <1>2. ReceiptOfTheJob' /\ ReportedAtTheEnd'
    BY DEF ReceiptOfTheJob, ReportedAtTheEnd
  <1>3. DeletesReported' /\ HandlerProgress' /\ AnsweredIsTracked'
    BY DEF DeletesReported, HandlerProgress, AnsweredIsTracked
  <1>4. SubmittedIsGranted'
    BY DEF SubmittedIsGranted, TypeOK
  <1> QED
    BY <1>1, <1>2, <1>3, <1>4

\* Every spindle action except four only moves jobs on.
LEMMA QuietIsOnward ==
    ASSUME TypeOK, NEW j \in Jobs,
           \/ CreateAccept(j) \/ SubmitAcceptFails(j) \/ SeesVm(j)
           \/ PolicyEngineReady(j) \/ NeverCameUp(j) \/ PostWorkflow(j)
           \/ WorkflowEnds(j)
    PROVE  Onward
  BY DEF CreateAccept, SubmitAcceptFails, SeesVm, PolicyEngineReady, NeverCameUp,
         PostWorkflow, WorkflowEnds, Go, Onward, TypeOK, Steps, Early, bidderVars

\* So does a restart of the spindle, which orphans the jobs under way.
LEMMA RestartIsOnward ==
    ASSUME TypeOK, SpindleRestart
    PROVE  Onward
  BY DEF SpindleRestart, Onward, TypeOK, Steps, Early, bidderVars

\* The grant is written in the step that submits the accept; where that fails
\* the job has not been submitted.
LEMMA CreateGrantPreserves ==
    ASSUME ContractInv, NEW j \in Jobs, CreateGrant(j)
    PROVE  ContractInv'
  <1> USE DEF ContractInv, CreateGrant, Go, bidderVars
  <1>1. TypeOK'
    BY DEF TypeOK, Steps
  <1>2. ReceiptOfTheJob' /\ ReportedAtTheEnd'
    BY DEF ReceiptOfTheJob, ReportedAtTheEnd, TypeOK, Early
  <1>3. DeletesReported' /\ HandlerProgress' /\ AnsweredIsTracked'
    BY DEF DeletesReported, HandlerProgress, AnsweredIsTracked
  <1>4. SubmittedIsGranted'
    BY DEF SubmittedIsGranted, TypeOK
  <1> QED
    BY <1>1, <1>2, <1>3, <1>4

\* A job takes a receipt only from an answered run of its own, and only while
\* it waits for submitAccept, so it had none before.
LEMMA ReceiveReceiptPreserves ==
    ASSUME ContractInv, NEW j \in Jobs, NEW a \in Accepts, ReceiveReceipt(j, a)
    PROVE  ContractInv'
  <1> USE DEF ContractInv, ReceiveReceipt, Go, bidderVars
  <1>1. TypeOK'
    BY DEF TypeOK, Steps
  <1>2. ReceiptOfTheJob'
    BY DEF ReceiptOfTheJob, TypeOK, Early
  <1>3. ReportedAtTheEnd'
    BY DEF ReportedAtTheEnd, TypeOK
  <1>4. DeletesReported' /\ HandlerProgress' /\ AnsweredIsTracked'
    BY DEF DeletesReported, HandlerProgress, AnsweredIsTracked
  <1>5. SubmittedIsGranted'
    BY DEF SubmittedIsGranted, TypeOK
  <1> QED
    BY <1>1, <1>2, <1>3, <1>4, <1>5

\* reportVmDelete: the grant goes, then the VM is reported and the job ends.
LEMMA ReportPreserves ==
    ASSUME ContractInv, NEW j \in Jobs, RemoveRbacRecord(j) \/ ReportVmDelete(j)
    PROVE  ContractInv'
  <1> USE DEF ContractInv
  <1>1. CASE RemoveRbacRecord(j)
    <2> USE <1>1 DEF RemoveRbacRecord, Go, bidderVars
    <2>1. TypeOK'
      BY DEF TypeOK, Steps
    <2>2. ReceiptOfTheJob' /\ ReportedAtTheEnd'
      BY DEF ReceiptOfTheJob, ReportedAtTheEnd, TypeOK, Early
    <2>3. DeletesReported' /\ HandlerProgress' /\ AnsweredIsTracked'
      BY DEF DeletesReported, HandlerProgress, AnsweredIsTracked
    <2>4. SubmittedIsGranted'
      BY DEF SubmittedIsGranted, TypeOK
    <2> QED
      BY <2>1, <2>2, <2>3, <2>4
  <1>2. CASE ReportVmDelete(j)
    <2> USE <1>2 DEF ReportVmDelete, Go, bidderVars
    <2>1. TypeOK' /\ goal[j] \in {"done", "failed"}
      BY DEF TypeOK, Steps
    <2>2. ReceiptOfTheJob'
      BY <2>1 DEF ReceiptOfTheJob, TypeOK, Early
    <2>3. ReportedAtTheEnd'
      BY <2>1 DEF ReportedAtTheEnd, ReceiptOfTheJob, TypeOK
    <2>4. DeletesReported' /\ HandlerProgress' /\ AnsweredIsTracked'
      BY DEF DeletesReported, HandlerProgress, AnsweredIsTracked
    <2>5. SubmittedIsGranted'
      BY <2>1 DEF SubmittedIsGranted, TypeOK
    <2> QED
      BY <2>1, <2>2, <2>3, <2>4, <2>5
  <1> QED
    BY <1>1, <1>2

\* An onAccept run goes forward by itself: no receipt names it before it was
\* answered, and it is tracked in the step that answers it.
LEMMA AcceptPreserves ==
    ASSUME ContractInv, NEW a \in Accepts, AcceptNext(a)
    PROVE  ContractInv'
  <1> USE DEF ContractInv
  <1>0. a \in reported => handler[a] = "answered"
    BY ContractAssumption DEF ReportedAtTheEnd, ReceiptOfTheJob
  <1>1. CASE \E j \in Jobs : AcceptArrives(a, j)
    <2> USE <1>1, ContractAssumption DEF AcceptArrives, spindleVars
    <2>1. TypeOK'
      BY DEF TypeOK
    <2>2. ReceiptOfTheJob' /\ ReportedAtTheEnd'
      BY <1>0 DEF ReceiptOfTheJob, ReportedAtTheEnd, TypeOK
    <2>3. DeletesReported' /\ HandlerProgress' /\ AnsweredIsTracked'
      BY DEF DeletesReported, HandlerProgress, AnsweredIsTracked, TypeOK
    <2>4. SubmittedIsGranted'
      BY DEF SubmittedIsGranted, TypeOK
    <2> QED
      BY <2>1, <2>2, <2>3, <2>4
  <1>2. CASE AcceptRefused(a) \/ Provision(a) \/ MintReceipt(a)
    <2>1. /\ handler[a] \in {"verifying", "provisioned"}
          /\ UNCHANGED <<step, goal, rbac, submitted, receipt, reported, jobOf,
                         deleter, deletes, restarted>>
          /\ \/ /\ handler' = [handler EXCEPT ![a] = "failed"]
                /\ UNCHANGED <<vm, activeContracts>>
             \/ /\ handler' = [handler EXCEPT ![a] = "provisioned"]
                /\ \/ vm' = [vm EXCEPT ![a] = "up"]
                   \/ vm' = [vm EXCEPT ![a] = "unnamed"]
                /\ UNCHANGED activeContracts
             \/ /\ handler[a] = "provisioned"
                /\ handler' = [handler EXCEPT ![a] = "answered"]
                /\ activeContracts' = IF vm[a] = "up" THEN activeContracts \cup {a} ELSE activeContracts
                /\ UNCHANGED vm
      BY <1>2 DEF AcceptRefused, Provision, MintReceipt, spindleVars
    <2>2. TypeOK'
      BY <2>1 DEF TypeOK
    <2>3. ReceiptOfTheJob' /\ ReportedAtTheEnd'
      BY <2>1 DEF ReceiptOfTheJob, ReportedAtTheEnd, TypeOK
    <2>4. DeletesReported' /\ HandlerProgress'
      BY <2>1 DEF DeletesReported, HandlerProgress, TypeOK
    <2>5. AnsweredIsTracked' /\ SubmittedIsGranted'
      <3>1. handler[a] = "provisioned" => vm[a] \in {"up", "unnamed"}
        BY <1>0 DEF HandlerProgress, DeletesReported, TypeOK
      <3> QED
        BY <2>1, <3>1 DEF AnsweredIsTracked, SubmittedIsGranted, TypeOK
    <2> QED
      BY <2>2, <2>3, <2>4, <2>5
  <1> QED
    BY <1>1, <1>2 DEF AcceptNext

\* A vm.delete run takes out of activeContracts, and destroys, only what was
\* reported.
LEMMA VmDeletePreserves ==
    ASSUME ContractInv, NEW k \in VmDeletes, DeleteNext(k)
    PROVE  ContractInv'
  <1> USE DEF ContractInv
  <1>1. CASE DeleteArrives(k)
    <2> USE <1>1, ContractAssumption DEF DeleteArrives, spindleVars
    <2>1. TypeOK'
      BY DEF TypeOK
    <2>2. DeletesReported'
      BY DEF DeletesReported, TypeOK
    <2>3. /\ ReceiptOfTheJob' /\ ReportedAtTheEnd' /\ HandlerProgress'
          /\ AnsweredIsTracked' /\ SubmittedIsGranted'
      BY DEF ReceiptOfTheJob, ReportedAtTheEnd, HandlerProgress, AnsweredIsTracked,
             SubmittedIsGranted
    <2> QED
      BY <2>1, <2>2, <2>3
  <1>2. CASE DeleteBegins(k) \/ Destroy(k)
    <2> DEFINE a == deletes[k]
    <2>1. a \in reported
      BY <1>2 DEF DeletesReported, DeleteBegins, Destroy
    <2>2. a \in Accepts
      BY <2>1 DEF TypeOK
    <2>3. /\ UNCHANGED <<step, goal, rbac, submitted, receipt, reported, handler,
                         jobOf, deletes, restarted>>
          /\ deleter[k] \in {"asserted", "destroying"}
          /\ \/ deleter' = [deleter EXCEPT ![k] = "destroying"]
             \/ deleter' = [deleter EXCEPT ![k] = "done"]
             \/ deleter' = [deleter EXCEPT ![k] = "failed"]
          /\ vm' = vm \/ vm' = [vm EXCEPT ![a] = "gone"]
          /\ activeContracts' = activeContracts \/ activeContracts' = activeContracts \ {a}
          /\ vm' # vm => deleter[k] = "destroying"
      BY <1>2 DEF DeleteBegins, Destroy, spindleVars
    <2> HIDE DEF a
    <2>4. handler[a] = "answered"
      BY <2>1, <2>2, ContractAssumption DEF ReportedAtTheEnd, ReceiptOfTheJob
    <2>5. TypeOK'
      BY <2>2, <2>3 DEF TypeOK
    <2>6. ReceiptOfTheJob' /\ ReportedAtTheEnd'
      BY <2>3 DEF ReceiptOfTheJob, ReportedAtTheEnd
    <2>7. DeletesReported'
      BY <2>1, <2>2, <2>3 DEF DeletesReported, TypeOK
    <2>8. HandlerProgress'
      BY <2>2, <2>3, <2>4 DEF HandlerProgress, TypeOK
    <2>9. AnsweredIsTracked' /\ SubmittedIsGranted'
      BY <2>1, <2>2, <2>3 DEF AnsweredIsTracked, SubmittedIsGranted, TypeOK
    <2> QED
      BY <2>5, <2>6, <2>7, <2>8, <2>9
  <1> QED
    BY <1>1, <1>2 DEF DeleteNext

\* A restart of the bidder aborts runs that were not answered.
LEMMA BidderRestartPreserves ==
    ASSUME ContractInv, BidderRestart
    PROVE  ContractInv'
  <1> USE DEF ContractInv, BidderRestart, Aborted, spindleVars
  <1>1. TypeOK'
    BY DEF TypeOK
  <1>2. ReceiptOfTheJob' /\ ReportedAtTheEnd'
    BY DEF ReceiptOfTheJob, ReportedAtTheEnd, TypeOK
  <1>3. DeletesReported' /\ HandlerProgress'
    BY DEF DeletesReported, HandlerProgress, TypeOK
  <1>4. AnsweredIsTracked' /\ SubmittedIsGranted'
    BY DEF AnsweredIsTracked, SubmittedIsGranted
  <1> QED
    BY <1>1, <1>2, <1>3, <1>4

\* The invariant is inductive.
LEMMA NextContractInv == ContractInv /\ [Next]_vars => ContractInv'
  <1> SUFFICES ASSUME ContractInv, [Next]_vars PROVE ContractInv'
    OBVIOUS
  <1>1. ASSUME NEW j \in Jobs, SpindleNext(j) PROVE ContractInv'
    <2>1. CASE \/ CreateAccept(j) \/ SubmitAcceptFails(j) \/ SeesVm(j)
               \/ PolicyEngineReady(j) \/ NeverCameUp(j) \/ PostWorkflow(j)
               \/ WorkflowEnds(j)
      BY <2>1, QuietIsOnward, OnwardPreserves DEF ContractInv
    <2>2. CASE CreateGrant(j)
      BY <2>2, CreateGrantPreserves
    <2>3. CASE \E a \in Accepts : ReceiveReceipt(j, a)
      BY <2>3, ReceiveReceiptPreserves
    <2>4. CASE RemoveRbacRecord(j) \/ ReportVmDelete(j)
      BY <2>4, ReportPreserves
    <2> QED
      BY <1>1, <2>1, <2>2, <2>3, <2>4 DEF SpindleNext
  <1>2. ASSUME NEW a \in Accepts, AcceptNext(a) PROVE ContractInv'
    BY <1>2, AcceptPreserves
  <1>3. ASSUME NEW k \in VmDeletes, DeleteNext(k) PROVE ContractInv'
    BY <1>3, VmDeletePreserves
  <1>4. CASE SpindleRestart
    BY <1>4, RestartIsOnward, OnwardPreserves DEF ContractInv
  <1>5. CASE BidderRestart
    BY <1>5, BidderRestartPreserves
  <1>6. CASE UNCHANGED vars
    BY <1>6, OnwardPreserves DEF vars, spindleVars, bidderVars, Onward, ContractInv, TypeOK
  <1> QED
    BY <1>1, <1>2, <1>3, <1>4, <1>5, <1>6 DEF Next

\* The invariant holds in every state the spindle and the bidder can reach.
LEMMA SpecContractInv == Spec => []ContractInv
  BY InitContractInv, NextContractInv, PTL DEF Spec

\* The grant for the VM's role is written before any VM comes up
\* (marketRFP.ts writes com.fedproxy.rbac before it submits the accept).
THEOREM GrantPrecedesVm == Spec => []GrantBeforeVm
  <1>1. ContractInv => GrantBeforeVm
    BY DEF ContractInv, GrantBeforeVm, HandlerProgress, SubmittedIsGranted, TypeOK
  <1> QED
    BY SpecContractInv, <1>1, PTL

\* Under every fault, duplicate and restart the bidder does not destroy the VM
\* of a receipt whose job has yet to report its end.
THEOREM VmSafeInUse == Spec => []VmKeptWhileInUse
  <1>1. ASSUME ContractInv, NEW j \in Jobs, receipt[j] # NoReceipt,
               step[j] \in InUse \cup {"revoking", "reporting"}
        PROVE  vm[receipt[j]] \in {"up", "unnamed"}
    <2> DEFINE a == receipt[j]
    <2>1. a \in Accepts /\ jobOf[a] = j /\ handler[a] = "answered"
      BY <1>1 DEF ContractInv, TypeOK, ReceiptOfTheJob
    <2>2. a \notin reported
      BY <1>1, <2>1 DEF ContractInv, ReportedAtTheEnd, InUse
    <2>3. vm[a] # "none" /\ vm[a] # "gone"
      BY <1>1, <2>1, <2>2 DEF ContractInv, HandlerProgress, DeletesReported
    <2> QED
      BY <1>1, <2>1, <2>3 DEF ContractInv, TypeOK
  <1>2. ContractInv => VmKeptWhileInUse
    BY <1>1 DEF VmKeptWhileInUse
  <1> QED
    BY SpecContractInv, <1>2, PTL

\* As long as the bidder runs, a receipt it handed out is in activeContracts
\* until the job reports its end.
THEOREM ReceiptsTracked == Spec => []ReceiptIsTracked
  <1>1. ContractInv => ReceiptIsTracked
    BY DEF ContractInv, ReceiptIsTracked, AnsweredIsTracked, ReceiptOfTheJob, TypeOK
  <1> QED
    BY SpecContractInv, <1>1, PTL

\* activeContracts loses an entry only to a vm.delete of a reported receipt or
\* to a restart (bidder/main.ts deletes from the map in deleteRunningCompute
\* alone).
THEOREM ForgetsOnlyReported == Spec => ForgottenWhenReported
  <1> DEFINE Kept == \A a \in Accepts : a \in activeContracts /\ a \notin activeContracts'
                        => a \in reported \/ restarted'
  <1>1. ASSUME ContractInv, Next PROVE Kept
    <2>1. ASSUME NEW j \in Jobs, SpindleNext(j) PROVE activeContracts' = activeContracts
      BY <2>1 DEF SpindleNext, CreateAccept, CreateGrant, SubmitAcceptFails,
                  ReceiveReceipt, SeesVm, PolicyEngineReady, NeverCameUp,
                  PostWorkflow, WorkflowEnds, RemoveRbacRecord, ReportVmDelete,
                  bidderVars
    <2>2. ASSUME NEW a \in Accepts, AcceptNext(a) PROVE activeContracts \subseteq activeContracts'
      BY <2>2 DEF AcceptNext, AcceptArrives, AcceptRefused, Provision, MintReceipt
    <2>3. ASSUME NEW k \in VmDeletes, DeleteNext(k) PROVE Kept
      <3>1. CASE DeleteArrives(k) \/ DeleteBegins(k)
        BY <3>1 DEF DeleteArrives, DeleteBegins
      <3>2. CASE Destroy(k)
        BY <1>1, <3>2 DEF Destroy, ContractInv, DeletesReported
      <3> QED
        BY <2>3, <3>1, <3>2 DEF DeleteNext
    <2>4. CASE SpindleRestart
      BY <2>4 DEF SpindleRestart, bidderVars
    <2>5. CASE BidderRestart
      BY <2>5 DEF BidderRestart
    <2> QED
      BY <1>1, <2>1, <2>2, <2>3, <2>4, <2>5 DEF Next
  <1>2. ContractInv /\ [Next]_vars => [Kept]_vars
    BY <1>1
  <1> QED
    BY SpecContractInv, <1>2, PTL DEF Spec, ForgottenWhenReported

\* The invariants of a contract together, under every set of faults.
THEOREM ContractHolds == Spec => []ContractPromise
  BY GrantPrecedesVm, VmSafeInUse, ReceiptsTracked, PTL DEF ContractPromise

-----------------------------------------------------------------------------
(* Two processes, their calls and maps keep the lease of ContractLease     *)

\* A job that moves moves its lease and no other.
LEMMA LeaseMoves ==
    ASSUME TypeOK, NEW j \in Jobs, NEW to \in Steps,
           step' = [step EXCEPT ![j] = to]
    PROVE  /\ step'[j] = to
           /\ Leases' = [Leases EXCEPT ![j] = Leases'[j]]
  <1>1. \A i \in Jobs \ {j} : step'[i] = step[i]
    BY DEF TypeOK
  <1>2. step'[j] = to
    BY DEF TypeOK
  <1>3. \A i \in Jobs \ {j} : Leases'[i] = Leases[i]
    BY <1>1 DEF Leases
  <1>4. Leases = [i \in Jobs |-> Leases[i]] /\ Leases' = [i \in Jobs |-> Leases'[i]]
    BY DEF Leases
  <1> QED
    BY <1>2, <1>3, <1>4

\* A step that leaves the VMs alone leaves the machines alone.
LEMMA VmsAtRest ==
    ASSUME vm' = vm, \A a \in Accepts : vm[a] # "none" => jobOf'[a] = jobOf[a]
    PROVE  Owners' = Owners /\ Machinery' = Machinery
  BY DEF Owners, Machinery

\* Every spindle step for a job is a step of its lease or invisible to it.
LEMMA SpindleKeepsLease ==
    ASSUME ContractInv, NEW j \in Jobs, SpindleNext(j)
    PROVE  Lease!Next \/ UNCHANGED Lease!leaseVars
  <1> USE DEF ContractInv
  <1>a. UNCHANGED <<vm, jobOf>>
    BY DEF SpindleNext, CreateAccept, CreateGrant, SubmitAcceptFails,
           ReceiveReceipt, SeesVm, PolicyEngineReady, NeverCameUp, PostWorkflow,
           WorkflowEnds, RemoveRbacRecord, ReportVmDelete, bidderVars
  <1>b. Owners' = Owners /\ Machinery' = Machinery
    BY <1>a, VmsAtRest
  <1>1. CASE CreateAccept(j) \/ RemoveRbacRecord(j)
    <2>1. Leases' = Leases
      BY <1>1 DEF CreateAccept, RemoveRbacRecord, Go, Leases, InUse, TypeOK
    <2>2. UNCHANGED <<submitted, receipt, reported>>
      BY <1>1 DEF CreateAccept, RemoveRbacRecord
    <2> QED BY <1>b, <2>1, <2>2 DEF Lease!leaseVars
  <1>2. CASE SeesVm(j) \/ PolicyEngineReady(j)
    <2>1. Leases' = Leases
      BY <1>2 DEF SeesVm, PolicyEngineReady, Go, Leases, InUse, TypeOK
    <2>2. UNCHANGED <<submitted, receipt, reported>>
      BY <1>2 DEF SeesVm, PolicyEngineReady
    <2> QED BY <1>b, <2>1, <2>2 DEF Lease!leaseVars
  <1>3. CASE CreateGrant(j)
    <2>0. step[j] = "accepted"
      BY <1>3 DEF CreateGrant, Go
    <2>1. Leases[j] = "open" /\ j \notin submitted
      <3>1. Leases[j] = "open" BY <2>0 DEF Leases, InUse
      <3>2. j \notin submitted BY <2>0 DEF SubmittedIsGranted
      <3> QED BY <3>1, <3>2
    <2>2. CASE step'[j] = "submitting"
      <3>1. Leases' = Leases /\ submitted' = submitted \cup {j}
        <4>1. submitted' = submitted \cup {j}
          BY <1>3, <2>2 DEF CreateGrant, Go, TypeOK
        <4>2. step' = [step EXCEPT ![j] = "submitting"]
          BY <1>3, <2>2 DEF CreateGrant, Go, TypeOK
        <4> QED BY <2>0, <4>1, <4>2 DEF Leases, InUse, TypeOK
      <3>2. Lease!Award(j)
        BY <1>3, <1>b, <2>1, <3>1 DEF CreateGrant, Lease!Award
      <3> QED BY <3>2 DEF Lease!Next
    <2>3. CASE step' = [step EXCEPT ![j] = "failed"]
      <3>1. submitted' = submitted
        BY <1>3, <2>3 DEF CreateGrant, Go, TypeOK
      <3>2. Leases'[j] = "over"
        BY <2>3 DEF Leases, InUse, TypeOK
      <3>3. Lease!Turn(j, "open", "over")
        BY <2>1, <2>3, <3>2, LeaseMoves DEF Lease!Turn, Steps
      <3>4. Lease!Abandon(j)
        BY <1>3, <1>b, <2>1, <3>1, <3>3 DEF CreateGrant, Lease!Abandon
      <3> QED BY <3>4 DEF Lease!Next
    <2> QED BY <1>3, <2>2, <2>3 DEF CreateGrant, Go, TypeOK
  <1>4. ASSUME SubmitAcceptFails(j) \/ \E a \in Accepts : ReceiveReceipt(j, a)
        PROVE  Lease!Next
    <2>1. Go(j, "submitting", "booting")
      BY <1>4 DEF SubmitAcceptFails, ReceiveReceipt
    <2>2. Lease!Turn(j, "open", "using")
      <3>1. Leases[j] = "open" /\ Leases'[j] = "using"
        BY <2>1 DEF Go, Leases, InUse, TypeOK
      <3> QED BY <2>1, <3>1, LeaseMoves DEF Go, Lease!Turn, Steps
    <2>3. j \in submitted
      BY <2>1 DEF Go, SubmittedIsGranted
    <2>4. CASE SubmitAcceptFails(j)
      BY <1>b, <2>2, <2>3, <2>4 DEF SubmitAcceptFails, Lease!Take, Lease!Next
    <2>5. ASSUME NEW a \in Accepts, ReceiveReceipt(j, a) PROVE Lease!Take(j)
      <3>1. jobOf[a] = j /\ vm[a] # "none"
        BY <2>5 DEF ReceiveReceipt, HandlerProgress
      <3>2. vm[a] # "gone"
        BY <2>1, <3>1 DEF Go, DeletesReported, ReportedAtTheEnd
      <3>3. Machinery[a] = "up" /\ Owners[a] = j
        BY <3>1, <3>2 DEF Machinery, Owners, TypeOK
      <3> QED
        BY <1>b, <2>2, <2>3, <2>5, <3>3 DEF ReceiveReceipt, Lease!Take
    <2> QED BY <1>4, <2>4, <2>5 DEF Lease!Next
  <1>5. ASSUME PostWorkflow(j), step'[j] # "running" PROVE Lease!Next
    <2>1. step' = [step EXCEPT ![j] = "failed"] /\ step[j] = "posting"
      BY <1>5 DEF PostWorkflow, Go, TypeOK
    <2>2. Leases[j] = "using" /\ Leases'[j] = "over"
      BY <2>1 DEF Leases, InUse, TypeOK
    <2>3. Lease!Turn(j, "using", "over")
      BY <2>1, <2>2, LeaseMoves DEF Lease!Turn, Steps
    <2> QED
      BY <1>5, <1>b, <2>3 DEF PostWorkflow, Lease!Abandon, Lease!Next
  <1>6. ASSUME PostWorkflow(j), step'[j] = "running"
        PROVE  UNCHANGED Lease!leaseVars
    <2>1. Leases' = Leases
      BY <1>6 DEF PostWorkflow, Go, Leases, InUse, TypeOK
    <2> QED BY <1>6, <1>b, <2>1 DEF PostWorkflow, Lease!leaseVars
  <1>7. ASSUME NeverCameUp(j) \/ WorkflowEnds(j) PROVE Lease!Next
    <2>1. step' = [step EXCEPT ![j] = "revoking"] /\ step[j] \in InUse
      BY <1>7 DEF NeverCameUp, WorkflowEnds, Go, InUse
    <2>2. Leases[j] = "using" /\ Leases'[j] = "ending"
      BY <2>1 DEF Leases, InUse, TypeOK
    <2>3. Lease!Turn(j, "using", "ending")
      BY <2>1, <2>2, LeaseMoves DEF Lease!Turn, Steps
    <2>4. UNCHANGED <<submitted, receipt, reported>>
      BY <1>7 DEF NeverCameUp, WorkflowEnds
    <2> QED BY <1>b, <2>3, <2>4 DEF Lease!End, Lease!Next
  <1>8. ASSUME ReportVmDelete(j) PROVE Lease!Next
    <2>1. step' = [step EXCEPT ![j] = goal[j]] /\ step[j] = "reporting"
      BY <1>8 DEF ReportVmDelete, Go
    <2>2. goal[j] \in {"done", "failed"}
      BY DEF TypeOK
    <2>3. Leases[j] = "ending" /\ Leases'[j] = "over"
      BY <2>1, <2>2 DEF Leases, InUse, TypeOK
    <2>4. Lease!Turn(j, "ending", "over")
      BY <2>1, <2>2, <2>3, LeaseMoves DEF Lease!Turn, Steps
    <2> QED
      BY <1>8, <1>b, <2>4 DEF ReportVmDelete, Lease!Release, Lease!Next
  <1> QED
    BY <1>1, <1>2, <1>3, <1>4, <1>5, <1>6, <1>7, <1>8 DEF SpindleNext

\* Of the steps of an onAccept run only the provisioned VM shows.
LEMMA AcceptKeepsLease ==
    ASSUME ContractInv, NEW a \in Accepts, AcceptNext(a)
    PROVE  Lease!Next \/ UNCHANGED Lease!leaseVars
  <1> USE DEF ContractInv
  <1>1. Leases' = Leases /\ UNCHANGED <<submitted, receipt, reported>>
    BY DEF AcceptNext, AcceptArrives, AcceptRefused, Provision, MintReceipt,
           spindleVars, Leases
  <1>2. ASSUME NEW j \in Jobs, AcceptArrives(a, j)
        PROVE  UNCHANGED Lease!leaseVars
    <2>1. vm' = vm /\ jobOf' = [jobOf EXCEPT ![a] = j] /\ vm[a] = "none"
      BY <1>2 DEF AcceptArrives, HandlerProgress
    <2>2. Owners' = Owners /\ Machinery' = Machinery
      BY <2>1, VmsAtRest DEF TypeOK
    <2> QED BY <1>1, <2>2 DEF Lease!leaseVars
  <1>3. CASE \/ AcceptRefused(a) \/ MintReceipt(a)
             \/ Provision(a) /\ vm' = vm
    <2>1. UNCHANGED <<vm, jobOf>>
      BY <1>3 DEF AcceptRefused, MintReceipt, Provision
    <2> QED BY <1>1, <2>1, VmsAtRest DEF Lease!leaseVars
  <1>4. ASSUME Provision(a), vm' # vm PROVE Lease!Next
    <2>1. PICK state \in {"up", "unnamed"} : vm' = [vm EXCEPT ![a] = state]
      BY <1>4 DEF Provision
    <2>2. jobOf' = jobOf /\ handler[a] = "verifying"
      BY <1>4 DEF Provision
    <2>3. vm[a] = "none" /\ jobOf[a] \in submitted /\ jobOf[a] \in Jobs
      BY <2>2 DEF HandlerProgress, SubmittedIsGranted, TypeOK
    <2>4. Machinery[a] = "none" /\ Machinery' = [Machinery EXCEPT ![a] = "up"]
      BY <2>1, <2>3 DEF Machinery, TypeOK
    <2>5. Owners' = [Owners EXCEPT ![a] = jobOf[a]]
      BY <2>1, <2>2, <2>3 DEF Owners, TypeOK
    <2>6. Lease!Serve(a, jobOf[a])
      BY <1>1, <2>3, <2>4, <2>5 DEF Lease!Serve
    <2> QED BY <2>3, <2>6 DEF Lease!Next
  <1> QED
    BY <1>2, <1>3, <1>4 DEF AcceptNext

\* Of the steps of a vm.delete run only the destroyed VM shows, and its receipt
\* was reported.
LEMMA DeleteKeepsLease ==
    ASSUME ContractInv, NEW k \in VmDeletes, DeleteNext(k)
    PROVE  Lease!Next \/ UNCHANGED Lease!leaseVars
  <1> USE DEF ContractInv
  <1>1. Leases' = Leases /\ UNCHANGED <<submitted, receipt, reported, jobOf>>
    BY DEF DeleteNext, DeleteArrives, DeleteBegins, Destroy, spindleVars, Leases
  <1>2. CASE vm' = vm
    BY <1>1, <1>2, VmsAtRest DEF Lease!leaseVars
  <1>3. ASSUME vm' # vm PROVE Lease!Next
    <2>1. /\ deleter[k] = "destroying"
          /\ vm' = [vm EXCEPT ![deletes[k]] = "gone"]
      BY <1>3 DEF DeleteNext, DeleteArrives, DeleteBegins, Destroy
    <2>2. PICK a \in Accepts : a = deletes[k] /\ a \in reported
      BY <2>1 DEF DeletesReported, TypeOK
    <2>3. handler[a] = "answered"
      BY <2>2, ContractAssumption DEF ReportedAtTheEnd, ReceiptOfTheJob
    <2>4. vm[a] \in {"up", "unnamed"}
      BY <1>3, <2>1, <2>2, <2>3 DEF HandlerProgress, TypeOK
    <2>5. Machinery[a] = "up" /\ Machinery' = [Machinery EXCEPT ![a] = "gone"]
      BY <2>1, <2>2, <2>4 DEF Machinery, TypeOK
    <2>6. Owners' = Owners
      BY <1>1, <2>1, <2>2, <2>4 DEF Owners, TypeOK
    <2>7. Lease!Destroy(a)
      BY <1>1, <2>2, <2>5, <2>6 DEF Lease!Destroy
    <2> QED BY <2>7 DEF Lease!Next
  <1> QED BY <1>2, <1>3

\* A restart of the spindle orphans the jobs under way, one of the bidder is
\* invisible.
LEMMA RestartsKeepLease ==
    ASSUME ContractInv, SpindleRestart \/ BidderRestart
    PROVE  Lease!Next \/ UNCHANGED Lease!leaseVars
  <1> USE DEF ContractInv
  <1>1. CASE BidderRestart
    <2>1. UNCHANGED <<step, submitted, receipt, reported, vm, jobOf>>
      BY <1>1 DEF BidderRestart, spindleVars
    <2>2. Leases' = Leases
      BY <2>1 DEF Leases
    <2> QED BY <2>1, <2>2, VmsAtRest DEF Lease!leaseVars
  <1>2. CASE SpindleRestart
    <2>1. UNCHANGED <<submitted, receipt, reported, vm, jobOf>>
      BY <1>2 DEF SpindleRestart, bidderVars
    <2>2. PICK gone : gone = {j \in Jobs : Leases[j] # "over"
                                 /\ Leases[j] # "orphaned" /\ step[j] # "idle"}
      OBVIOUS
    <2>3. Leases' = [j \in Jobs |-> IF j \in gone THEN "orphaned" ELSE Leases[j]]
      <3>1. \A j \in Jobs :
              step'[j] = IF step[j] \in {"idle", "done", "failed"} THEN step[j]
                                                                  ELSE "orphaned"
        BY <1>2 DEF SpindleRestart
      <3>2. ASSUME NEW j \in Jobs
            PROVE  Leases'[j] = IF j \in gone THEN "orphaned" ELSE Leases[j]
        <4>1. CASE step[j] \in {"idle", "done", "failed"}
          BY <2>2, <3>1, <4>1 DEF Leases, InUse
        <4>2. CASE step[j] \notin {"idle", "done", "failed"}
          BY <2>2, <3>1, <4>2 DEF Leases, InUse, TypeOK, Steps
        <4> QED BY <4>1, <4>2
      <3>3. Leases' = [j \in Jobs |-> Leases'[j]]
        BY DEF Leases
      <3> QED BY <3>2, <3>3
    <2>4. gone \in SUBSET {j \in Jobs : Leases[j] \notin {"over", "orphaned"}}
      BY <2>2
    <2>5. Lease!Orphan
      BY <2>1, <2>3, <2>4, VmsAtRest DEF Lease!Orphan
    <2> QED BY <2>5 DEF Lease!Next
  <1> QED BY <1>1, <1>2

\* Under every fault, duplicate and restart, spindle and bidder implement the
\* lease: every step of the two is a step of ContractLease or invisible to it.
THEOREM LeaseKept == Spec => KeepsLease
  <1>1. Init => Lease!Init
    <2> SUFFICES ASSUME Init PROVE Lease!Init
      OBVIOUS
    <2>1. Leases = [j \in Jobs |-> "open"]
      BY DEF Init, Leases, InUse
    <2>2. /\ Owners = [a \in Accepts |-> NoJob]
          /\ Machinery = [a \in Accepts |-> "none"]
      BY DEF Init, Owners, Machinery
    <2> QED BY <2>1, <2>2 DEF Init, Lease!Init
  <1>2. ContractInv /\ [Next]_vars => Lease!Next \/ UNCHANGED Lease!leaseVars
    <2> SUFFICES ASSUME ContractInv, [Next]_vars
                 PROVE  Lease!Next \/ UNCHANGED Lease!leaseVars
      OBVIOUS
    <2>1. CASE UNCHANGED vars
      <3>1. Leases' = Leases
        BY <2>1 DEF Leases, vars, spindleVars
      <3> QED
        BY <2>1, <3>1, VmsAtRest DEF vars, spindleVars, bidderVars, Lease!leaseVars
    <2> QED
      BY <2>1, SpindleKeepsLease, AcceptKeepsLease, DeleteKeepsLease,
         RestartsKeepLease DEF Next
  <1>3. ContractInv /\ [Next]_vars
           => [Lease!leaseVars' # Lease!leaseVars /\ Lease!Next]_(Lease!leaseVars)
    BY <1>2
  <1> QED
    BY <1>1, <1>3, SpecContractInv, PTL DEF Spec, KeepsLease, Lease!Promise

-----------------------------------------------------------------------------
(* BidderBringUp: one offering, and public bids for those it attracts      *)

ServiceSteps   == {"off", "login", "key", "writeKey", "setup", "offering", "up", "dead"}
EphemeralSteps == {"off", "genesis", "relay", "discovery", "up", "dead"}

BringUpTypeOK ==
    /\ kind \in {"service", "ephemeral"}
    /\ at \in IF kind = "service" THEN ServiceSteps ELSE EphemeralSteps
    /\ answers \in [Rfps -> [at : {"no", "arrived", "configured", "submitted"},
                             offered : BOOLEAN,
                             url : {"unset", "fallback", "public"}]]
    /\ issuerUrl \in {"unset", "fallback", "public"}
    /\ baseUrl \in BaseUrls \cup {""}

\* The one offering record is updated in place, and what the service that is
\* up serves is what it names.
OfferingIsCurrent ==
    /\ offerings = <<>> \/ \E url \in BaseUrls \cup {"did"} : offerings = <<url>>
    /\ at = "up" /\ kind = "service" /\ baseUrl # "" => offerings = <<baseUrl>>

\* The bidder offers itself after its provider's setup, which ends with the
\* public URL or by its time limit; only a crash undoes either.
OfferedAfterSetup ==
    /\ issuer = "up" => issuerUrl = "public"
    /\ setup = "done" => issuerUrl = "public" \/ timedOut
    /\ at \in {"offering", "discovery", "up"} => setup = "done"
    /\ \A r \in Rfps : answers[r].offered => at \in {"discovery", "up"}

BringUpInv == BringUpTypeOK /\ OfferingIsCurrent /\ OfferedAfterSetup /\ OfferedBidsArePublic

\* EnsureOfferingRecord replaces the one record there is.
LEMMA ReplacedOnlyElement ==
    ASSUME NEW S, NEW a \in S, NEW T, NEW b \in T
    PROVE  [<<a>> EXCEPT ![1] = b] = <<b>>
  <1>1. <<a>> \in Seq(S \cup T)
    OBVIOUS
  <1> QED
    BY <1>1

\* Whether the offering is there is a Boolean, whatever at is.
LEMMA MembershipIsBoolean == ASSUME NEW x, NEW S PROVE (x \in S) \in BOOLEAN
  OBVIOUS

\* The initial states satisfy the invariant.
LEMMA BringUpInitInv == BringUpInit => BringUpInv
  <1> SUFFICES ASSUME BringUpInit PROVE BringUpInv
    OBVIOUS
  <1> USE BringUpAssumption DEF BringUpInit, NoAnswer
  <1>1. BringUpTypeOK
    BY DEF BringUpTypeOK, ServiceSteps, EphemeralSteps, BringUpAssumption
  <1>2. OfferingIsCurrent
    BY DEF OfferingIsCurrent
  <1>3. OfferedAfterSetup /\ OfferedBidsArePublic
    BY DEF OfferedAfterSetup, OfferedBidsArePublic
  <1> QED
    BY <1>1, <1>2, <1>3 DEF BringUpInv

\* Every step keeps the invariant.
LEMMA BringUpNextInv == BringUpInv /\ [BringUpNext]_bringUpVars => BringUpInv'
  <1> SUFFICES ASSUME BringUpInv, [BringUpNext]_bringUpVars PROVE BringUpInv'
    OBVIOUS
  <1> USE DEF BringUpInv, BringUpTypeOK, OfferingIsCurrent, OfferedAfterSetup, OfferedBidsArePublic
  <1>1. CASE StartBidder
    BY <1>1 DEF StartBidder, issuerVars, ServiceSteps, EphemeralSteps
  <1>2. CASE BidderCrash
    <2>1. /\ at' = "off" /\ setup' = "off" /\ issuer' = "off" /\ issuerUrl' = "unset"
          /\ offerings' = offerings \/ offerings' = <<>>
          /\ answers' = [r \in Rfps |-> NoAnswer]
          /\ UNCHANGED <<kind, baseUrl>>
      BY <1>2 DEF BidderCrash
    <2>2. BringUpTypeOK'
      BY <2>1 DEF ServiceSteps, EphemeralSteps, NoAnswer
    <2> QED
      BY <2>1, <2>2 DEF NoAnswer
  <1>3. CASE LoginAgent \/ LoadAttestationKey
    BY <1>3 DEF LoginAgent, LoadAttestationKey, issuerVars, ServiceSteps, EphemeralSteps
  <1>4. CASE SetupService
    BY <1>4 DEF SetupService, ServiceSteps, EphemeralSteps
  <1>5. CASE ServeBidder
    <2>1. /\ at = "offering" /\ at' = "up" /\ kind = "service" /\ setup = "done"
          /\ UNCHANGED <<kind, baseUrl, setup, issuer, issuerUrl, timedOut, answers>>
      BY <1>5 DEF ServeBidder, issuerVars, EphemeralSteps
    <2>2. \/ baseUrl = "" /\ offerings' = offerings
          \/ /\ baseUrl # "" /\ baseUrl \in BaseUrls
             /\ offerings' = <<baseUrl>>
      <3>1. CASE offerings = <<>>
        BY <1>5, <3>1 DEF ServeBidder, EnsureOfferingRecord
      <3>2. CASE \E url \in BaseUrls \cup {"did"} : offerings = <<url>>
        <4>1. PICK url \in BaseUrls \cup {"did"} : offerings = <<url>>
          BY <3>2
        <4>2. baseUrl \in BaseUrls => [<<url>> EXCEPT ![1] = baseUrl] = <<baseUrl>>
          BY <4>1, ReplacedOnlyElement
        <4> QED
          BY <1>5, <4>1, <4>2 DEF ServeBidder, EnsureOfferingRecord
      <3> QED
        BY <3>1, <3>2
    <2> QED
      BY <2>1, <2>2 DEF ServiceSteps, EphemeralSteps
  <1>6. CASE SubmitGenesis
    BY <1>6 DEF SubmitGenesis, ServiceSteps, EphemeralSteps
  <1>7. CASE MarketRegistered \/ IssuerKeypair \/ IssuerRegistered \/ SetupDone \/ TeardownIssuer
    <2>1. CASE MarketRegistered \/ IssuerKeypair \/ TeardownIssuer
      <3>1. /\ issuer' = "up" => issuer = "up"
            /\ UNCHANGED <<kind, at, baseUrl, setup, issuerUrl, timedOut, offerings, answers>>
        BY <2>1 DEF MarketRegistered, IssuerKeypair, TeardownIssuer, issuerVars
      <3> QED
        BY <3>1
    <2>2. CASE IssuerRegistered
      <3>1. /\ issuerUrl' = "public"
            /\ UNCHANGED <<kind, at, baseUrl, setup, timedOut, offerings, answers>>
        BY <2>2 DEF IssuerRegistered
      <3> QED
        BY <3>1
    <2>3. CASE SetupDone
      BY <2>3 DEF SetupDone
    <2> QED
      BY <1>7, <2>1, <2>2, <2>3
  <1>8. CASE SetupTimesOut
    <2>1. \A r \in Rfps : ~answers[r].offered
      BY <1>8 DEF SetupTimesOut
    <2> QED
      BY <1>8, <2>1 DEF SetupTimesOut, GetIssuerUrl
  <1>9. CASE Ready
    BY <1>9 DEF Ready, issuerVars, ServiceSteps, EphemeralSteps
  <1>10. CASE Enlist
    BY <1>10 DEF Enlist, issuerVars, ServiceSteps, EphemeralSteps
  <1>11. ASSUME NEW r \in Rfps, RfpArrives(r) \/ CreateBidConfig(r) \/ SubmitSignedBid(r)
         PROVE  BringUpInv'
    <2>1. CASE RfpArrives(r)
      <3> DEFINE found == at \in {"discovery", "up"}
      <3>1. UNCHANGED <<kind, at, baseUrl, setup, issuer, issuerUrl, timedOut, offerings>>
        BY <2>1 DEF RfpArrives, issuerVars
      <3>2. answers' = [answers EXCEPT ![r] = [NoAnswer EXCEPT !.at = "arrived", !.offered = found]]
        BY <2>1 DEF RfpArrives, Answer1
      <3>3. found \in BOOLEAN
        BY MembershipIsBoolean
      <3>4. found => at \in {"discovery", "up"}
        OBVIOUS
      <3> HIDE DEF found
      <3>5. answers' \in [Rfps -> [at : {"no", "arrived", "configured", "submitted"},
                                   offered : BOOLEAN,
                                   url : {"unset", "fallback", "public"}]]
        BY <3>2, <3>3 DEF NoAnswer
      <3>6. \A q \in Rfps : \/ answers'[q] = answers[q]
                            \/ answers'[q].at = "arrived" /\ answers'[q].offered = found
        BY <3>2 DEF NoAnswer
      <3> QED
        <4>1. BringUpTypeOK'
          BY <3>1, <3>5
        <4>2. OfferingIsCurrent'
          BY <3>1
        <4>3. OfferedAfterSetup'
          BY <3>1, <3>6, <3>4
        <4>4. OfferedBidsArePublic'
          BY <3>1, <3>6
        <4> QED
          BY <4>1, <4>2, <4>3, <4>4
    <2>2. CASE CreateBidConfig(r)
      BY <2>2 DEF CreateBidConfig, Answer1, GetIssuerUrl
    <2>3. CASE SubmitSignedBid(r)
      BY <2>3 DEF SubmitSignedBid, Answer1, issuerVars
    <2> QED
      BY <1>11, <2>1, <2>2, <2>3
  <1>12. CASE UNCHANGED bringUpVars
    BY <1>12 DEF bringUpVars
  <1> QED
    BY <1>1, <1>2, <1>3, <1>4, <1>5, <1>6, <1>7, <1>8, <1>9, <1>10, <1>11, <1>12
       DEF BringUpNext, BringUpStep

\* However often a bidder is restarted and with whichever BASE_URL, its one
\* offering names what it serves, and a bid for an RFP that found it there
\* carries the public issuer unless the issuer's registration timed out.
THEOREM BringUpHolds == BringUpSpec => []BringUpIsSound
  <1>1. BringUpInv => BringUpIsSound
    <2> SUFFICES ASSUME BringUpInv PROVE OfferedBidsArePublic /\ OneCurrentOffering
      BY DEF BringUpIsSound
    <2>1. Len(offerings) <= 1
      <3>1. CASE offerings = <<>>
        BY <3>1
      <3>2. ASSUME NEW url, offerings = <<url>> PROVE Len(offerings) <= 1
        BY <3>2
      <3> QED
        BY <3>1, <3>2 DEF BringUpInv, OfferingIsCurrent
    <2> QED
      BY <2>1 DEF BringUpInv, OfferingIsCurrent, OneCurrentOffering
  <1> QED
    BY BringUpInitInv, BringUpNextInv, <1>1, PTL DEF BringUpSpec

-----------------------------------------------------------------------------
(* EphemeralCompute: deletions leave nothing, a nonce yields one token     *)

EphTypeOK ==
    /\ accepted \in [Contracts -> {"none", "signing", "acked", "failed"}]
    /\ prov \in [Contracts -> {"none", "resolving", "granted", "running", "addressed", "ok", "failed"}]
    /\ droplet \in [Contracts -> {"none", "noaddress", "address"}]
    /\ proof \in [Proofs -> {"none", "checking", "token", "refused"}]
    /\ ephTokens \in [Contracts -> Nat]
    /\ del \in [Deletes -> {"none", "waiting", "revoked", "destroyed", "done"}]

\* Before docker run is called, a contract has no nonce and no container.
Unborn(c) == prov[c] \in {"none", "resolving", "granted"}

Checking(c) == {p \in Proofs : ProofOf[p] = c /\ proof[p] = "checking"}

\* The nonce is spent once: still to be made or in the store, held by the one
\* call of prove that checks, or gone with the one token it yielded.
NonceSpentOnce ==
    \A c \in Contracts :
        /\ Unborn(c) => c \notin containers /\ c \notin nonces
        /\ Unborn(c) \/ c \in nonces => ephTokens[c] = 0 /\ Checking(c) = {}
        /\ \A p, q \in Checking(c) : p = q
        /\ Checking(c) # {} => ephTokens[c] = 0
        /\ ephTokens[c] <= 1

\* What is left of a contract whose provisioning came out well, once its grant
\* was revoked, and once its container was removed.
Revoked(c)   == c \in grants => <<"grant", c>> \in kept
Destroyed(c) == Revoked(c) /\ droplet[c] = "none" /\ (c \in containers => <<"container", c>> \in kept)

\* Each vm.delete does its part in order, and after its provisioning settled;
\* rbacByProvider is emptied only by one that had docker remove the container.
DeletesInOrder ==
    /\ \A c \in Contracts : /\ c \in rbacBy => prov[c] = "ok"
                            /\ prov[c] = "ok" /\ c \notin rbacBy => Destroyed(c)
    /\ \A d \in Deletes :
           LET c == DeleteOf[d] IN
           /\ del[d] = "revoked" => prov[c] = "ok" /\ Revoked(c)
           /\ del[d] \in {"destroyed", "done"} =>
                  Settled(c) /\ (prov[c] = "ok" => Destroyed(c))

\* A contract is provisioned once, and is forgotten only by its vm.delete.
ForgottenByDelete ==
    \A c \in Contracts :
        /\ accepted[c] = "none" => prov[c] = "none"
        /\ accepted[c] = "acked" /\ c \notin active
               => \E d \in Deletes : DeleteOf[d] = c /\ del[d] = "done"

EphInv == EphTypeOK /\ NonceSpentOnce /\ DeletesInOrder /\ ForgottenByDelete

\* The initial states satisfy the invariant.
LEMMA EphInitInv == EphInit => EphInv
  <1> SUFFICES ASSUME EphInit PROVE EphInv
    OBVIOUS
  <1> USE EphemeralAssumption DEF EphInit
  <1>1. EphTypeOK
    BY DEF EphTypeOK
  <1>2. NonceSpentOnce
    BY DEF NonceSpentOnce, Unborn, Checking
  <1>3. DeletesInOrder
    BY DEF DeletesInOrder
  <1>4. ForgottenByDelete
    BY DEF ForgottenByDelete
  <1> QED
    BY <1>1, <1>2, <1>3, <1>4 DEF EphInv

\* The steps of provisioning.
LEMMA ProvisionPreserves ==
    ASSUME EphInv, NEW c \in Contracts, ProvisionStep(c)
    PROVE  EphInv'
  <1> USE EphemeralAssumption DEF EphInv
  <1>0. UNCHANGED <<accepted, active, kept, proof, ephTokens, del>>
    BY DEF ProvisionStep, ProvisionResolveFails, ProvisionGrant, ProvisionRun, ProvisionAddress,
           ProvisionReady, ProvisionSshTimeout, acceptVars, proofVars, deleteVars
  <1>1. /\ prov[c] \in {"resolving", "granted", "running", "addressed"}
        /\ \E s \in {"granted", "running", "addressed", "ok", "failed"} :
               /\ prov' = [prov EXCEPT ![c] = s]
               /\ s = "granted" => prov[c] = "resolving"
               /\ IF s = "ok" THEN rbacBy' = rbacBy \cup {c} ELSE rbacBy' = rbacBy
               /\ IF prov[c] = "granted"
                  THEN nonces' = nonces \cup {c} /\ containers' \subseteq containers \cup {c}
                  ELSE UNCHANGED <<nonces, containers>>
               /\ \E a \in {"none", "noaddress", "address"} :
                      droplet' = [droplet EXCEPT ![c] = a]
               /\ grants' \subseteq grants \cup {c}
    <2>1. droplet = [droplet EXCEPT ![c] = droplet[c]]
          /\ droplet[c] \in {"none", "noaddress", "address"}
      BY DEF EphTypeOK
    <2>2. CASE ProvisionResolveFails(c) \/ ProvisionSshTimeout(c)
      BY <2>1, <2>2 DEF ProvisionResolveFails, ProvisionSshTimeout
    <2>3. CASE ProvisionGrant(c)
      BY <2>3 DEF ProvisionGrant
    <2>4. CASE ProvisionRun(c)
      BY <2>1, <2>4 DEF ProvisionRun
    <2>5. CASE ProvisionAddress(c)
      BY <2>1, <2>5 DEF ProvisionAddress
    <2>6. CASE ProvisionReady(c)
      BY <2>6 DEF ProvisionReady
    <2> QED
      BY <2>2, <2>3, <2>4, <2>5, <2>6 DEF ProvisionStep
  <1>2. EphTypeOK'
    BY <1>0, <1>1 DEF EphTypeOK
  <1>3. NonceSpentOnce'
    BY <1>0, <1>1 DEF NonceSpentOnce, Unborn, Checking, EphTypeOK
  <1>4. DeletesInOrder'
    BY <1>0, <1>1 DEF DeletesInOrder, Settled, Destroyed, Revoked, EphTypeOK
  <1>5. ForgottenByDelete'
    BY <1>0, <1>1 DEF ForgottenByDelete, EphTypeOK
  <1> QED
    BY <1>2, <1>3, <1>4, <1>5

\* The calls of /v1/oidc/prove.
LEMMA ProvePreserves ==
    ASSUME EphInv, NEW p \in Proofs, ProveStart(p) \/ ProveEnd(p)
    PROVE  EphInv'
  <1> DEFINE c == ProofOf[p]
  <1> USE EphemeralAssumption DEF EphInv
  <1>0. /\ c \in Contracts
        /\ UNCHANGED <<accepted, prov, active, kept, grants, rbacBy, droplet, containers, del>>
    BY DEF ProveStart, ProveEnd, acceptVars, deleteVars
  <1>1. DeletesInOrder' /\ ForgottenByDelete'
    BY <1>0 DEF DeletesInOrder, ForgottenByDelete, Settled, Destroyed, Revoked
  <1>2. CASE ProveStart(p)
    <2>1. /\ nonces' = nonces \ {c} /\ ephTokens' = ephTokens /\ c \in containers
          /\ \/ proof' = [proof EXCEPT ![p] = "refused"]
             \/ proof' = [proof EXCEPT ![p] = "checking"] /\ c \in nonces
          /\ proof[p] = "none"
      BY <1>2 DEF ProveStart, proofVars
    <2>2. EphTypeOK'
      BY <1>0, <2>1 DEF EphTypeOK
    <2>3. NonceSpentOnce'
      BY <1>0, <2>1 DEF NonceSpentOnce, Unborn, Checking, EphTypeOK
    <2> QED
      BY <1>1, <2>2, <2>3
  <1>3. CASE ProveEnd(p)
    <2>1. /\ nonces' = nonces
          /\ proof[p] = "checking"
          /\ \/ proof' = [proof EXCEPT ![p] = "refused"] /\ ephTokens' = ephTokens
             \/ /\ proof' = [proof EXCEPT ![p] = "token"]
                /\ ephTokens' = [ephTokens EXCEPT ![c] = @ + 1]
      BY <1>3 DEF ProveEnd
    <2>2. EphTypeOK'
      BY <1>0, <2>1 DEF EphTypeOK
    <2>3. NonceSpentOnce'
      BY <1>0, <2>1 DEF NonceSpentOnce, Unborn, Checking, EphTypeOK
    <2> QED
      BY <1>1, <2>2, <2>3
  <1> QED
    BY <1>2, <1>3

\* The steps of vm.delete.
LEMMA DeletePreserves ==
    ASSUME EphInv, NEW d \in Deletes, EphDeleteStart(d) \/ DeleteStep(d)
    PROVE  EphInv'
  <1> DEFINE c == DeleteOf[d]
  <1> USE EphemeralAssumption DEF EphInv
  <1>0. /\ c \in Contracts
        /\ UNCHANGED <<accepted, prov, nonces, proof, ephTokens>>
        /\ containers' \subseteq containers
        /\ \E s \in {"waiting", "revoked", "destroyed", "done"} : del' = [del EXCEPT ![d] = s]
    BY DEF EphDeleteStart, DeleteStep, EphDestroyGrant, EphDestroy, EphDeleteEnd, acceptVars,
           deleteVars, proofVars
  <1>1. NonceSpentOnce'
    BY <1>0 DEF NonceSpentOnce, Unborn, Checking
  <1>2. EphTypeOK'
    BY <1>0 DEF EphTypeOK, EphDeleteStart, DeleteStep, EphDestroyGrant, EphDestroy, EphDeleteEnd
  <1>3. CASE EphDeleteStart(d)
    BY <1>0, <1>1, <1>2, <1>3
       DEF EphDeleteStart, DeletesInOrder, ForgottenByDelete, Settled, Destroyed, Revoked, EphTypeOK,
           acceptVars
  <1>4. CASE EphDestroyGrant(d)
    BY <1>0, <1>1, <1>2, <1>4
       DEF EphDestroyGrant, DeletesInOrder, ForgottenByDelete, Settled, Destroyed, Revoked, EphTypeOK,
           acceptVars
  <1>5. CASE EphDestroy(d)
    BY <1>0, <1>1, <1>2, <1>5
       DEF EphDestroy, DeletesInOrder, ForgottenByDelete, Settled, Destroyed, Revoked, EphTypeOK,
           acceptVars
  <1>6. CASE EphDeleteEnd(d)
    BY <1>0, <1>1, <1>2, <1>6
       DEF EphDeleteEnd, DeletesInOrder, ForgottenByDelete, Settled, Destroyed, Revoked, EphTypeOK
  <1> QED
    BY <1>3, <1>4, <1>5, <1>6 DEF DeleteStep

\* Every step keeps the invariant.
LEMMA EphNextInv == EphInv /\ [EphNext]_ephVars => EphInv'
  <1> SUFFICES ASSUME EphInv, [EphNext]_ephVars PROVE EphInv'
    OBVIOUS
  <1> USE EphemeralAssumption DEF EphInv
  <1>1. ASSUME NEW c \in Contracts, EphAccept(c) PROVE EphInv'
    <2>1. /\ accepted' = [accepted EXCEPT ![c] = "signing"] /\ prov' = [prov EXCEPT ![c] = "resolving"]
          /\ prov[c] = "none"
          /\ UNCHANGED <<active, grants, kept, rbacBy, droplet, nonces, containers, proof, ephTokens, del>>
      BY <1>1 DEF EphAccept, proofVars, deleteVars, ForgottenByDelete
    <2>2. EphTypeOK'
      BY <2>1 DEF EphTypeOK
    <2>3. NonceSpentOnce'
      BY <2>1 DEF NonceSpentOnce, Unborn, Checking, EphTypeOK
    <2>4. DeletesInOrder'
      BY <2>1 DEF DeletesInOrder, Settled, Destroyed, Revoked, EphTypeOK
    <2>5. ForgottenByDelete'
      BY <2>1 DEF ForgottenByDelete, EphTypeOK
    <2> QED
      BY <2>2, <2>3, <2>4, <2>5
  <1>2. ASSUME NEW c \in Contracts, EphReceipt(c) PROVE EphInv'
    <2>1. /\ \/ accepted' = [accepted EXCEPT ![c] = "acked"] /\ active' = active \cup {c}
             \/ accepted' = [accepted EXCEPT ![c] = "failed"] /\ active' = active
          /\ accepted[c] = "signing"
          /\ UNCHANGED <<prov, grants, kept, rbacBy, droplet, nonces, containers, proof, ephTokens, del>>
      BY <1>2 DEF EphReceipt, proofVars, deleteVars
    <2>2. EphTypeOK'
      BY <2>1 DEF EphTypeOK
    <2>3. NonceSpentOnce'
      BY <2>1 DEF NonceSpentOnce, Unborn, Checking
    <2>4. DeletesInOrder'
      BY <2>1 DEF DeletesInOrder, Settled, Destroyed, Revoked
    <2>5. ForgottenByDelete'
      BY <2>1 DEF ForgottenByDelete, EphTypeOK
    <2> QED
      BY <2>2, <2>3, <2>4, <2>5
  <1>3. CASE UNCHANGED ephVars
    BY <1>3 DEF ephVars, EphTypeOK, NonceSpentOnce, Unborn, Checking, DeletesInOrder, Settled, Destroyed,
                Revoked, ForgottenByDelete
  <1> QED
    BY <1>1, <1>2, <1>3, ProvisionPreserves, ProvePreserves, DeletePreserves DEF EphNext

\* However a vm.delete races with the provisioning it undoes, a contract that
\* was forgotten leaves no droplet, and no container and no grant but one whose
\* removal failed; and however many calls of prove overlap, a nonce yields at
\* most one token.
THEOREM EphemeralHolds == EphSpec => []EphemeralIsSound
  <1>1. EphInv => EphemeralIsSound
    <2> SUFFICES ASSUME EphInv PROVE DeletedLeavesNothing /\ OneTokenPerNonce
      BY DEF EphemeralIsSound
    <2>1. OneTokenPerNonce
      BY DEF EphInv, NonceSpentOnce, OneTokenPerNonce
    <2>2. DeletedLeavesNothing
      BY DEF EphInv, DeletesInOrder, ForgottenByDelete, DeletedLeavesNothing, Settled, Destroyed, Revoked
    <2> QED
      BY <2>1, <2>2
  <1> QED
    BY EphInitInv, EphNextInv, <1>1, PTL DEF EphSpec

-----------------------------------------------------------------------------
(* SystemctlShim: at most one live process per unit                        *)

SupStates == {"none", "resolving", "checking", "pre", "oneshot", "loop", "spawned",
              "running", "clearing"}

ShimTypeOK ==
    /\ supervised \subseteq Units
    /\ sup \in [Units -> SupStates]
    /\ child \in [Units -> Nat]
    /\ alive \subseteq Units \X Nat
    /\ lastPid \in Nat

\* PID 1 owns the units it supervises, and only they are somewhere in
\* superviseUnit.
OwnedIsSupervised == \A u \in Units : u \in supervised \/ sup[u] = "none"

\* A live process is the last one its unit spawned, and superviseUnit waits
\* for it.
LiveIsAwaited ==
    \A p \in alive : p[2] = child[p[1]] /\ sup[p[1]] \in {"spawned", "running"}

ShimInv == ShimTypeOK /\ OwnedIsSupervised /\ LiveIsAwaited

\* The initial states satisfy the invariant.
LEMMA ShimInitInv == ShimInit => ShimInv
  BY DEF ShimInit, ShimInv, ShimTypeOK, OwnedIsSupervised, LiveIsAwaited, SupStates

\* Nothing but SpawnChild starts a process: every other step leaves at most
\* the processes there were, and where it moves superviseUnit on, the unit
\* has no live process or stays where it is awaited.
LEMMA WithoutSpawn ==
    ASSUME ShimInv, alive' \subseteq alive, lastPid' = lastPid, child' = child,
           NEW u \in Units, NEW s \in SupStates,
           sup' = [sup EXCEPT ![u] = s],
           supervised' = IF s = "none" THEN supervised \ {u} ELSE supervised \cup {u},
           s \in {"spawned", "running"} \/ \A p \in alive' : p[1] # u
    PROVE  ShimInv'
  <1> USE DEF ShimInv
  <1>1. ShimTypeOK'
    BY DEF ShimTypeOK
  <1>2. OwnedIsSupervised'
    BY DEF ShimTypeOK, OwnedIsSupervised
  <1>3. LiveIsAwaited'
    BY DEF ShimTypeOK, LiveIsAwaited
  <1> QED
    BY <1>1, <1>2, <1>3

\* A step that leaves PID 1 alone and spawns nothing.
LEMMA ShimUntouched ==
    ASSUME ShimInv, alive' \subseteq alive, UNCHANGED <<supervised, sup, child, lastPid>>
    PROVE  ShimInv'
  BY DEF ShimInv, ShimTypeOK, OwnedIsSupervised, LiveIsAwaited

\* Every step keeps the invariant.
LEMMA ShimNextInv == ShimInv /\ [ShimNext]_shimVars => ShimInv'
  <1> SUFFICES ASSUME ShimInv, [ShimNext]_shimVars PROVE ShimInv'
    OBVIOUS
  <1>0. \A u \in Units : sup[u] \notin {"spawned", "running"} => \A p \in alive : p[1] # u
    BY DEF ShimInv, LiveIsAwaited
  <1>1. CASE ReadWanted \/ UNCHANGED shimVars
    BY <1>1, ShimUntouched DEF ReadWanted, shimVars
  <1>2. ASSUME NEW u \in Units, SpawnChild(u) PROVE ShimInv'
    <2> DEFINE pid == lastPid + 1
    <2>1. /\ alive' = alive \cup {<<u, pid>>} /\ lastPid' = pid
          /\ child' = [child EXCEPT ![u] = pid] /\ sup' = [sup EXCEPT ![u] = "spawned"]
          /\ supervised' = supervised /\ sup[u] = "loop"
      BY <1>2 DEF SpawnChild
    <2>2. pid \in Nat
      BY DEF ShimInv, ShimTypeOK
    <2> HIDE DEF pid
    <2>3. ShimTypeOK'
      BY <2>1, <2>2 DEF ShimInv, ShimTypeOK, SupStates
    <2>4. OwnedIsSupervised'
      BY <2>1 DEF ShimInv, ShimTypeOK, OwnedIsSupervised
    <2>5. LiveIsAwaited'
      BY <1>0, <2>1, <2>2 DEF ShimInv, ShimTypeOK, LiveIsAwaited
    <2> QED
      BY <2>3, <2>4, <2>5 DEF ShimInv
  <1>3. ASSUME NEW u \in Units, SuperviseStep(u), ~SpawnChild(u) PROVE ShimInv'
    <2>1. /\ alive' = alive /\ lastPid' = lastPid /\ child' = child
          /\ \E s \in SupStates :
                /\ sup' = [sup EXCEPT ![u] = s]
                /\ s \in {"spawned", "running"} => sup[u] = "spawned"
                /\ supervised' = IF s = "none" THEN supervised \ {u} ELSE supervised \cup {u}
                /\ sup[u] = "running" => <<u, child[u]>> \notin alive
                /\ sup[u] = "spawned" => s = "running"
      <3>1. sup[u] # "none" => u \in supervised
        BY DEF ShimInv, OwnedIsSupervised
      <3>2. supervised = supervised \cup {u} \/ sup[u] = "none"
        BY <3>1
      <3>3. CASE Adopt(u)
        BY <3>1, <3>2, <3>3 DEF Adopt, SupStates, ShimInv, OwnedIsSupervised
      <3>4. CASE ResolveUnit(u)
        BY <3>1, <3>2, <3>4 DEF ResolveUnit, Drop, Release, SupStates
      <3>5. CASE CheckConditions(u) \/ RunExecStartPre(u) \/ OneshotEnds(u)
        BY <3>1, <3>2, <3>5 DEF CheckConditions, RunExecStartPre, OneshotEnds, Drop, Release, SupStates
      <3>6. CASE WritePid(u)
        BY <3>1, <3>2, <3>6 DEF WritePid, SupStates
      <3>7. CASE Reap(u)
        BY <3>1, <3>2, <3>7 DEF Reap, SupStates
      <3>8. CASE ClearPid(u)
        BY <3>1, <3>2, <3>8 DEF ClearPid, Release, SupStates
      <3> QED
        BY <1>3, <3>3, <3>4, <3>5, <3>6, <3>7, <3>8 DEF SuperviseStep
    <2>2. sup[u] # "spawned" => \A p \in alive : p[1] # u
      <3>1. CASE sup[u] = "running"
        BY <2>1, <3>1 DEF ShimInv, ShimTypeOK, LiveIsAwaited
      <3> QED
        BY <1>0, <3>1
    <2> QED
      BY <2>1, <2>2, WithoutSpawn
  <1>4. ASSUME NEW u \in Units, ChildExits(u) PROVE ShimInv'
    BY <1>4, ShimUntouched DEF ChildExits
  <1>5. ASSUME NEW k \in Commands, Edit(k) \/ StopUnwant(k) \/ StopStep(k) PROVE ShimInv'
    BY <1>5, ShimUntouched
       DEF Edit, StopUnwant, StopStep, StopKill, StopClear, Rewant, Kill, superVars
  <1> QED
    BY <1>1, <1>2, <1>3, <1>4, <1>5 DEF ShimNext

\* Whatever commands overlap with the supervisor, a unit never has two live
\* processes: superviseUnit spawns the next one only after it reaped the last,
\* and reconcile starts it once per unit.
THEOREM ShimRunsOneProcess == ShimSpec => []OneProcessPerUnit
  <1>1. ShimInv => OneProcessPerUnit
    <2> SUFFICES ASSUME ShimInv, NEW u \in Units
                 PROVE  Cardinality({p \in alive : p[1] = u}) <= 1
      BY DEF OneProcessPerUnit
    <2> DEFINE one == {<<u, child[u]>>}
    <2>1. {p \in alive : p[1] = u} \in SUBSET one
      BY DEF ShimInv, ShimTypeOK, LiveIsAwaited
    <2>2. IsFiniteSet(one) /\ Cardinality(one) = 1
      BY FS_Singleton
    <2> HIDE DEF one
    <2> QED
      BY <2>1, <2>2, FS_Subset
  <1> QED
    BY ShimInitInv, ShimNextInv, <1>1, PTL DEF ShimSpec
=============================================================================
