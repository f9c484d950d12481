---------------------------- MODULE AtprotoRepo ----------------------------
(***************************************************************************)
(* Commits and the firehose of hono-factory-atproto-repo: handlers call    *)
(* Repo.applyWrites, which reads the head, builds a tree, takes a TID,     *)
(* signs and sets the head, with an await between any two of these and no  *)
(* lock; the sequencer then numbers the commit and publishes it.  A        *)
(* subscriber replays the backlog and then follows the event bus.          *)
(* Commits are numbered in the order they are stored; the tree of a commit *)
(* is its set of keys (MerkleSearchTree has the shape).                    *)
(***************************************************************************)
EXTENDS Integers, Sequences, FiniteSets

CONSTANTS
    Writes,       \* calls: [id, action, key] with action "create" or "delete"
    RepoSubs,     \* subscriptions of subscribeRepos
    MaxBacklog,   \* MAX_BACKLOG
    MaxMicros     \* bound on the clock

ASSUME RepoAssumption ==
    /\ \A w \in Writes : w.action \in {"create", "delete"}
    /\ {MaxBacklog, MaxMicros} \subseteq Nat

VARIABLES
    head,         \* the head: number of the commit, 0 before the first
    store,        \* the commits stored: [keys, rev, prev]
    writer,       \* where each call is, with what it has read
    overlapped,   \* history: two applyWrites were under way at once
    micros,       \* the clock
    lastMicros,   \* of nextTid
    seq,          \* #seq
    backlog,      \* #backlog: frames [seq, rev, since]
    subs,         \* subscriptions
    emitted,      \* frames emitted to each
    skipped       \* history: frames a subscription had no chance to see

repoVars == <<head, store, writer, overlapped, micros, lastMicros, seq, backlog,
              subs, emitted, skipped>>
feedVars == <<seq, backlog, subs, emitted, skipped>>
tidVars  == <<micros, lastMicros>>

RepoIdle == [at |-> "idle"]

RepoInit ==
    /\ head = 0 /\ store = <<>>
    /\ writer = [w \in Writes |-> RepoIdle]
    /\ overlapped = FALSE
    /\ micros = 1 /\ lastMicros = 0
    /\ seq = 0 /\ backlog = <<>>
    /\ subs = [s \in RepoSubs |-> [at |-> "none"]]
    /\ emitted = [s \in RepoSubs |-> <<>>]
    /\ skipped = [s \in RepoSubs |-> {}]

HeadKeys == IF head = 0 THEN {} ELSE store[head].keys
RevOf(c) == IF c = 0 THEN 0 ELSE store[c].rev

-----------------------------------------------------------------------------
(* applyWrites                                                             *)

Underway(w) == writer[w].at \notin {"idle", "done", "refused"}

\* The head is read and its tree loaded.
ReadHead(w) ==
    /\ writer[w] = RepoIdle
    /\ writer' = [writer EXCEPT ![w] = [at |-> "read", base |-> head, keys |-> HeadKeys]]
    /\ overlapped' = (overlapped \/ \E v \in Writes : Underway(v))
    /\ UNCHANGED <<head, store, tidVars, feedVars>>

\* The trees that writing may make of one: create overwrites; a delete that the
\* tree refuses is passed over and leaves the key (MerkleSearchTree).
Edited(w, keys) ==
    IF w.action = "create" THEN {keys \cup {w.key}} ELSE {keys, keys \ {w.key}}

\* The writes are applied to the tree.  Deleting what is not there throws, and so
\* does a tree that cannot be serialized.
ApplyOps(w) ==
    LET r == writer[w] IN
    /\ r.at = "read"
    /\ \/ /\ w.action = "create" \/ w.key \in r.keys
          /\ \E keys \in Edited(w, r.keys) :
                 writer' = [writer EXCEPT ![w] = [at |-> "applied", base |-> r.base, keys |-> keys]]
       \/ writer' = [writer EXCEPT ![w] = [at |-> "refused"]]
    /\ UNCHANGED <<head, store, overlapped, tidVars, feedVars>>

\* Mutation: two TIDs within a microsecond are the same.
NextTidUnguarded(t) == t = micros

\* nextTid: never the same twice.
NextTid(t) == t = IF micros <= lastMicros THEN lastMicros + 1 ELSE micros

\* The commit gets its TID and is signed and stored.
StoreCommit(w) ==
    LET r == writer[w] IN
    /\ r.at = "applied"
    /\ \E t \in 1..(MaxMicros + Cardinality(Writes)) :
           /\ NextTid(t)
           /\ lastMicros' = t
           /\ store' = Append(store, [keys |-> r.keys, rev |-> t, prev |-> r.base])
    /\ writer' = [writer EXCEPT ![w] =
           [at |-> "stored", base |-> r.base, commit |-> Len(store) + 1]]
    /\ UNCHANGED <<head, overlapped, micros, feedVars>>

\* Mutation: only the first head is kept.
SetHeadOnce(w) ==
    /\ writer[w].at = "stored"
    /\ head' = IF head = 0 THEN writer[w].commit ELSE head
    /\ writer' = [writer EXCEPT ![w].at = "headed"]
    /\ UNCHANGED <<store, overlapped, tidVars, feedVars>>

\* setHead, whatever the head is by now.
SetHead(w) ==
    /\ writer[w].at = "stored"
    /\ head' = writer[w].commit
    /\ writer' = [writer EXCEPT ![w].at = "headed"]
    /\ UNCHANGED <<store, overlapped, tidVars, feedVars>>

\* wiredRepo.applyWrites: sequencer.append, and the handler answers.  The frame
\* is queued for the live subscriptions; one between backfill and live misses
\* it.  Dropping the oldest frame moves the others under a backfill that is on
\* its way, which so passes over one frame.
AppendFrame(w) ==
    LET c == writer[w].commit
        f == [seq |-> seq + 1, rev |-> store[c].rev, since |-> RevOf(writer[w].base)]
        longer == Append(backlog, f)
        over == Len(longer) > MaxBacklog
        shifted == [s \in RepoSubs |->
                       IF over /\ subs[s].at = "backfill"
                       THEN {longer[i].seq : i \in {subs[s].next} \cap DOMAIN longer} ELSE {}]
    IN  /\ writer[w].at = "headed"
        /\ writer' = [writer EXCEPT ![w] = [at |-> "done", commit |-> c]]
        /\ seq' = seq + 1
        /\ backlog' = IF over THEN Tail(longer) ELSE longer
        /\ subs' = [s \in RepoSubs |->
               IF subs[s].at = "live" THEN [subs[s] EXCEPT !.queue = Append(@, f)] ELSE subs[s]]
        /\ skipped' = [s \in RepoSubs |->
               skipped[s] \cup shifted[s] \cup (IF subs[s].at = "handover" THEN {f.seq} ELSE {})]
        /\ UNCHANGED <<head, store, overlapped, tidVars, emitted>>

MicrosTick ==
    /\ micros < MaxMicros
    /\ micros' = micros + 1
    /\ UNCHANGED <<head, store, writer, overlapped, lastMicros, feedVars>>

-----------------------------------------------------------------------------
(* subscribeRepos                                                          *)

SubVars == <<head, store, writer, overlapped, tidVars, seq, backlog>>

\* createSubscribeHandler: with a cursor or without.  What left the backlog
\* before cannot be replayed.
Subscribe(s, cur) ==
    /\ subs[s].at = "none"
    /\ subs' = [subs EXCEPT ![s] = [at |-> "backfill", cursor |-> cur, next |-> 1, queue |-> <<>>]]
    /\ skipped' = [skipped EXCEPT ![s] =
           1..(IF backlog = <<>> THEN seq ELSE backlog[1].seq - 1)]
    /\ UNCHANGED <<SubVars, emitted>>

\* Mutation: off by one.
AfterCursorSkips(f, cur) == f.seq > cur + 1

AfterCursor(f, cur) == f.seq > cur

\* One step of backfill.
BackfillNext(s) ==
    LET b == subs[s] IN
    /\ b.at = "backfill"
    /\ IF b.next \in DOMAIN backlog
       THEN /\ subs' = [subs EXCEPT ![s].next = @ + 1]
            /\ emitted' = IF AfterCursor(backlog[b.next], b.cursor)
                          THEN [emitted EXCEPT ![s] = Append(@, backlog[b.next])] ELSE emitted
       ELSE subs' = [subs EXCEPT ![s].at = "handover"] /\ UNCHANGED emitted
    /\ UNCHANGED <<SubVars, skipped>>

\* live subscribes to the bus.
GoLive(s) ==
    /\ subs[s].at = "handover"
    /\ subs' = [subs EXCEPT ![s].at = "live"]
    /\ UNCHANGED <<SubVars, emitted, skipped>>

\* Mutation: the last frame stays in the queue.
LiveNextKeepsLast(s) ==
    /\ subs[s].at = "live" /\ Len(subs[s].queue) > 1
    /\ subs' = [subs EXCEPT ![s].queue = Tail(@)]
    /\ emitted' = [emitted EXCEPT ![s] = Append(@, Head(subs[s].queue))]
    /\ UNCHANGED <<SubVars, skipped>>

\* The next frame of the queue.
LiveNext(s) ==
    /\ subs[s].at = "live" /\ subs[s].queue # <<>>
    /\ subs' = [subs EXCEPT ![s].queue = Tail(@)]
    /\ emitted' = [emitted EXCEPT ![s] = Append(@, Head(subs[s].queue))]
    /\ UNCHANGED <<SubVars, skipped>>

\* The disposer: nothing is emitted any more.
CancelFeed(s) ==
    /\ subs[s].at \in {"backfill", "handover", "live"}
    /\ subs' = [subs EXCEPT ![s] = [at |-> "cancelled"]]
    /\ UNCHANGED <<SubVars, emitted, skipped>>

FeedStep(s) == BackfillNext(s) \/ GoLive(s) \/ LiveNext(s)

RepoNext ==
    \/ \E w \in Writes : \/ ReadHead(w) \/ ApplyOps(w) \/ StoreCommit(w) \/ SetHead(w)
                         \/ AppendFrame(w)
    \/ MicrosTick
    \/ \E s \in RepoSubs : \/ \E cur \in 0..seq : Subscribe(s, cur)
                           \/ FeedStep(s) \/ CancelFeed(s)

RepoSpec ==
    /\ RepoInit /\ [][RepoNext]_repoVars
    /\ \A s \in RepoSubs : WF_repoVars(FeedStep(s))

-----------------------------------------------------------------------------
(* Properties                                                              *)

\* No two commits share a revision, and revisions grow along every chain of
\* prev links, also when applyWrites overlap within one tick of the clock.
RevsGrow ==
    \A c \in DOMAIN store :
        /\ store[c].rev > RevOf(store[c].prev)
        /\ \A d \in DOMAIN store : store[d].rev = store[c].rev => d = c

\* A delete of the key of w has become a head after the commit of w.
UndoneSince(w) ==
    \E v \in Writes :
        /\ v.key = w.key /\ v.action = "delete"
        /\ writer[v].at \in {"headed", "done"} /\ writer[v].commit > writer[w].commit

\* As long as no two applyWrites overlap, every record whose creation was
\* answered is in the head until a later commit deletes it, and each frame of
\* the firehose continues from the revision of the frame before.
SerialWritesSurvive ==
    ~overlapped =>
        /\ \A w \in Writes :
               w.action = "create" /\ writer[w].at = "done" => w.key \in HeadKeys \/ UndoneSince(w)
        /\ \A i \in 1..(Len(backlog) - 1) : backlog[i + 1].since = backlog[i].rev

\* A subscription emits frames in order and never twice, and leaves out none
\* after its cursor except those it had no chance to see: the ones that had left
\* the backlog when it began, the ones published between the end of the backfill
\* and the subscription to the bus, and one for every frame that is dropped from
\* a full backlog while the backfill runs, which moves the backlog on under it.
\* The last two are gaps in what contracts.ts promises of a replay.
FeedIsOrdered ==
    \A s \in RepoSubs :
        LET e == emitted[s] IN
        /\ \A i \in 1..(Len(e) - 1) : e[i].seq < e[i + 1].seq
        /\ subs[s].at \in {"backfill", "handover", "live"} /\ e # <<>> =>
               \A n \in (subs[s].cursor + 1)..e[Len(e)].seq :
                   n \in skipped[s] \/ \E i \in DOMAIN e : e[i].seq = n

\* Every frame published to a live subscription is emitted, or the
\* subscription was cancelled.
LiveFramesArrive ==
    \A s \in RepoSubs :
        (subs[s].at = "live" /\ subs[s].queue # <<>>) ~>
            (subs[s].at = "cancelled" \/ (subs[s].at = "live" /\ subs[s].queue = <<>>))

\* Overlapping applyWrites never share a revision, writes that do not overlap
\* all survive, and every subscription sees the firehose in order, without gaps
\* but those FeedIsOrdered names: before the backlog, at the hand-over, and where
\* a full backlog moves on under a running backfill.
RepoIsSound == RevsGrow /\ SerialWritesSurvive /\ FeedIsOrdered
=============================================================================
