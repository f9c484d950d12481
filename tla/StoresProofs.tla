---------------------------- MODULE StoresProofs ----------------------------
(***************************************************************************)
(* Proofs about what is stored: the repository and its firehose, the       *)
(* log of a DID, the package store and its routes, droplets, images, keys  *)
(* and policies, for any number of writers, subscriptions,                 *)
(* requests, builds and records; and about the bytes of blocks and of CAR  *)
(* files.                                                                  *)
(***************************************************************************)
EXTENDS AtprotoRepo, PlcDirectory, PackageStore, PackageRoutes, DropletApi,
        QemuImage, AccessControl, DigitalOceanRbac, BlockBytes,
        SequenceLemmas, TLAPS

-----------------------------------------------------------------------------
(* AtprotoRepo: revisions, serial writes and the firehose                  *)

RepoKeys == {w.key : w \in Writes}
Commits == [keys : SUBSET RepoKeys, rev : Nat, prev : Nat]
Frames == [seq : Nat, rev : Nat, since : Nat]
Writers ==
    [at : {"idle", "refused"}]
        \cup [at : {"done"}, commit : Nat]
        \cup [at : {"read", "applied"}, base : Nat, keys : SUBSET RepoKeys]
        \cup [at : {"stored", "headed"}, base : Nat, commit : Nat]
Feeds ==
    [at : {"none", "cancelled"}]
        \cup [at : {"backfill", "handover", "live"}, cursor : Nat, next : Nat, queue : Seq(Frames)]

CommitsTyped ==
    /\ store \in Seq(Commits)
    /\ head \in 0..Len(store)
    /\ writer \in [Writes -> Writers]
    /\ micros \in Nat /\ lastMicros \in Nat

\* Revisions grow with the order in which commits are stored, and what a call
\* has read or stored is there.
RevsOrdered ==
    /\ \A c \in 1..Len(store) : store[c].rev > 0 /\ store[c].rev <= lastMicros /\ store[c].prev < c
    /\ \A c, d \in 1..Len(store) : c < d => store[c].rev < store[d].rev
    /\ \A w \in Writes : writer[w].at \in {"read", "applied", "stored", "headed"} => writer[w].base \in 0..Len(store)
    /\ \A w \in Writes : writer[w].at \in {"stored", "headed", "done"} => writer[w].commit \in 1..Len(store)

\* The key of a create is in the head, or deleted since.
Kept(w) == w.action = "create" => w.key \in HeadKeys \/ UndoneSince(w)

\* A call started from the head that is there until the call sets its own.
CallIsAt(w) ==
    /\ writer[w].at \in {"read", "applied", "stored"} => writer[w].base = head
    /\ writer[w].at = "read" => writer[w].keys = HeadKeys
    /\ writer[w].at = "applied" => writer[w].keys \in Edited(w, HeadKeys)
    /\ writer[w].at = "stored" =>
           store[writer[w].commit].keys \in Edited(w, HeadKeys) /\ writer[w].commit > head
    /\ writer[w].at = "headed" => writer[w].commit = head
    /\ writer[w].at \in {"headed", "done"} => writer[w].commit <= head /\ Kept(w)

\* Without an overlap, one call at most is under way, from the head.
OneAtATime ==
    /\ \A v, w \in Writes : Underway(v) /\ Underway(w) => v = w
    /\ \A w \in Writes : CallIsAt(w)

\* Without an overlap, the backlog is a chain that ends at the revision the next
\* frame will continue.
ChainIsWhole ==
    /\ \A i \in 1..(Len(backlog) - 1) : backlog[i + 1].since = backlog[i].rev
    /\ backlog # <<>> =>
         /\ (\A w \in Writes : writer[w].at # "headed") => backlog[Len(backlog)].rev = RevOf(head)
         /\ \A w \in Writes : writer[w].at = "headed" => backlog[Len(backlog)].rev = RevOf(writer[w].base)

Serial == ~overlapped => OneAtATime /\ ChainIsWhole

FeedTyped ==
    /\ seq \in Nat
    /\ backlog \in Seq(Frames) /\ Len(backlog) <= seq
    /\ subs \in [RepoSubs -> Feeds]
    /\ emitted \in [RepoSubs -> Seq(Frames)]
    /\ skipped \in [RepoSubs -> SUBSET Int]
    /\ \A i \in 1..Len(backlog) : backlog[i].seq = seq - Len(backlog) + i

\* The number of the frame a subscription looks at next.
Position(s) ==
    IF subs[s].at = "backfill" THEN seq - Len(backlog) + subs[s].next
    ELSE IF subs[s].at = "live" THEN seq - Len(subs[s].queue) + 1 ELSE seq + 1

Feeding(s) == subs[s].at \in {"backfill", "handover", "live"}

\* Number n was emitted to s, or s had no chance to see it.
Seen(s, n) == n \in skipped[s] \/ \E i \in 1..Len(emitted[s]) : emitted[s][i].seq = n

\* A subscription has seen what lies between its cursor and its position, and
\* what is queued for it comes right behind.
FeedIsAt(s) ==
    /\ \A i \in 1..(Len(emitted[s]) - 1) : emitted[s][i].seq < emitted[s][i + 1].seq
    /\ subs[s].at = "none" => emitted[s] = <<>>
    /\ Feeding(s) =>
         /\ subs[s].at # "live" => subs[s].queue = <<>>
         /\ subs[s].at = "backfill" => subs[s].next \in 1..(Len(backlog) + 1)
         /\ Len(subs[s].queue) <= seq
         /\ \A i \in 1..Len(subs[s].queue) : subs[s].queue[i].seq = seq - Len(subs[s].queue) + i
         /\ \A i \in 1..Len(emitted[s]) : emitted[s][i].seq < Position(s)
         /\ \A n \in Nat : subs[s].cursor < n /\ n < Position(s) => Seen(s, n)

FeedInv == FeedTyped /\ \A s \in RepoSubs : FeedIsAt(s)

RepoInv == CommitsTyped /\ RevsOrdered /\ Serial /\ FeedInv

\* The initial states satisfy the invariant.
LEMMA RepoInitInv == RepoInit => RepoInv
  <1> SUFFICES ASSUME RepoInit PROVE RepoInv
    OBVIOUS
  <1> USE DEF RepoInit, RepoIdle
  <1>1. CommitsTyped
    BY DEF CommitsTyped, Writers
  <1>2. RevsOrdered
    BY DEF RevsOrdered
  <1>3. Serial
    BY DEF Serial, OneAtATime, CallIsAt, ChainIsWhole, Underway
  <1>4. FeedTyped
    BY DEF FeedTyped, Feeds
  <1>5. \A s \in RepoSubs : FeedIsAt(s)
    BY DEF FeedIsAt, Feeding
  <1> QED
    BY <1>1, <1>2, <1>3, <1>4, <1>5 DEF RepoInv, FeedInv

\* What a call has, by where it is.
LEMMA WriterFacts ==
    ASSUME CommitsTyped, NEW w \in Writes
    PROVE  /\ writer[w].at \in {"idle", "done", "refused", "read", "applied", "stored", "headed"}
           /\ writer[w].at \in {"read", "applied"} =>
                  /\ writer[w] \in [at : {"read", "applied"}, base : Nat, keys : SUBSET RepoKeys]
                  /\ writer[w].base \in Nat /\ writer[w].keys \in SUBSET RepoKeys
           /\ writer[w].at \in {"stored", "headed"} =>
                  /\ writer[w] \in [at : {"stored", "headed"}, base : Nat, commit : Nat]
                  /\ writer[w].base \in Nat /\ writer[w].commit \in Nat
           /\ writer[w].at = "done" => writer[w].commit \in Nat
  <1>1. writer[w] \in Writers
    BY DEF CommitsTyped
  <1> QED
    BY <1>1 DEF Writers

\* The tree of the head, while the head is not set.
LEMMA HeadStays ==
    ASSUME CommitsTyped, CommitsTyped', head' = head,
           \A c \in 1..Len(store) : c \in 1..Len(store') /\ store'[c] = store[c]
    PROVE  HeadKeys' = HeadKeys /\ \A c \in 0..Len(store) : RevOf(c)' = RevOf(c)
  BY DEF CommitsTyped, HeadKeys, RevOf

\* The tree of the head is one of the keys of the calls.
LEMMA HeadKeysTyped == CommitsTyped => HeadKeys \in SUBSET RepoKeys
  <1> SUFFICES ASSUME CommitsTyped PROVE HeadKeys \in SUBSET RepoKeys
    OBVIOUS
  <1>1. CASE head = 0
    BY <1>1 DEF HeadKeys
  <1>2. CASE head # 0
    <2>1. store[head] \in Commits
      BY <1>2 DEF CommitsTyped
    <2> QED
      BY <1>2, <2>1 DEF HeadKeys, Commits
  <1> QED
    BY <1>1, <1>2

\* A call that is the only one under way is where it should be, and so are all.
LEMMA OnlyThisCall ==
    ASSUME CommitsTyped, NEW w \in Writes, CallIsAt(w)',
           \A v \in Writes \ {w} : writer'[v] = writer[v] /\ ~Underway(v),
           \A v \in Writes \ {w} : writer[v].at = "done" => (writer[v].commit <= head /\ Kept(v))'
    PROVE  OneAtATime' /\ \A v \in Writes \ {w} : writer'[v].at \in {"idle", "done", "refused"}
  <1>1. \A v \in Writes \ {w} : ~Underway(v)' /\ writer'[v].at \in {"idle", "done", "refused"}
    BY DEF Underway
  <1>2. \A v \in Writes \ {w} : CallIsAt(v)'
    BY <1>1 DEF CallIsAt
  <1> QED
    BY <1>1, <1>2 DEF OneAtATime

\* What a call that is done has in the head stays there as long as the head does.
LEMMA DoneStay ==
    ASSUME CommitsTyped, OneAtATime, NEW w \in Writes, head' = head, HeadKeys' = HeadKeys,
           \A v \in Writes \ {w} : writer'[v] = writer[v],
           writer[w].at \in {"headed", "done"} =>
               writer'[w].at \in {"headed", "done"} /\ writer'[w].commit = writer[w].commit
    PROVE  \A v \in Writes \ {w} : writer[v].at = "done" => (writer[v].commit <= head /\ Kept(v))'
  <1> SUFFICES ASSUME NEW v \in Writes \ {w}, writer[v].at = "done"
               PROVE  (writer[v].commit <= head /\ Kept(v))'
    OBVIOUS
  <1>1. writer[v].commit <= head /\ Kept(v) /\ writer'[v] = writer[v]
    BY DEF OneAtATime, CallIsAt
  <1>2. UndoneSince(v) => UndoneSince(v)'
    <2>1. SUFFICES ASSUME UndoneSince(v) PROVE UndoneSince(v)'
      OBVIOUS
    <2>2. PICK u \in Writes : /\ u.key = v.key /\ u.action = "delete"
                              /\ writer[u].at \in {"headed", "done"} /\ writer[u].commit > writer[v].commit
      BY <2>1 DEF UndoneSince
    <2>3. writer'[u].at \in {"headed", "done"} /\ writer'[u].commit = writer[u].commit
      BY <2>2
    <2> QED
      BY <1>1, <2>2, <2>3 DEF UndoneSince
  <1> QED
    BY <1>1, <1>2 DEF Kept

\* While one call is under way and there was no overlap, no other is.
LEMMA OthersRest ==
    ASSUME CommitsTyped, OneAtATime, NEW w \in Writes,
           writer[w].at \in {"read", "applied", "stored", "headed"}
    PROVE  /\ CallIsAt(w)
           /\ \A v \in Writes \ {w} : ~Underway(v) /\ writer[v].at \in {"idle", "done", "refused"}
  BY DEF OneAtATime, Underway

\* What a call may have become, so that commits and revisions are still in order.
LEMMA WriterMoves ==
    ASSUME CommitsTyped, RevsOrdered, NEW w \in Writes, NEW new \in Writers,
           writer' = [writer EXCEPT ![w] = new],
           UNCHANGED <<head, store, micros, lastMicros>>,
           new.at \in {"read", "applied", "stored", "headed"} => new.base \in 0..Len(store),
           new.at \in {"stored", "headed", "done"} => new.commit \in 1..Len(store)
    PROVE  /\ CommitsTyped' /\ RevsOrdered'
           /\ writer'[w] = new /\ \A v \in Writes \ {w} : writer'[v] = writer[v]
           /\ HeadKeys' = HeadKeys /\ \A c \in 0..Len(store) : RevOf(c)' = RevOf(c)
  <1>1. writer'[w] = new /\ \A v \in Writes \ {w} : writer'[v] = writer[v]
    BY DEF CommitsTyped
  <1>2. CommitsTyped'
    BY DEF CommitsTyped
  <1>3. RevsOrdered'
    BY <1>1 DEF RevsOrdered, CommitsTyped
  <1>4. HeadKeys' = HeadKeys /\ \A c \in 0..Len(store) : RevOf(c)' = RevOf(c)
    BY <1>2, HeadStays
  <1> QED
    BY <1>1, <1>2, <1>3, <1>4

\* As long as no call has set the head and not yet published, the chain of the
\* backlog stays what it is.
LEMMA ChainStays ==
    ASSUME CommitsTyped, ChainIsWhole, backlog' = backlog, RevOf(head)' = RevOf(head),
           \A v \in Writes : writer[v].at # "headed" /\ writer'[v].at # "headed"
    PROVE  ChainIsWhole'
  BY DEF ChainIsWhole

\* ReadHead, which notices an overlap.
LEMMA ReadHeadKeeps ==
    ASSUME CommitsTyped, RevsOrdered, Serial, NEW w \in Writes, ReadHead(w)
    PROVE  CommitsTyped' /\ RevsOrdered' /\ Serial'
  <1>1. UNCHANGED <<head, store, micros, lastMicros, backlog>>
    BY DEF ReadHead, tidVars, feedVars
  <1>2. PICK new : new = [at |-> "read", base |-> head, keys |-> HeadKeys]
    OBVIOUS
  <1>3. writer' = [writer EXCEPT ![w] = new]
    BY <1>2 DEF ReadHead
  <1>4. ~overlapped' => ~overlapped /\ \A v \in Writes : ~Underway(v)
    BY DEF ReadHead
  <1>5. head \in 0..Len(store) /\ HeadKeys \in SUBSET RepoKeys
    BY HeadKeysTyped DEF CommitsTyped
  <1>6. new \in Writers /\ new.at = "read" /\ new.base = head /\ new.keys = HeadKeys
    BY <1>2, <1>5 DEF Writers
  <1>8. /\ CommitsTyped' /\ RevsOrdered'
        /\ writer'[w] = new /\ \A v \in Writes \ {w} : writer'[v] = writer[v]
        /\ HeadKeys' = HeadKeys /\ \A c \in 0..Len(store) : RevOf(c)' = RevOf(c)
    BY <1>1, <1>3, <1>5, <1>6, WriterMoves
  <1>9. ASSUME ~overlapped' PROVE OneAtATime' /\ ChainIsWhole'
    <2>1. OneAtATime /\ ChainIsWhole
      BY <1>4, <1>9 DEF Serial
    <2>2. CallIsAt(w)'
      BY <1>1, <1>6, <1>8 DEF CallIsAt
    <2>7. writer[w].at = "idle"
      BY DEF ReadHead, RepoIdle
    <2>8. \A v \in Writes \ {w} : writer[v].at = "done" => (writer[v].commit <= head /\ Kept(v))'
      BY <1>1, <1>8, <2>1, <2>7, DoneStay
    <2>3. OneAtATime' /\ \A v \in Writes \ {w} : writer'[v].at \in {"idle", "done", "refused"}
      BY <1>4, <1>8, <1>9, <2>2, <2>8, OnlyThisCall
    <2>4. \A v \in Writes : writer[v].at # "headed" /\ writer'[v].at # "headed"
      BY <1>4, <1>6, <1>8, <1>9, <2>3 DEF Underway
    <2>5. RevOf(head)' = RevOf(head)
      BY <1>1 DEF RevOf
    <2>6. ChainIsWhole'
      BY <1>1, <2>1, <2>4, <2>5, ChainStays
    <2> QED
      BY <2>3, <2>6
  <1> QED
    BY <1>8, <1>9 DEF Serial

\* ApplyOps, refused or not.
LEMMA ApplyOpsKeeps ==
    ASSUME CommitsTyped, RevsOrdered, Serial, NEW w \in Writes, ApplyOps(w)
    PROVE  CommitsTyped' /\ RevsOrdered' /\ Serial'
  <1>1. UNCHANGED <<head, store, micros, lastMicros, backlog, overlapped>>
    BY DEF ApplyOps, tidVars, feedVars
  <1>2. writer[w].at = "read"
    BY DEF ApplyOps
  <1>3. /\ writer[w] \in [at : {"read", "applied"}, base : Nat, keys : SUBSET RepoKeys]
        /\ w.key \in RepoKeys
    BY <1>2, WriterFacts DEF RepoKeys
  <1>4. writer[w].base \in 0..Len(store)
    BY <1>2 DEF RevsOrdered
  <1>5. ASSUME NEW K \in Edited(w, writer[w].keys) PROVE K \in SUBSET RepoKeys
    BY <1>3, <1>5 DEF Edited
  <1>7. \/ writer' = [writer EXCEPT ![w] = [at |-> "refused"]]
        \/ \E K \in Edited(w, writer[w].keys) :
              writer' = [writer EXCEPT ![w] = [at |-> "applied", base |-> writer[w].base, keys |-> K]]
    BY DEF ApplyOps
  <1>8. PICK new : /\ writer' = [writer EXCEPT ![w] = new]
                   /\ \/ new = [at |-> "refused"]
                      \/ \E K \in Edited(w, writer[w].keys) :
                            new = [at |-> "applied", base |-> writer[w].base, keys |-> K]
    BY <1>7
  <1>9. /\ new \in Writers /\ new.at \in {"refused", "applied"}
        /\ new.at = "applied" => new.base = writer[w].base /\ new.keys \in Edited(w, writer[w].keys)
    <2>1. CASE new = [at |-> "refused"]
      BY <2>1 DEF Writers
    <2>2. ASSUME NEW K \in Edited(w, writer[w].keys),
                 new = [at |-> "applied", base |-> writer[w].base, keys |-> K]
          PROVE  /\ new \in Writers /\ new.at = "applied"
                 /\ new.base = writer[w].base /\ new.keys \in Edited(w, writer[w].keys)
      <3>1. K \in SUBSET RepoKeys
        BY <1>5
      <3> QED
        BY <1>3, <2>2, <3>1 DEF Writers
    <2> QED
      BY <1>8, <2>1, <2>2
  <1>11. /\ CommitsTyped' /\ RevsOrdered'
         /\ writer'[w] = new /\ \A v \in Writes \ {w} : writer'[v] = writer[v]
         /\ HeadKeys' = HeadKeys /\ \A c \in 0..Len(store) : RevOf(c)' = RevOf(c)
    BY <1>1, <1>4, <1>8, <1>9, WriterMoves
  <1>12. ASSUME ~overlapped' PROVE OneAtATime' /\ ChainIsWhole'
    <2>1. OneAtATime /\ ChainIsWhole
      BY <1>1, <1>12 DEF Serial
    <2>2. CallIsAt(w) /\ \A v \in Writes \ {w} : ~Underway(v) /\ writer[v].at \in {"idle", "done", "refused"}
      BY <1>2, <2>1, OthersRest
    <2>3. CallIsAt(w)'
      <3>1. writer[w].base = head /\ writer[w].keys = HeadKeys
        BY <1>2, <2>2 DEF CallIsAt
      <3> QED
        BY <1>1, <1>9, <1>11, <3>1 DEF CallIsAt, Edited
    <2>8. \A v \in Writes \ {w} : writer[v].at = "done" => (writer[v].commit <= head /\ Kept(v))'
      BY <1>1, <1>2, <1>11, <2>1, DoneStay
    <2>4. OneAtATime'
      BY <1>11, <2>2, <2>3, <2>8, OnlyThisCall
    <2>5. \A v \in Writes : writer[v].at # "headed" /\ writer'[v].at # "headed"
      BY <1>2, <1>9, <1>11, <2>2
    <2>6. RevOf(head)' = RevOf(head)
      BY <1>1 DEF RevOf
    <2>7. ChainIsWhole'
      BY <1>1, <2>1, <2>5, <2>6, ChainStays
    <2> QED
      BY <2>4, <2>7
  <1> QED
    BY <1>11, <1>12 DEF Serial

\* StoreCommit: the new revision is above every earlier one.
LEMMA StoreCommitKeeps ==
    ASSUME CommitsTyped, RevsOrdered, Serial, NEW w \in Writes, StoreCommit(w)
    PROVE  CommitsTyped' /\ RevsOrdered' /\ Serial'
  <1>1. UNCHANGED <<head, micros, backlog, overlapped>> /\ writer[w].at = "applied"
    BY DEF StoreCommit, feedVars
  <1>2. /\ writer[w].base \in 0..Len(store) /\ writer[w].keys \in SUBSET RepoKeys
        /\ Len(store) \in Nat /\ lastMicros \in Nat /\ micros \in Nat
    BY <1>1, WriterFacts DEF RevsOrdered, CommitsTyped
  <1>3. PICK t : /\ NextTid(t) /\ lastMicros' = t
                 /\ store' = Append(store, [keys |-> writer[w].keys, rev |-> t, prev |-> writer[w].base])
    BY DEF StoreCommit
  <1>4. t \in Nat /\ t > lastMicros
    BY <1>2, <1>3 DEF NextTid
  <1>5. PICK k : k = [keys |-> writer[w].keys, rev |-> t, prev |-> writer[w].base]
    OBVIOUS
  <1>6. k \in Commits /\ k.keys = writer[w].keys /\ k.rev = t /\ k.prev = writer[w].base
    BY <1>2, <1>4, <1>5 DEF Commits
  <1>7. /\ store' = Append(store, k) /\ store' \in Seq(Commits) /\ Len(store') = Len(store) + 1
        /\ store'[Len(store) + 1] = k /\ \A c \in 1..Len(store) : store'[c] = store[c]
    BY <1>3, <1>5, <1>6 DEF CommitsTyped
  <1>8. PICK new : new = [at |-> "stored", base |-> writer[w].base, commit |-> Len(store) + 1]
    OBVIOUS
  <1>9. /\ new \in Writers /\ new.at = "stored" /\ new.base = writer[w].base
        /\ new.commit = Len(store) + 1
    BY <1>2, <1>8 DEF Writers
  <1>10. writer' = [writer EXCEPT ![w] = new]
    BY <1>8 DEF StoreCommit
  <1>11. writer'[w] = new /\ \A v \in Writes \ {w} : writer'[v] = writer[v]
    BY <1>10 DEF CommitsTyped
  <1>12. CommitsTyped'
    BY <1>1, <1>2, <1>3, <1>4, <1>7, <1>9, <1>10 DEF CommitsTyped
  <1>13. RevsOrdered'
    <2>1. \A c \in 1..Len(store') : c \in 1..Len(store) \/ c = Len(store) + 1
      BY <1>2, <1>7
    <2>2. \A c \in 1..Len(store) : /\ store[c].rev \in Nat /\ store[c].rev > 0 /\ store[c].rev <= lastMicros
                                   /\ store[c].prev < c
      <3> SUFFICES ASSUME NEW c \in 1..Len(store) PROVE store[c].rev \in Nat
        BY DEF RevsOrdered
      <3>1. store[c] \in Commits
        BY DEF CommitsTyped
      <3> QED
        BY <3>1 DEF Commits
    <2>3. \A c \in 1..Len(store') : /\ store'[c].rev > 0 /\ store'[c].rev <= lastMicros'
                                    /\ store'[c].prev < c
      BY <1>2, <1>3, <1>4, <1>6, <1>7, <2>1, <2>2
    <2>4. \A c, d \in 1..Len(store') : c < d => store'[c].rev < store'[d].rev
      <3> SUFFICES ASSUME NEW c \in 1..Len(store'), NEW d \in 1..Len(store'), c < d
                   PROVE  store'[c].rev < store'[d].rev
        OBVIOUS
      <3>1. c \in 1..Len(store)
        BY <1>2, <1>7
      <3>2. CASE d \in 1..Len(store)
        BY <1>7, <3>1, <3>2 DEF RevsOrdered
      <3>3. CASE d = Len(store) + 1
        BY <1>2, <1>4, <1>6, <1>7, <2>2, <3>1, <3>3
      <3> QED
        BY <2>1, <3>2, <3>3
    <2>5. \A v \in Writes : writer'[v].at \in {"read", "applied", "stored", "headed"} => writer'[v].base \in 0..Len(store')
      BY <1>2, <1>7, <1>9, <1>11 DEF RevsOrdered
    <2>6. \A v \in Writes : writer'[v].at \in {"stored", "headed", "done"} => writer'[v].commit \in 1..Len(store')
      BY <1>2, <1>7, <1>9, <1>11 DEF RevsOrdered
    <2> QED
      BY <2>3, <2>4, <2>5, <2>6 DEF RevsOrdered
  <1>14. HeadKeys' = HeadKeys /\ \A c \in 0..Len(store) : RevOf(c)' = RevOf(c)
    BY <1>1, <1>2, <1>7, <1>12, HeadStays
  <1>15. ASSUME ~overlapped' PROVE OneAtATime' /\ ChainIsWhole'
    <2>1. OneAtATime /\ ChainIsWhole
      BY <1>1, <1>15 DEF Serial
    <2>2. CallIsAt(w) /\ \A v \in Writes \ {w} : ~Underway(v) /\ writer[v].at \in {"idle", "done", "refused"}
      BY <1>1, <2>1, OthersRest
    <2>3. CallIsAt(w)'
      <3>1. writer[w].base = head /\ writer[w].keys \in Edited(w, HeadKeys)
        BY <1>1, <2>2 DEF CallIsAt
      <3>2. store'[writer'[w].commit].keys \in Edited(w, HeadKeys)
        BY <1>6, <1>7, <1>9, <1>11, <3>1
      <3>3. writer'[w].commit > head
        BY <1>2, <1>9, <1>11, <3>1
      <3> QED
        BY <1>1, <1>9, <1>11, <1>14, <3>1, <3>2, <3>3 DEF CallIsAt, Edited
    <2>8. \A v \in Writes \ {w} : writer[v].at = "done" => (writer[v].commit <= head /\ Kept(v))'
      BY <1>1, <1>11, <1>14, <2>1, DoneStay
    <2>4. OneAtATime'
      BY <1>11, <2>2, <2>3, <2>8, OnlyThisCall
    <2>5. \A v \in Writes : writer[v].at # "headed" /\ writer'[v].at # "headed"
      BY <1>1, <1>9, <1>11, <2>2
    <2>6. RevOf(head)' = RevOf(head)
      BY <1>1, <1>2, <1>7 DEF RevOf, CommitsTyped
    <2>7. ChainIsWhole'
      BY <1>1, <2>1, <2>5, <2>6, ChainStays
    <2> QED
      BY <2>4, <2>7
  <1> QED
    BY <1>12, <1>13, <1>15 DEF Serial

\* SetHead: without an overlap the new head has what the old one had, but for
\* the key this call deletes.
LEMMA SetHeadKeeps ==
    ASSUME CommitsTyped, RevsOrdered, Serial, NEW w \in Writes, SetHead(w)
    PROVE  CommitsTyped' /\ RevsOrdered' /\ Serial'
  <1>1. /\ UNCHANGED <<store, micros, lastMicros, backlog, overlapped>> /\ writer[w].at = "stored"
        /\ head' = writer[w].commit
    BY DEF SetHead, feedVars, tidVars
  <1>2. /\ writer[w] \in [at : {"stored", "headed"}, base : Nat, commit : Nat]
        /\ writer[w].base \in 0..Len(store) /\ writer[w].commit \in 1..Len(store)
    BY <1>1, WriterFacts DEF RevsOrdered
  <1>3. PICK new : new = [writer[w] EXCEPT !.at = "headed"]
    OBVIOUS
  <1>4. /\ new \in Writers /\ new.at = "headed" /\ new.base = writer[w].base
        /\ new.commit = writer[w].commit
    BY <1>2, <1>3 DEF Writers
  <1>5. writer' = [writer EXCEPT ![w] = new]
    BY <1>3 DEF SetHead
  <1>6. writer'[w] = new /\ \A v \in Writes \ {w} : writer'[v] = writer[v]
    BY <1>5 DEF CommitsTyped
  <1>7. CommitsTyped'
    BY <1>1, <1>2, <1>4, <1>5 DEF CommitsTyped
  <1>8. RevsOrdered'
    BY <1>1, <1>2, <1>4, <1>6 DEF RevsOrdered
  <1>9. HeadKeys' = store[writer[w].commit].keys
    BY <1>1, <1>2 DEF HeadKeys
  <1>10. ASSUME ~overlapped' PROVE OneAtATime' /\ ChainIsWhole'
    <2>1. OneAtATime /\ ChainIsWhole
      BY <1>1, <1>10 DEF Serial
    <2>2. CallIsAt(w) /\ \A v \in Writes \ {w} : ~Underway(v) /\ writer[v].at \in {"idle", "done", "refused"}
      BY <1>1, <2>1, OthersRest
    <2>3. writer[w].base = head /\ HeadKeys' \in Edited(w, HeadKeys) /\ head' > head
      BY <1>1, <1>9, <2>2 DEF CallIsAt
    <2>4. ASSUME NEW v \in Writes \ {w}, writer[v].at = "done" PROVE (writer[v].commit <= head /\ Kept(v))'
      <3>1. writer[v].commit <= head /\ Kept(v) /\ writer'[v] = writer[v]
        BY <1>6, <2>1, <2>4 DEF OneAtATime, CallIsAt
      <3>2. /\ writer[v].commit \in Nat /\ head \in Nat /\ head' \in Nat
            /\ writer'[w].at = "headed" /\ writer'[w].commit = head'
        BY <1>1, <1>2, <1>4, <1>6, <2>4, WriterFacts DEF CommitsTyped
      <3>3. writer[v].commit <= head' /\ writer[v].commit < head'
        BY <2>3, <3>1, <3>2
      <3>4. UndoneSince(v) => UndoneSince(v)'
        <4>1. SUFFICES ASSUME UndoneSince(v) PROVE UndoneSince(v)'
          OBVIOUS
        <4>2. PICK u \in Writes : /\ u.key = v.key /\ u.action = "delete"
                                  /\ writer[u].at \in {"headed", "done"} /\ writer[u].commit > writer[v].commit
          BY <4>1 DEF UndoneSince
        <4>3. u # w /\ writer'[u] = writer[u]
          BY <1>1, <1>6, <4>2
        <4> QED
          BY <3>1, <4>2, <4>3 DEF UndoneSince
      <3>5. ASSUME v.action = "create", v.key \in HeadKeys, v.key \notin HeadKeys' PROVE UndoneSince(v)'
        <4>1. w.action = "delete" /\ w.key = v.key
          BY <2>3, <3>5, RepoAssumption DEF Edited
        <4> QED
          BY <3>1, <3>2, <3>3, <4>1 DEF UndoneSince
      <3> QED
        BY <3>1, <3>3, <3>4, <3>5 DEF Kept
    <2>5. Kept(w)'
      BY <2>3 DEF Kept, Edited
    <2>6. CallIsAt(w)'
      <3>1. head' \in Nat /\ writer'[w].commit = head'
        BY <1>1, <1>2, <1>4, <1>6
      <3> QED
        BY <1>1, <1>4, <1>6, <2>5, <3>1 DEF CallIsAt
    <2>7. OneAtATime' /\ \A v \in Writes \ {w} : writer'[v].at \in {"idle", "done", "refused"}
      BY <1>6, <2>2, <2>4, <2>6, OnlyThisCall
    <2>8. ChainIsWhole'
      <3>1. \A v \in Writes : writer[v].at # "headed"
        BY <1>1, <2>2
      <3>2. \A v \in Writes : writer'[v].at = "headed" => v = w
        BY <2>7
      <3>3. backlog # <<>> => backlog[Len(backlog)].rev = RevOf(head)
        BY <2>1, <3>1 DEF ChainIsWhole
      <3>4. RevOf(writer[w].base)' = RevOf(head)
        BY <1>1, <1>4, <1>6, <2>3 DEF RevOf
      <3> QED
        BY <1>1, <1>4, <1>6, <2>1, <3>2, <3>3, <3>4 DEF ChainIsWhole
    <2> QED
      BY <2>7, <2>8
  <1> QED
    BY <1>7, <1>8, <1>10 DEF Serial

\* AppendFrame leaves the commits alone; without an overlap the frame continues
\* from the last one.
LEMMA AppendFrameCommits ==
    ASSUME CommitsTyped, RevsOrdered, Serial, backlog \in Seq(Frames), seq \in Nat,
           NEW w \in Writes, AppendFrame(w)
    PROVE  CommitsTyped' /\ RevsOrdered' /\ Serial'
  <1>1. UNCHANGED <<head, store, micros, lastMicros, overlapped>> /\ writer[w].at = "headed"
    BY DEF AppendFrame, tidVars
  <1>2. PICK new : new = [at |-> "done", commit |-> writer[w].commit]
    OBVIOUS
  <1>3. /\ new \in Writers /\ new.at = "done" /\ new.commit = writer[w].commit
        /\ new.commit \in 1..Len(store)
    <2>1. writer[w].commit \in Nat /\ writer[w].commit \in 1..Len(store)
      BY <1>1, WriterFacts DEF RevsOrdered
    <2> QED
      BY <1>2, <2>1 DEF Writers
  <1>4. writer' = [writer EXCEPT ![w] = new]
    BY <1>2 DEF AppendFrame
  <1>6. /\ CommitsTyped' /\ RevsOrdered'
        /\ writer'[w] = new /\ \A v \in Writes \ {w} : writer'[v] = writer[v]
        /\ HeadKeys' = HeadKeys /\ \A c \in 0..Len(store) : RevOf(c)' = RevOf(c)
    BY <1>1, <1>3, <1>4, WriterMoves
  <1>7. ASSUME ~overlapped' PROVE OneAtATime' /\ ChainIsWhole'
    <2>1. OneAtATime /\ ChainIsWhole
      BY <1>1, <1>7 DEF Serial
    <2>2. CallIsAt(w) /\ \A v \in Writes \ {w} : ~Underway(v) /\ writer[v].at \in {"idle", "done", "refused"}
      BY <1>1, <2>1, OthersRest
    <2>3. writer[w].commit = head /\ Kept(w)
      BY <1>1, <2>2 DEF CallIsAt
    <2>4. CallIsAt(w)'
      <3>1. UndoneSince(w) => UndoneSince(w)'
        <4>1. SUFFICES ASSUME UndoneSince(w) PROVE UndoneSince(w)'
          OBVIOUS
        <4>2. PICK u \in Writes : /\ u.key = w.key /\ u.action = "delete"
                                  /\ writer[u].at \in {"headed", "done"} /\ writer[u].commit > writer[w].commit
          BY <4>1 DEF UndoneSince
        <4>3. writer'[u].at \in {"headed", "done"} /\ writer'[u].commit = writer[u].commit
          BY <1>3, <1>6, <4>2
        <4> QED
          BY <1>3, <1>6, <4>2, <4>3 DEF UndoneSince
      <3>2. Kept(w)'
        BY <1>6, <2>3, <3>1 DEF Kept
      <3>3. writer'[w].commit <= head'
        BY <1>1, <1>3, <1>6, <2>3
      <3> QED
        BY <1>1, <1>3, <1>6, <3>2, <3>3 DEF CallIsAt
    <2>6. \A v \in Writes \ {w} : writer[v].at = "done" => (writer[v].commit <= head /\ Kept(v))'
      BY <1>1, <1>3, <1>6, <2>1, DoneStay
    <2>5. OneAtATime'
      BY <1>6, <2>2, <2>4, <2>6, OnlyThisCall
    <2>7. ChainIsWhole'
      <3>1. head \in 1..Len(store) /\ writer[w].base \in 0..Len(store)
        BY <1>1, <2>3 DEF RevsOrdered
      <3>2. RevOf(head) \in Nat /\ RevOf(writer[w].base) \in Nat /\ RevOf(head) = store[head].rev
        <4>1. store[head] \in Commits
          BY <3>1 DEF CommitsTyped
        <4>2. writer[w].base # 0 => store[writer[w].base] \in Commits
          BY <3>1 DEF CommitsTyped
        <4> QED
          BY <3>1, <4>1, <4>2 DEF RevOf, Commits
      <3>3. PICK f : f = [seq |-> seq + 1, rev |-> RevOf(head), since |-> RevOf(writer[w].base)]
        OBVIOUS
      <3>4. f \in Frames /\ f.rev = RevOf(head) /\ f.since = RevOf(writer[w].base)
        BY <3>2, <3>3 DEF Frames
      <3>5. backlog' = Append(backlog, f) \/ backlog' = Tail(Append(backlog, f))
        BY <2>3, <3>2, <3>3 DEF AppendFrame
      <3>6. backlog # <<>> => backlog[Len(backlog)].rev = f.since
        BY <1>1, <2>1, <3>4 DEF ChainIsWhole
      <3>7. PICK longer : longer = Append(backlog, f)
        OBVIOUS
      <3>8. /\ longer \in Seq(Frames) /\ Len(longer) = Len(backlog) + 1 /\ longer[Len(longer)] = f
            /\ \A i \in 1..Len(backlog) : longer[i] = backlog[i]
        BY <3>4, <3>7
      <3>9. \A i \in 1..(Len(longer) - 1) : longer[i + 1].since = longer[i].rev
        <4> SUFFICES ASSUME NEW i \in 1..(Len(longer) - 1) PROVE longer[i + 1].since = longer[i].rev
          OBVIOUS
        <4>1. CASE i = Len(backlog)
          BY <3>6, <3>8, <4>1
        <4>2. CASE i # Len(backlog)
          BY <2>1, <3>8, <4>2 DEF ChainIsWhole
        <4> QED
          BY <4>1, <4>2
      <3>10. /\ \A i \in 1..(Len(backlog') - 1) : backlog'[i + 1].since = backlog'[i].rev
             /\ backlog' # <<>> => backlog'[Len(backlog')].rev = RevOf(head)
        <4>1. CASE backlog' = longer
          BY <3>4, <3>8, <3>9, <4>1
        <4>2. CASE backlog' = Tail(longer)
          <5>1. /\ backlog' \in Seq(Frames) /\ Len(backlog') = Len(longer) - 1
                /\ \A i \in 1..Len(backlog') : backlog'[i] = longer[i + 1]
            BY <3>8, <4>2
          <5>2. backlog' # <<>> => Len(backlog') \in 1..Len(backlog')
            BY <5>1
          <5>3. \A i \in 1..(Len(backlog') - 1) : i + 1 \in 1..Len(backlog') /\ i \in 1..Len(backlog') /\ i + 1 \in 1..(Len(longer) - 1)
            BY <3>8, <5>1
          <5> QED
            BY <3>4, <3>8, <3>9, <5>1, <5>2, <5>3
        <4> QED
          BY <3>5, <3>7, <4>1, <4>2
      <3>11. RevOf(head)' = RevOf(head)
        BY <1>1 DEF RevOf
      <3>12. \A v \in Writes : writer'[v].at # "headed"
        BY <1>3, <1>6, <2>2
      <3> QED
        BY <3>10, <3>11, <3>12 DEF ChainIsWhole
    <2> QED
      BY <2>5, <2>7
  <1> QED
    BY <1>6, <1>7 DEF Serial

\* Steps of the clock and of subscriptions leave commits and writers alone.
LEMMA CommitsStay ==
    ASSUME CommitsTyped, RevsOrdered, Serial, micros' \in Nat,
           UNCHANGED <<head, store, writer, overlapped, lastMicros, backlog>>
    PROVE  CommitsTyped' /\ RevsOrdered' /\ Serial'
  <1>1. CommitsTyped'
    BY DEF CommitsTyped
  <1>2. RevsOrdered'
    BY DEF RevsOrdered
  <1>3. Serial'
    BY DEF Serial, OneAtATime, CallIsAt, Underway, ChainIsWhole, Kept, UndoneSince, HeadKeys, RevOf
  <1> QED
    BY <1>1, <1>2, <1>3

\* What a subscription has while it is fed.
LEMMA FeedFacts ==
    ASSUME FeedTyped, NEW s \in RepoSubs
    PROVE  /\ subs[s].at \in {"none", "cancelled", "backfill", "handover", "live"}
           /\ Feeding(s) =>
                /\ subs[s] \in [at : {"backfill", "handover", "live"}, cursor : Nat, next : Nat, queue : Seq(Frames)]
                /\ subs[s].cursor \in Nat /\ subs[s].next \in Nat
                /\ subs[s].queue \in Seq(Frames) /\ Len(subs[s].queue) \in Nat
           /\ emitted[s] \in Seq(Frames) /\ skipped[s] \in SUBSET Int
  <1>1. subs[s] \in Feeds
    BY DEF FeedTyped
  <1> QED
    BY <1>1 DEF FeedTyped, Feeds, Feeding

\* A subscription that is not touched stays where it is.
LEMMA FeedStays ==
    ASSUME NEW s \in RepoSubs, FeedIsAt(s), UNCHANGED <<seq, backlog>>,
           subs'[s] = subs[s], emitted'[s] = emitted[s], skipped'[s] = skipped[s]
    PROVE  FeedIsAt(s)'
  BY DEF FeedIsAt, Feeding, Seen, Position

\* The frames of e are in order and below number p.
OrderedBelow(e, p) ==
    /\ \A i \in 1..(Len(e) - 1) : e[i].seq < e[i + 1].seq
    /\ \A i \in 1..Len(e) : e[i].seq < p

\* Appending the frame at the position keeps the frames emitted in order.
LEMMA EmitAtPosition ==
    ASSUME NEW e \in Seq(Frames), NEW f \in Frames, NEW p \in Int, f.seq = p, OrderedBelow(e, p)
    PROVE  OrderedBelow(Append(e, f), p + 1)
  <1>1. PICK d : d = Append(e, f)
    OBVIOUS
  <1>2. /\ Len(d) = Len(e) + 1 /\ d[Len(d)] = f /\ Len(e) \in Nat
        /\ \A i \in 1..Len(e) : d[i] = e[i]
    BY <1>1
  <1>3. \A i \in 1..Len(e) : e[i].seq \in Nat /\ e[i].seq < p
    <2> TAKE i \in 1..Len(e)
    <2>1. e[i] \in Frames
      OBVIOUS
    <2> QED
      BY <2>1 DEF Frames, OrderedBelow
  <1>4. \A i \in 1..(Len(d) - 1) : d[i].seq < d[i + 1].seq
    <2> SUFFICES ASSUME NEW i \in 1..(Len(d) - 1) PROVE d[i].seq < d[i + 1].seq
      OBVIOUS
    <2>1. CASE i = Len(e)
      BY <1>2, <1>3, <2>1
    <2>2. CASE i # Len(e)
      <3>1. i \in 1..Len(e) /\ i + 1 \in 1..Len(e) /\ i \in 1..(Len(e) - 1)
        BY <1>2, <2>2
      <3>2. e[i].seq < e[i + 1].seq
        BY <3>1 DEF OrderedBelow
      <3> QED
        BY <1>2, <3>1, <3>2
    <2> QED
      BY <2>1, <2>2
  <1>5. \A i \in 1..Len(d) : d[i].seq < p + 1
    <2> SUFFICES ASSUME NEW i \in 1..Len(d) PROVE d[i].seq < p + 1
      OBVIOUS
    <2>1. CASE i = Len(d)
      BY <1>2, <2>1
    <2>2. CASE i # Len(d)
      BY <1>2, <1>3, <2>2
    <2> QED
      BY <2>1, <2>2
  <1>6. OrderedBelow(d, p + 1)
    BY <1>4, <1>5 DEF OrderedBelow
  <1> QED
    BY <1>1, <1>6

\* Subscribe: what is no longer in the backlog counts as skipped.
LEMMA SubscribeKeeps ==
    ASSUME FeedInv, NEW s \in RepoSubs, NEW cur \in 0..seq, Subscribe(s, cur)
    PROVE  FeedInv'
  <1>1. /\ FeedTyped /\ \A r \in RepoSubs : FeedIsAt(r)
        /\ UNCHANGED <<seq, backlog, emitted>> /\ subs[s].at = "none"
    BY DEF FeedInv, Subscribe, SubVars
  <1>2. PICK new : new = [at |-> "backfill", cursor |-> cur, next |-> 1, queue |-> <<>>]
    OBVIOUS
  <1>3. cur \in Nat /\ seq \in Nat /\ Len(backlog) \in Nat
    BY <1>1 DEF FeedTyped
  <1>4. new \in Feeds /\ new.at = "backfill" /\ new.cursor = cur /\ new.next = 1 /\ new.queue = <<>>
    BY <1>2, <1>3 DEF Feeds
  <1>5. subs' = [subs EXCEPT ![s] = new]
    BY <1>2 DEF Subscribe
  <1>6. skipped' = [skipped EXCEPT ![s] = 1..(seq - Len(backlog))]
    <2>1. CASE backlog = <<>>
      BY <1>3, <2>1 DEF Subscribe
    <2>2. CASE backlog # <<>>
      <3>1. 1 \in 1..Len(backlog)
        BY <1>1, <2>2 DEF FeedTyped
      <3>2. backlog[1].seq - 1 = seq - Len(backlog)
        BY <1>1, <1>3, <3>1 DEF FeedTyped
      <3> QED
        BY <2>2, <3>2 DEF Subscribe
    <2> QED
      BY <2>1, <2>2
  <1>7. FeedTyped'
    BY <1>1, <1>3, <1>4, <1>5, <1>6 DEF FeedTyped
  <1>8. \A r \in RepoSubs \ {s} : FeedIsAt(r)'
    <2> TAKE r \in RepoSubs \ {s}
    <2>1. subs'[r] = subs[r] /\ emitted'[r] = emitted[r] /\ skipped'[r] = skipped[r]
      BY <1>1, <1>5, <1>6 DEF FeedTyped
    <2> QED
      BY <1>1, <2>1, FeedStays
  <1>9. FeedIsAt(s)'
    <2>1. subs'[s] = new /\ skipped'[s] = 1..(seq - Len(backlog)) /\ emitted'[s] = <<>>
      BY <1>1, <1>5, <1>6 DEF FeedTyped, FeedIsAt
    <2>2. Position(s)' = seq - Len(backlog) + 1
      BY <1>1, <1>4, <2>1 DEF Position
    <2>3. \A n \in Nat : cur < n /\ n < Position(s)' => Seen(s, n)'
      BY <1>3, <2>1, <2>2 DEF Seen
    <2>4. Feeding(s)' =>
             /\ subs'[s].queue = <<>> /\ subs'[s].next \in 1..(Len(backlog') + 1) /\ Len(subs'[s].queue) <= seq'
             /\ \A i \in 1..Len(subs'[s].queue) : subs'[s].queue[i].seq = seq' - Len(subs'[s].queue) + i
      <3>1. subs'[s].queue = <<>> /\ subs'[s].next = 1
        BY <1>4, <2>1
      <3>2. Len(subs'[s].queue) = 0
        BY <3>1
      <3>3. seq' = seq /\ backlog' = backlog
        BY <1>1
      <3>4. 1 \in 1..(Len(backlog) + 1) /\ 0 <= seq
        BY <1>3
      <3>5. 1..Len(subs'[s].queue) = {}
        BY <3>2
      <3> QED
        BY <3>1, <3>2, <3>3, <3>4, <3>5
    <2>5. /\ subs'[s].at = "backfill" /\ subs'[s].cursor = cur
          /\ \A i \in 1..Len(emitted'[s]) : emitted'[s][i].seq < Position(s)'
          /\ \A i \in 1..(Len(emitted'[s]) - 1) : emitted'[s][i].seq < emitted'[s][i + 1].seq
      BY <1>4, <2>1
    <2> QED
      BY <2>3, <2>4, <2>5 DEF FeedIsAt
  <1> QED
    BY <1>7, <1>8, <1>9 DEF FeedInv

\* CancelFeed: what was emitted stays in order.
LEMMA CancelFeedKeeps ==
    ASSUME FeedInv, NEW s \in RepoSubs, CancelFeed(s)
    PROVE  FeedInv'
  <1>1. /\ FeedTyped /\ \A r \in RepoSubs : FeedIsAt(r)
        /\ UNCHANGED <<seq, backlog, emitted, skipped>>
    BY DEF FeedInv, CancelFeed, SubVars
  <1>2. PICK new : new = [at |-> "cancelled"]
    OBVIOUS
  <1>3. new \in Feeds /\ new.at = "cancelled"
    BY <1>2 DEF Feeds
  <1>4. subs' = [subs EXCEPT ![s] = new]
    BY <1>2 DEF CancelFeed
  <1>5. FeedTyped'
    BY <1>1, <1>3, <1>4 DEF FeedTyped
  <1>6. \A r \in RepoSubs \ {s} : FeedIsAt(r)'
    <2> TAKE r \in RepoSubs \ {s}
    <2>1. subs'[r] = subs[r]
      BY <1>1, <1>4 DEF FeedTyped
    <2> QED
      BY <1>1, <2>1, FeedStays
  <1>7. FeedIsAt(s)'
    <2>1. subs'[s] = new
      BY <1>1, <1>4 DEF FeedTyped
    <2> QED
      BY <1>1, <1>3, <2>1 DEF FeedIsAt, Feeding
  <1> QED
    BY <1>5, <1>6, <1>7 DEF FeedInv

\* BackfillNext emits the frame at the position, or finds the backlog done.
LEMMA BackfillNextKeeps ==
    ASSUME FeedInv, NEW s \in RepoSubs, BackfillNext(s)
    PROVE  FeedInv'
  <1>1. /\ FeedTyped /\ \A r \in RepoSubs : FeedIsAt(r)
        /\ UNCHANGED <<seq, backlog, skipped>> /\ subs[s].at = "backfill"
    BY DEF FeedInv, BackfillNext, SubVars
  <1>2. /\ subs[s] \in [at : {"backfill", "handover", "live"}, cursor : Nat, next : Nat, queue : Seq(Frames)]
        /\ subs[s].cursor \in Nat /\ subs[s].next \in Nat
        /\ emitted[s] \in Seq(Frames) /\ skipped[s] \in SUBSET Int
        /\ seq \in Nat /\ Len(backlog) \in Nat /\ Feeding(s)
    BY <1>1, FeedFacts DEF Feeding, FeedTyped
  <1>3. /\ subs[s].queue = <<>> /\ subs[s].next \in 1..(Len(backlog) + 1)
        /\ \A i \in 1..(Len(emitted[s]) - 1) : emitted[s][i].seq < emitted[s][i + 1].seq
        /\ \A i \in 1..Len(emitted[s]) : emitted[s][i].seq < Position(s)
        /\ \A n \in Nat : subs[s].cursor < n /\ n < Position(s) => Seen(s, n)
    BY <1>1, <1>2 DEF FeedIsAt
  <1>4. PICK p : p = Position(s)
    OBVIOUS
  <1>5. p = seq - Len(backlog) + subs[s].next /\ p \in Int
    BY <1>1, <1>2, <1>4 DEF Position
  <1>6. CASE subs[s].next \in DOMAIN backlog
    <2>1. PICK f : f = backlog[subs[s].next]
      OBVIOUS
    <2>2. f \in Frames /\ f.seq = p
      <3>1. subs[s].next \in 1..Len(backlog) /\ backlog \in Seq(Frames)
        BY <1>1, <1>6 DEF FeedTyped
      <3>2. backlog[subs[s].next].seq = seq - Len(backlog) + subs[s].next
        BY <1>1, <3>1 DEF FeedTyped
      <3> QED
        BY <1>5, <2>1, <3>1, <3>2
    <2>3. PICK new : new = [subs[s] EXCEPT !.next = subs[s].next + 1]
      OBVIOUS
    <2>4. /\ new \in Feeds /\ new.at = "backfill" /\ new.cursor = subs[s].cursor
          /\ new.next = subs[s].next + 1 /\ new.queue = <<>>
      BY <1>1, <1>2, <1>3, <2>3 DEF Feeds
    <2>5. subs' = [subs EXCEPT ![s] = new]
      BY <1>6, <2>3 DEF BackfillNext
    <2>6. PICK e : e = IF f.seq > subs[s].cursor THEN Append(emitted[s], f) ELSE emitted[s]
      OBVIOUS
    <2>7. emitted' = [emitted EXCEPT ![s] = e]
      BY <1>1, <1>6, <2>1, <2>6 DEF BackfillNext, AfterCursor, FeedTyped
    <2>8. /\ e \in Seq(Frames)
          /\ \A i \in 1..(Len(e) - 1) : e[i].seq < e[i + 1].seq
          /\ \A i \in 1..Len(e) : e[i].seq < p + 1
          /\ \A i \in 1..Len(emitted[s]) : i \in 1..Len(e) /\ e[i] = emitted[s][i]
          /\ subs[s].cursor < p => \E i \in 1..Len(e) : e[i].seq = p
      <3>1. CASE f.seq > subs[s].cursor
        <4>1. e = Append(emitted[s], f)
          BY <2>6, <3>1
        <4>2. /\ e \in Seq(Frames) /\ Len(e) = Len(emitted[s]) + 1 /\ e[Len(e)] = f
              /\ \A i \in 1..Len(emitted[s]) : e[i] = emitted[s][i]
          BY <1>2, <2>2, <4>1
        <4>4. OrderedBelow(emitted[s], p)
          BY <1>3, <1>4 DEF OrderedBelow
        <4>5. OrderedBelow(e, p + 1)
          BY <1>2, <1>5, <2>2, <4>1, <4>4, EmitAtPosition
        <4>3. Len(e) \in 1..Len(e) /\ \A i \in 1..Len(emitted[s]) : i \in 1..Len(e)
          BY <1>2, <4>2
        <4> QED
          BY <2>2, <4>2, <4>3, <4>5 DEF OrderedBelow
      <3>2. CASE ~(f.seq > subs[s].cursor)
        <4>1. e = emitted[s] /\ ~(subs[s].cursor < p)
          BY <1>2, <1>5, <2>2, <2>6, <3>2
        <4>2. \A i \in 1..Len(e) : e[i].seq < p + 1
          <5> TAKE i \in 1..Len(e)
          <5>1. e[i] \in Frames /\ e[i].seq < p
            BY <1>2, <1>3, <1>4, <4>1
          <5> QED
            BY <1>5, <5>1 DEF Frames
        <4> QED
          BY <1>2, <1>3, <4>1, <4>2
      <3> QED
        BY <3>1, <3>2
    <2>9. FeedTyped'
      BY <1>1, <2>4, <2>5, <2>7, <2>8 DEF FeedTyped
    <2>10. subs'[s] = new /\ emitted'[s] = e /\ skipped'[s] = skipped[s]
      BY <1>1, <2>5, <2>7 DEF FeedTyped
    <2>11. \A r \in RepoSubs \ {s} : FeedIsAt(r)'
      <3> TAKE r \in RepoSubs \ {s}
      <3>1. subs'[r] = subs[r] /\ emitted'[r] = emitted[r] /\ skipped'[r] = skipped[r]
        BY <1>1, <2>5, <2>7 DEF FeedTyped
      <3> QED
        BY <1>1, <3>1, FeedStays
    <2>12. Position(s)' = p + 1
      BY <1>1, <1>2, <1>5, <2>4, <2>10 DEF Position
    <2>13. \A n \in Nat : subs[s].cursor < n /\ n < p + 1 => Seen(s, n)'
      <3> SUFFICES ASSUME NEW n \in Nat, subs[s].cursor < n, n < p + 1 PROVE Seen(s, n)'
        OBVIOUS
      <3>1. CASE n = p
        BY <2>8, <2>10, <3>1 DEF Seen
      <3>2. CASE n # p
        <4>1. Seen(s, n)
          BY <1>3, <1>4, <1>5, <3>2
        <4> QED
          BY <2>8, <2>10, <4>1 DEF Seen
      <3> QED
        BY <3>1, <3>2
    <2>14. subs[s].next + 1 \in 1..(Len(backlog') + 1) /\ Len(subs'[s].queue) <= seq'
      BY <1>1, <1>2, <1>6, <2>4, <2>10 DEF FeedTyped
    <2>15. \A i \in 1..Len(subs'[s].queue) : subs'[s].queue[i].seq = seq' - Len(subs'[s].queue) + i
      BY <2>4, <2>10
    <2>16. FeedIsAt(s)'
      BY <2>4, <2>8, <2>10, <2>12, <2>13, <2>14, <2>15 DEF FeedIsAt
    <2> QED
      BY <2>9, <2>11, <2>16 DEF FeedInv
  <1>7. CASE subs[s].next \notin DOMAIN backlog
    <2>1. subs[s].next = Len(backlog) + 1 /\ p = seq + 1
      <3>1. DOMAIN backlog = 1..Len(backlog)
        BY <1>1 DEF FeedTyped
      <3>2. subs[s].next = Len(backlog) + 1
        BY <1>2, <1>3, <1>7, <3>1
      <3> QED
        BY <1>2, <1>5, <3>2
    <2>2. PICK new : new = [subs[s] EXCEPT !.at = "handover"]
      OBVIOUS
    <2>3. /\ new \in Feeds /\ new.at = "handover" /\ new.cursor = subs[s].cursor /\ new.queue = <<>>
      BY <1>1, <1>2, <1>3, <2>2 DEF Feeds
    <2>4. subs' = [subs EXCEPT ![s] = new] /\ emitted' = emitted
      BY <1>7, <2>2 DEF BackfillNext
    <2>5. FeedTyped'
      BY <1>1, <2>3, <2>4 DEF FeedTyped
    <2>6. subs'[s] = new
      BY <1>1, <2>4 DEF FeedTyped
    <2>7. \A r \in RepoSubs \ {s} : FeedIsAt(r)'
      <3> TAKE r \in RepoSubs \ {s}
      <3>1. subs'[r] = subs[r]
        BY <1>1, <2>4 DEF FeedTyped
      <3> QED
        BY <1>1, <2>4, <3>1, FeedStays
    <2>8. Position(s)' = p
      BY <1>1, <2>1, <2>3, <2>6 DEF Position
    <2>9. \A n \in Nat : Seen(s, n)' = Seen(s, n)
      BY <1>1, <2>4 DEF Seen
    <2>10. \A i \in 1..Len(subs'[s].queue) : subs'[s].queue[i].seq = seq' - Len(subs'[s].queue) + i
      BY <2>3, <2>6
    <2>11. Len(subs'[s].queue) <= seq'
      BY <1>1, <1>2, <2>3, <2>6
    <2>12. FeedIsAt(s)'
      BY <1>3, <1>4, <2>3, <2>4, <2>6, <2>8, <2>9, <2>10, <2>11 DEF FeedIsAt
    <2> QED
      BY <2>5, <2>7, <2>12 DEF FeedInv
  <1> QED
    BY <1>6, <1>7

\* GoLive: nothing was published since the position was taken.
LEMMA GoLiveKeeps ==
    ASSUME FeedInv, NEW s \in RepoSubs, GoLive(s)
    PROVE  FeedInv'
  <1>1. /\ FeedTyped /\ \A r \in RepoSubs : FeedIsAt(r)
        /\ UNCHANGED <<seq, backlog, emitted, skipped>> /\ subs[s].at = "handover"
    BY DEF FeedInv, GoLive, SubVars
  <1>2. /\ subs[s] \in [at : {"backfill", "handover", "live"}, cursor : Nat, next : Nat, queue : Seq(Frames)]
        /\ seq \in Nat /\ Feeding(s)
    BY <1>1, FeedFacts DEF Feeding, FeedTyped
  <1>3. /\ subs[s].queue = <<>>
        /\ \A i \in 1..(Len(emitted[s]) - 1) : emitted[s][i].seq < emitted[s][i + 1].seq
        /\ \A i \in 1..Len(emitted[s]) : emitted[s][i].seq < Position(s)
        /\ \A n \in Nat : subs[s].cursor < n /\ n < Position(s) => Seen(s, n)
    BY <1>1, <1>2 DEF FeedIsAt
  <1>4. PICK new : new = [subs[s] EXCEPT !.at = "live"]
    OBVIOUS
  <1>5. /\ new \in Feeds /\ new.at = "live" /\ new.cursor = subs[s].cursor /\ new.queue = <<>>
    BY <1>2, <1>3, <1>4 DEF Feeds
  <1>6. subs' = [subs EXCEPT ![s] = new]
    BY <1>4 DEF GoLive
  <1>7. FeedTyped'
    BY <1>1, <1>5, <1>6 DEF FeedTyped
  <1>8. subs'[s] = new
    BY <1>1, <1>6 DEF FeedTyped
  <1>9. \A r \in RepoSubs \ {s} : FeedIsAt(r)'
    <2> TAKE r \in RepoSubs \ {s}
    <2>1. subs'[r] = subs[r]
      BY <1>1, <1>6 DEF FeedTyped
    <2> QED
      BY <1>1, <2>1, FeedStays
  <1>10. Position(s) = seq + 1 /\ Position(s)' = seq + 1
    <2>1. Position(s) = seq + 1
      BY <1>1 DEF Position
    <2>2. Position(s)' = seq - Len(new.queue) + 1
      BY <1>1, <1>5, <1>8 DEF Position
    <2>3. Len(new.queue) = 0
      BY <1>5
    <2> QED
      BY <1>2, <2>1, <2>2, <2>3
  <1>11. \A n \in Nat : Seen(s, n)' = Seen(s, n)
    BY <1>1 DEF Seen
  <1>12. /\ \A i \in 1..Len(subs'[s].queue) : subs'[s].queue[i].seq = seq' - Len(subs'[s].queue) + i
         /\ Len(subs'[s].queue) <= seq'
    <2>1. subs'[s].queue = <<>> /\ Len(subs'[s].queue) = 0
      BY <1>5, <1>8
    <2> QED
      BY <1>1, <1>2, <2>1
  <1>13. FeedIsAt(s)'
    BY <1>1, <1>3, <1>5, <1>8, <1>10, <1>11, <1>12 DEF FeedIsAt
  <1> QED
    BY <1>7, <1>9, <1>13 DEF FeedInv

\* LiveNext emits the frame at the position.
LEMMA LiveNextKeeps ==
    ASSUME FeedInv, NEW s \in RepoSubs, LiveNext(s)
    PROVE  FeedInv'
  <1>1. /\ FeedTyped /\ \A r \in RepoSubs : FeedIsAt(r)
        /\ UNCHANGED <<seq, backlog, skipped>> /\ subs[s].at = "live" /\ subs[s].queue # <<>>
    BY DEF FeedInv, LiveNext, SubVars
  <1>2. /\ subs[s] \in [at : {"backfill", "handover", "live"}, cursor : Nat, next : Nat, queue : Seq(Frames)]
        /\ subs[s].cursor \in Nat /\ subs[s].queue \in Seq(Frames)
        /\ emitted[s] \in Seq(Frames) /\ skipped[s] \in SUBSET Int
        /\ seq \in Nat /\ Feeding(s)
    BY <1>1, FeedFacts DEF Feeding, FeedTyped
  <1>3. /\ Len(subs[s].queue) <= seq
        /\ \A i \in 1..Len(subs[s].queue) : subs[s].queue[i].seq = seq - Len(subs[s].queue) + i
        /\ \A i \in 1..(Len(emitted[s]) - 1) : emitted[s][i].seq < emitted[s][i + 1].seq
        /\ \A i \in 1..Len(emitted[s]) : emitted[s][i].seq < Position(s)
        /\ \A n \in Nat : subs[s].cursor < n /\ n < Position(s) => Seen(s, n)
    BY <1>1, <1>2 DEF FeedIsAt
  <1>4. PICK p, q, f, t : p = Position(s) /\ q = subs[s].queue /\ f = Head(q) /\ t = Tail(q)
    OBVIOUS
  <1>5. /\ q \in Seq(Frames) /\ Len(q) \in Nat /\ Len(q) > 0 /\ f \in Frames /\ f = q[1]
        /\ t \in Seq(Frames) /\ Len(t) = Len(q) - 1 /\ \A i \in 1..Len(t) : t[i] = q[i + 1]
    BY <1>1, <1>2, <1>4
  <1>6. p = seq - Len(q) + 1 /\ p \in Int /\ f.seq = p
    <2>1. p = seq - Len(q) + 1
      BY <1>1, <1>4 DEF Position
    <2>2. q[1].seq = seq - Len(q) + 1
      BY <1>3, <1>4, <1>5
    <2> QED
      BY <1>2, <1>5, <2>1, <2>2
  <1>7. PICK new : new = [subs[s] EXCEPT !.queue = t]
    OBVIOUS
  <1>8. new \in Feeds /\ new.at = "live" /\ new.cursor = subs[s].cursor /\ new.queue = t
    BY <1>1, <1>2, <1>5, <1>7 DEF Feeds
  <1>9. PICK e : e = Append(emitted[s], f)
    OBVIOUS
  <1>10. subs' = [subs EXCEPT ![s] = new] /\ emitted' = [emitted EXCEPT ![s] = e]
    BY <1>4, <1>7, <1>9 DEF LiveNext
  <1>11. /\ e \in Seq(Frames) /\ Len(e) = Len(emitted[s]) + 1 /\ e[Len(e)] = f
         /\ \A i \in 1..Len(emitted[s]) : e[i] = emitted[s][i]
    BY <1>2, <1>5, <1>9
  <1>12. OrderedBelow(emitted[s], p)
    BY <1>3, <1>4 DEF OrderedBelow
  <1>13. OrderedBelow(e, p + 1)
    BY <1>2, <1>5, <1>6, <1>9, <1>12, EmitAtPosition
  <1>14. FeedTyped'
    BY <1>1, <1>8, <1>10, <1>11 DEF FeedTyped
  <1>15. subs'[s] = new /\ emitted'[s] = e /\ skipped'[s] = skipped[s]
    BY <1>1, <1>10 DEF FeedTyped
  <1>16. \A r \in RepoSubs \ {s} : FeedIsAt(r)'
    <2> TAKE r \in RepoSubs \ {s}
    <2>1. subs'[r] = subs[r] /\ emitted'[r] = emitted[r] /\ skipped'[r] = skipped[r]
      BY <1>1, <1>10 DEF FeedTyped
    <2> QED
      BY <1>1, <2>1, FeedStays
  <1>17. Position(s)' = p + 1
    <2>1. Position(s)' = seq - Len(t) + 1
      BY <1>1, <1>8, <1>15 DEF Position
    <2> QED
      BY <1>2, <1>5, <1>6, <2>1
  <1>18. \A n \in Nat : subs[s].cursor < n /\ n < p + 1 => Seen(s, n)'
    <2> SUFFICES ASSUME NEW n \in Nat, subs[s].cursor < n, n < p + 1 PROVE Seen(s, n)'
      OBVIOUS
    <2>1. Len(e) \in 1..Len(e) /\ \A i \in 1..Len(emitted[s]) : i \in 1..Len(e)
      BY <1>2, <1>11
    <2>2. CASE n = p
      BY <1>6, <1>11, <1>15, <2>1, <2>2 DEF Seen
    <2>3. CASE n # p
      <3>1. Seen(s, n)
        BY <1>3, <1>4, <1>6, <2>3
      <3> QED
        BY <1>11, <1>15, <2>1, <3>1 DEF Seen
    <2> QED
      BY <2>2, <2>3
  <1>19. /\ Len(t) <= seq /\ \A i \in 1..Len(t) : t[i].seq = seq - Len(t) + i
    <2>1. \A i \in 1..Len(t) : q[i + 1].seq = seq - Len(q) + (i + 1)
      BY <1>3, <1>4, <1>5
    <2>2. Len(t) <= seq
      BY <1>2, <1>3, <1>4, <1>5
    <2>3. \A i \in 1..Len(t) : seq - Len(q) + (i + 1) = seq - Len(t) + i
      BY <1>2, <1>5
    <2> QED
      BY <1>5, <2>1, <2>2, <2>3
  <1>20. FeedIsAt(s)'
    BY <1>1, <1>8, <1>13, <1>15, <1>17, <1>18, <1>19 DEF FeedIsAt, OrderedBelow
  <1> QED
    BY <1>14, <1>16, <1>20 DEF FeedInv

\* AppendFrame: a live subscription gets the frame, one between backfill and bus
\* skips it, and one in the backfill skips a frame when the oldest is dropped.
LEMMA AppendFrameFeeds ==
    ASSUME CommitsTyped, RevsOrdered, FeedInv, NEW w \in Writes, AppendFrame(w)
    PROVE  FeedInv'
  <1>1. /\ FeedTyped /\ \A r \in RepoSubs : FeedIsAt(r)
        /\ seq' = seq + 1 /\ emitted' = emitted /\ writer[w].at = "headed"
        /\ seq \in Nat /\ backlog \in Seq(Frames) /\ Len(backlog) \in Nat /\ MaxBacklog \in Nat
    BY RepoAssumption DEF FeedInv, AppendFrame, FeedTyped
  <1>2. PICK f : f = [seq |-> seq + 1, rev |-> store[writer[w].commit].rev, since |-> RevOf(writer[w].base)]
    OBVIOUS
  <1>3. f \in Frames /\ f.seq = seq + 1
    <2>1. writer[w].commit \in 1..Len(store) /\ writer[w].base \in 0..Len(store)
      BY <1>1 DEF RevsOrdered
    <2>2. store[writer[w].commit] \in Commits
      BY <2>1 DEF CommitsTyped
    <2>3. writer[w].base # 0 => store[writer[w].base] \in Commits
      BY <2>1 DEF CommitsTyped
    <2>4. RevOf(writer[w].base) \in Nat /\ store[writer[w].commit].rev \in Nat
      BY <2>2, <2>3 DEF RevOf, Commits
    <2> QED
      BY <1>1, <1>2, <2>4 DEF Frames
  <1>4. PICK longer, over : longer = Append(backlog, f) /\ over = (Len(longer) > MaxBacklog)
    OBVIOUS
  <1>5. /\ longer \in Seq(Frames) /\ Len(longer) = Len(backlog) + 1
        /\ longer[Len(backlog) + 1] = f /\ \A i \in 1..Len(backlog) : longer[i] = backlog[i]
    BY <1>1, <1>3, <1>4
  <1>6. \A i \in 1..Len(longer) : longer[i].seq = seq - Len(backlog) + i
    <2> TAKE i \in 1..Len(longer)
    <2>1. CASE i = Len(backlog) + 1
      BY <1>1, <1>3, <1>5, <2>1
    <2>2. CASE i # Len(backlog) + 1
      <3>1. i \in 1..Len(backlog)
        BY <1>1, <1>5, <2>2
      <3> QED
        BY <1>1, <1>5, <3>1 DEF FeedTyped
    <2> QED
      BY <2>1, <2>2
  <1>7. /\ backlog' = IF over THEN Tail(longer) ELSE longer
        /\ subs' = [s \in RepoSubs |->
               IF subs[s].at = "live" THEN [subs[s] EXCEPT !.queue = Append(@, f)] ELSE subs[s]]
    BY <1>2, <1>4 DEF AppendFrame
  <1>8. skipped' = [s \in RepoSubs |->
               skipped[s] \cup (IF over /\ subs[s].at = "backfill"
                                THEN {longer[i].seq : i \in {subs[s].next} \cap DOMAIN longer} ELSE {})
                          \cup (IF subs[s].at = "handover" THEN {f.seq} ELSE {})]
    BY <1>2, <1>4 DEF AppendFrame
  <1>9. /\ backlog' \in Seq(Frames) /\ Len(backlog') = (IF over THEN Len(backlog) ELSE Len(backlog) + 1)
        /\ Len(backlog') <= seq'
        /\ \A i \in 1..Len(backlog') : backlog'[i].seq = seq' - Len(backlog') + i
    <2>1. Len(backlog) <= seq
      BY <1>1 DEF FeedTyped
    <2>2. CASE ~over
      BY <1>1, <1>5, <1>6, <1>7, <2>1, <2>2
    <2>3. CASE over
      <3>1. /\ backlog' \in Seq(Frames) /\ Len(backlog') = Len(backlog)
            /\ \A i \in 1..Len(backlog') : backlog'[i] = longer[i + 1]
        BY <1>1, <1>5, <1>7, <2>3
      <3>2. \A i \in 1..Len(backlog') : longer[i + 1].seq = seq' - Len(backlog') + i
        BY <1>1, <1>5, <1>6, <3>1
      <3> QED
        BY <1>1, <2>1, <2>3, <3>1, <3>2
    <2> QED
      BY <2>2, <2>3
  <1>10. ASSUME NEW s \in RepoSubs PROVE subs'[s] \in Feeds /\ skipped'[s] \in SUBSET Int /\ FeedIsAt(s)'
    <2>1. /\ subs[s].at \in {"none", "cancelled", "backfill", "handover", "live"}
          /\ Feeding(s) =>
               /\ subs[s] \in [at : {"backfill", "handover", "live"}, cursor : Nat, next : Nat, queue : Seq(Frames)]
               /\ subs[s].cursor \in Nat /\ subs[s].next \in Nat
               /\ subs[s].queue \in Seq(Frames) /\ Len(subs[s].queue) \in Nat
          /\ emitted[s] \in Seq(Frames) /\ skipped[s] \in SUBSET Int
      BY <1>1, FeedFacts
    <2>2. FeedIsAt(s) /\ subs[s] \in Feeds /\ emitted'[s] = emitted[s]
      BY <1>1 DEF FeedTyped
    <2>3. CASE subs[s].at \in {"none", "cancelled"}
      <3>1. subs'[s] = subs[s] /\ skipped'[s] = skipped[s]
        BY <1>7, <1>8, <2>3
      <3> QED
        BY <2>1, <2>2, <2>3, <3>1 DEF FeedIsAt, Feeding
    <2>4. CASE subs[s].at = "backfill"
      <3>1. subs'[s] = subs[s] /\ skipped[s] \subseteq skipped'[s] /\ Feeding(s)
        BY <1>7, <1>8, <2>4 DEF Feeding
      <3>2. /\ subs[s].next \in 1..(Len(backlog) + 1) /\ subs[s].queue = <<>>
        BY <2>2, <2>4, <3>1 DEF FeedIsAt
      <3>3. PICK p : p = Position(s)
        OBVIOUS
      <3>4. p = seq - Len(backlog) + subs[s].next /\ p \in Int /\ longer[subs[s].next].seq = p
        BY <1>1, <1>5, <1>6, <2>1, <2>4, <3>2, <3>3 DEF Position
      <3>5. Position(s)' = seq' - Len(backlog') + subs[s].next
        BY <2>4, <3>1 DEF Position
      <3>6. CASE over
        <4>1. skipped'[s] = skipped[s] \cup {p}
          <5>1. {subs[s].next} \cap DOMAIN longer = {subs[s].next}
            BY <1>1, <1>5, <3>2
          <5>2. {longer[i].seq : i \in {subs[s].next}} = {p}
            BY <3>4
          <5> QED
            BY <1>8, <2>4, <3>6, <5>1, <5>2
        <4>2. Position(s)' = p + 1 /\ subs[s].next \in 1..(Len(backlog') + 1) /\ Len(subs[s].queue) = 0
          BY <1>1, <1>9, <2>1, <3>1, <3>2, <3>4, <3>5, <3>6
        <4>3. \A n \in Nat : subs[s].cursor < n /\ n < p + 1 => Seen(s, n)'
          <5> SUFFICES ASSUME NEW n \in Nat, subs[s].cursor < n, n < p + 1 PROVE Seen(s, n)'
            OBVIOUS
          <5>1. n = p \/ n < p
            BY <3>4
          <5>2. n < p => Seen(s, n)
            BY <2>2, <3>1, <3>3 DEF FeedIsAt
          <5> QED
            BY <2>2, <4>1, <5>1, <5>2 DEF Seen
        <4>4. \A i \in 1..Len(emitted[s]) : emitted[s][i].seq < p + 1
          <5> TAKE i \in 1..Len(emitted[s])
          <5>1. emitted[s][i] \in Frames /\ emitted[s][i].seq < p
            BY <2>1, <2>2, <3>1, <3>3 DEF FeedIsAt
          <5> QED
            BY <3>4, <5>1 DEF Frames
        <4>5. \A i \in 1..(Len(emitted[s]) - 1) : emitted[s][i].seq < emitted[s][i + 1].seq
          BY <2>2 DEF FeedIsAt
        <4>6. /\ Len(subs'[s].queue) <= seq'
              /\ \A i \in 1..Len(subs'[s].queue) : subs'[s].queue[i].seq = seq' - Len(subs'[s].queue) + i
          BY <1>1, <3>1, <3>2, <4>2
        <4>7. FeedIsAt(s)'
          BY <2>2, <2>4, <3>1, <3>2, <4>2, <4>3, <4>4, <4>5, <4>6 DEF FeedIsAt
        <4> QED
          BY <2>1, <2>2, <3>1, <3>4, <4>1, <4>7
      <3>7. CASE ~over
        <4>1. skipped'[s] = skipped[s]
          BY <1>8, <2>4, <3>7
        <4>2. Position(s)' = p /\ subs[s].next \in 1..(Len(backlog') + 1) /\ Len(subs[s].queue) = 0
          BY <1>1, <1>9, <2>1, <3>1, <3>2, <3>4, <3>5, <3>7
        <4>3. \A n \in Nat : Seen(s, n)' = Seen(s, n)
          BY <2>2, <4>1 DEF Seen
        <4>4. /\ Len(subs'[s].queue) <= seq'
              /\ \A i \in 1..Len(subs'[s].queue) : subs'[s].queue[i].seq = seq' - Len(subs'[s].queue) + i
          BY <1>1, <3>1, <3>2, <4>2
        <4>5. /\ \A i \in 1..(Len(emitted[s]) - 1) : emitted[s][i].seq < emitted[s][i + 1].seq
              /\ \A i \in 1..Len(emitted[s]) : emitted[s][i].seq < p
              /\ \A n \in Nat : subs[s].cursor < n /\ n < p => Seen(s, n)
          BY <2>2, <3>1, <3>3 DEF FeedIsAt
        <4>6. FeedIsAt(s)'
          BY <2>2, <2>4, <3>1, <3>2, <4>2, <4>3, <4>4, <4>5 DEF FeedIsAt
        <4> QED
          BY <2>1, <2>2, <3>1, <4>1, <4>6
      <3> QED
        BY <3>6, <3>7
    <2>5. CASE subs[s].at = "handover"
      <3>1. subs'[s] = subs[s] /\ skipped'[s] = skipped[s] \cup {seq + 1} /\ Feeding(s)
        BY <1>3, <1>7, <1>8, <2>5 DEF Feeding
      <3>2. subs[s].queue = <<>>
        BY <2>2, <2>5, <3>1 DEF FeedIsAt
      <3>3. Position(s) = seq + 1 /\ Position(s)' = seq + 2
        <4>1. Position(s) = seq + 1
          BY <2>5 DEF Position
        <4>2. Position(s)' = seq' + 1
          BY <2>5, <3>1 DEF Position
        <4> QED
          BY <1>1, <4>1, <4>2
      <3>4. \A n \in Nat : subs[s].cursor < n /\ n < seq + 2 => Seen(s, n)'
        <4> SUFFICES ASSUME NEW n \in Nat, subs[s].cursor < n, n < seq + 2 PROVE Seen(s, n)'
          OBVIOUS
        <4>1. n = seq + 1 \/ n < seq + 1
          BY <1>1
        <4>2. n < seq + 1 => Seen(s, n)
          BY <2>2, <3>1, <3>3 DEF FeedIsAt
        <4> QED
          BY <2>2, <3>1, <4>1, <4>2 DEF Seen
      <3>5. \A i \in 1..Len(emitted[s]) : emitted[s][i].seq < seq + 2
        <4> TAKE i \in 1..Len(emitted[s])
        <4>1. emitted[s][i] \in Frames /\ emitted[s][i].seq < seq + 1
          BY <2>1, <2>2, <3>1, <3>3 DEF FeedIsAt
        <4> QED
          BY <1>1, <4>1 DEF Frames
      <3>6. \A i \in 1..(Len(emitted[s]) - 1) : emitted[s][i].seq < emitted[s][i + 1].seq
        BY <2>2 DEF FeedIsAt
      <3>7. /\ Len(subs'[s].queue) <= seq'
            /\ \A i \in 1..Len(subs'[s].queue) : subs'[s].queue[i].seq = seq' - Len(subs'[s].queue) + i
        <4>1. Len(subs[s].queue) = 0
          BY <3>2
        <4> QED
          BY <1>1, <3>1, <3>2, <4>1
      <3>8. FeedIsAt(s)'
        BY <2>2, <2>5, <3>1, <3>2, <3>3, <3>4, <3>5, <3>6, <3>7 DEF FeedIsAt
      <3> QED
        BY <1>1, <2>1, <2>2, <3>1, <3>8
    <2>6. CASE subs[s].at = "live"
      <3>1. skipped'[s] = skipped[s] /\ Feeding(s)
        BY <1>8, <2>6 DEF Feeding
      <3>2. PICK q, new : q = Append(subs[s].queue, f) /\ new = [subs[s] EXCEPT !.queue = q]
        OBVIOUS
      <3>3. subs'[s] = new
        BY <1>7, <2>6, <3>2
      <3>4. /\ q \in Seq(Frames) /\ Len(q) = Len(subs[s].queue) + 1 /\ q[Len(q)] = f
            /\ \A i \in 1..Len(subs[s].queue) : q[i] = subs[s].queue[i]
        BY <1>3, <2>1, <3>1, <3>2
      <3>5. new \in Feeds /\ new.at = "live" /\ new.cursor = subs[s].cursor /\ new.queue = q
        BY <2>1, <2>6, <3>1, <3>2, <3>4 DEF Feeds
      <3>6. /\ Len(subs[s].queue) <= seq
            /\ \A i \in 1..Len(subs[s].queue) : subs[s].queue[i].seq = seq - Len(subs[s].queue) + i
            /\ \A i \in 1..(Len(emitted[s]) - 1) : emitted[s][i].seq < emitted[s][i + 1].seq
            /\ \A i \in 1..Len(emitted[s]) : emitted[s][i].seq < Position(s)
            /\ \A n \in Nat : subs[s].cursor < n /\ n < Position(s) => Seen(s, n)
        BY <2>2, <3>1 DEF FeedIsAt
      <3>7. Position(s)' = Position(s)
        <4>1. Position(s)' = seq' - Len(q) + 1
          BY <3>3, <3>5 DEF Position
        <4>2. Position(s) = seq - Len(subs[s].queue) + 1
          BY <2>6 DEF Position
        <4> QED
          BY <1>1, <2>1, <3>1, <3>4, <4>1, <4>2
      <3>8. \A n \in Nat : Seen(s, n)' = Seen(s, n)
        BY <2>2, <3>1 DEF Seen
      <3>9. Len(q) <= seq' /\ \A i \in 1..Len(q) : q[i].seq = seq' - Len(q) + i
        <4>1. \A i \in 1..Len(q) : i \in 1..Len(subs[s].queue) \/ i = Len(q)
          BY <2>1, <3>1, <3>4
        <4>2. \A i \in 1..Len(subs[s].queue) : q[i].seq = seq' - Len(q) + i
          <5> TAKE i \in 1..Len(subs[s].queue)
          <5>1. q[i].seq = seq - Len(subs[s].queue) + i
            BY <3>4, <3>6
          <5>2. seq - Len(subs[s].queue) + i = seq' - Len(q) + i
            BY <1>1, <2>1, <3>1, <3>4
          <5> QED
            BY <5>1, <5>2
        <4>3. q[Len(q)].seq = seq' - Len(q) + Len(q)
          <5>1. q[Len(q)].seq = seq + 1 /\ Len(q) \in Nat
            BY <1>3, <2>1, <3>1, <3>4
          <5> QED
            BY <1>1, <5>1
        <4>4. Len(q) <= seq'
          BY <1>1, <2>1, <3>1, <3>4, <3>6
        <4> QED
          BY <4>1, <4>2, <4>3, <4>4
      <3>10. FeedIsAt(s)'
        BY <2>2, <3>3, <3>5, <3>6, <3>7, <3>8, <3>9 DEF FeedIsAt
      <3> QED
        BY <2>1, <3>1, <3>3, <3>5, <3>10
    <2> QED
      BY <2>1, <2>3, <2>4, <2>5, <2>6
  <1>11. FeedTyped'
    <2>1. subs' \in [RepoSubs -> Feeds]
      BY <1>7, <1>10
    <2>2. skipped' \in [RepoSubs -> SUBSET Int]
      BY <1>8, <1>10
    <2>3. seq' \in Nat /\ emitted' \in [RepoSubs -> Seq(Frames)]
      BY <1>1 DEF FeedTyped
    <2> QED
      BY <1>9, <2>1, <2>2, <2>3 DEF FeedTyped
  <1> QED
    BY <1>10, <1>11 DEF FeedInv

\* Every step keeps the invariant.
LEMMA RepoNextInv == RepoInv /\ [RepoNext]_repoVars => RepoInv'
  <1> SUFFICES ASSUME RepoInv, [RepoNext]_repoVars PROVE RepoInv'
    OBVIOUS
  <1>1. CommitsTyped /\ RevsOrdered /\ Serial /\ FeedInv
    BY DEF RepoInv
  <1>2. ASSUME UNCHANGED <<seq, backlog, subs, emitted, skipped>> PROVE FeedInv'
    <2>1. FeedTyped'
      BY <1>1, <1>2 DEF FeedInv, FeedTyped
    <2>2. \A s \in RepoSubs : FeedIsAt(s)'
      BY <1>1, <1>2, FeedStays DEF FeedInv
    <2> QED
      BY <2>1, <2>2 DEF FeedInv
  <1>3. micros \in Nat
    BY <1>1 DEF CommitsTyped
  <1>4. ASSUME NEW w \in Writes, ReadHead(w) PROVE RepoInv'
    BY <1>1, <1>2, <1>4, ReadHeadKeeps DEF RepoInv, ReadHead, feedVars
  <1>5. ASSUME NEW w \in Writes, ApplyOps(w) PROVE RepoInv'
    BY <1>1, <1>2, <1>5, ApplyOpsKeeps DEF RepoInv, ApplyOps, feedVars
  <1>6. ASSUME NEW w \in Writes, StoreCommit(w) PROVE RepoInv'
    BY <1>1, <1>2, <1>6, StoreCommitKeeps DEF RepoInv, StoreCommit, feedVars
  <1>7. ASSUME NEW w \in Writes, SetHead(w) PROVE RepoInv'
    BY <1>1, <1>2, <1>7, SetHeadKeeps DEF RepoInv, SetHead, feedVars
  <1>8. ASSUME NEW w \in Writes, AppendFrame(w) PROVE RepoInv'
    <2>1. backlog \in Seq(Frames) /\ seq \in Nat
      BY <1>1 DEF FeedInv, FeedTyped
    <2> QED
      BY <1>1, <1>8, <2>1, AppendFrameCommits, AppendFrameFeeds DEF RepoInv
  <1>9. CASE MicrosTick
    BY <1>1, <1>2, <1>3, <1>9, CommitsStay DEF RepoInv, MicrosTick, feedVars
  <1>10. ASSUME UNCHANGED <<head, store, writer, overlapped, micros, lastMicros, seq, backlog>>, FeedInv'
         PROVE RepoInv'
    BY <1>1, <1>3, <1>10, CommitsStay DEF RepoInv
  <1>11. ASSUME NEW s \in RepoSubs, NEW cur \in 0..seq, Subscribe(s, cur) PROVE RepoInv'
    BY <1>1, <1>10, <1>11, SubscribeKeeps DEF Subscribe, SubVars, tidVars
  <1>12. ASSUME NEW s \in RepoSubs, BackfillNext(s) PROVE RepoInv'
    BY <1>1, <1>10, <1>12, BackfillNextKeeps DEF BackfillNext, SubVars, tidVars
  <1>13. ASSUME NEW s \in RepoSubs, GoLive(s) PROVE RepoInv'
    BY <1>1, <1>10, <1>13, GoLiveKeeps DEF GoLive, SubVars, tidVars
  <1>14. ASSUME NEW s \in RepoSubs, LiveNext(s) PROVE RepoInv'
    BY <1>1, <1>10, <1>14, LiveNextKeeps DEF LiveNext, SubVars, tidVars
  <1>15. ASSUME NEW s \in RepoSubs, CancelFeed(s) PROVE RepoInv'
    BY <1>1, <1>10, <1>15, CancelFeedKeeps DEF CancelFeed, SubVars, tidVars
  <1>16. CASE UNCHANGED repoVars
    BY <1>1, <1>2, <1>10, <1>16 DEF repoVars
  <1> QED
    BY <1>4, <1>5, <1>6, <1>7, <1>8, <1>9, <1>11, <1>12, <1>13, <1>14, <1>15, <1>16
       DEF RepoNext, FeedStep

\* The invariant gives what a client of the repository relies on.
LEMMA RepoInvSuffices == RepoInv => RepoIsSound
  <1> SUFFICES ASSUME RepoInv PROVE RepoIsSound
    OBVIOUS
  <1>1. CommitsTyped /\ RevsOrdered /\ Serial /\ FeedTyped /\ \A s \in RepoSubs : FeedIsAt(s)
    BY DEF RepoInv, FeedInv
  <1>2. RevsGrow
    <2>1. DOMAIN store = 1..Len(store) /\ Len(store) \in Nat
      BY <1>1 DEF CommitsTyped
    <2>2. \A c \in 1..Len(store) : store[c].rev \in Nat /\ store[c].prev \in Nat
      <3> TAKE c \in 1..Len(store)
      <3>1. store[c] \in Commits
        BY <1>1 DEF CommitsTyped
      <3> QED
        BY <3>1 DEF Commits
    <2>3. \A c \in 1..Len(store) : store[c].rev > RevOf(store[c].prev)
      <3> TAKE c \in 1..Len(store)
      <3>1. store[c].prev < c /\ store[c].rev > 0
        BY <1>1 DEF RevsOrdered
      <3>2. CASE store[c].prev = 0
        BY <3>1, <3>2 DEF RevOf
      <3>3. CASE store[c].prev # 0
        <4>1. store[c].prev \in 1..Len(store)
          BY <2>1, <2>2, <3>1, <3>3
        <4>2. store[store[c].prev].rev < store[c].rev
          BY <1>1, <3>1, <4>1 DEF RevsOrdered
        <4> QED
          BY <2>2, <3>3, <4>1, <4>2 DEF RevOf
      <3> QED
        BY <3>2, <3>3
    <2>4. \A c, d \in 1..Len(store) : store[d].rev = store[c].rev => d = c
      <3> SUFFICES ASSUME NEW c \in 1..Len(store), NEW d \in 1..Len(store), c # d
                   PROVE  store[c].rev # store[d].rev
        OBVIOUS
      <3>1. c < d \/ d < c
        OBVIOUS
      <3>2. (c < d => store[c].rev < store[d].rev) /\ (d < c => store[d].rev < store[c].rev)
        BY <1>1 DEF RevsOrdered
      <3> QED
        BY <2>2, <3>1, <3>2
    <2> QED
      BY <2>1, <2>3, <2>4 DEF RevsGrow
  <1>3. SerialWritesSurvive
    BY <1>1 DEF SerialWritesSurvive, Serial, OneAtATime, CallIsAt, ChainIsWhole, Kept
  <1>4. FeedIsOrdered
    <2> SUFFICES ASSUME NEW s \in RepoSubs
                 PROVE  /\ \A i \in 1..(Len(emitted[s]) - 1) : emitted[s][i].seq < emitted[s][i + 1].seq
                        /\ subs[s].at \in {"backfill", "handover", "live"} /\ emitted[s] # <<>> =>
                             \A n \in (subs[s].cursor + 1)..emitted[s][Len(emitted[s])].seq :
                                 n \in skipped[s] \/ \E i \in DOMAIN emitted[s] : emitted[s][i].seq = n
      BY DEF FeedIsOrdered
    <2>1. FeedIsAt(s)
      BY <1>1
    <2>2. ASSUME Feeding(s), emitted[s] # <<>>,
                 NEW n \in (subs[s].cursor + 1)..emitted[s][Len(emitted[s])].seq
          PROVE  n \in skipped[s] \/ \E i \in DOMAIN emitted[s] : emitted[s][i].seq = n
      <3>1. /\ subs[s].cursor \in Nat /\ emitted[s] \in Seq(Frames)
            /\ subs[s].next \in Nat /\ Len(subs[s].queue) \in Nat
        BY <1>1, <2>2, FeedFacts
      <3>2. Len(emitted[s]) \in 1..Len(emitted[s]) /\ DOMAIN emitted[s] = 1..Len(emitted[s])
        BY <2>2, <3>1
      <3>3. PICK l : l = emitted[s][Len(emitted[s])].seq
        OBVIOUS
      <3>4. l \in Nat /\ l < Position(s)
        <4>1. emitted[s][Len(emitted[s])] \in Frames
          BY <3>1, <3>2
        <4> QED
          BY <2>1, <2>2, <3>2, <3>3, <4>1 DEF FeedIsAt, Frames
      <3>5. Position(s) \in Int
        BY <1>1, <3>1 DEF Position, FeedTyped
      <3>6. n \in Nat /\ subs[s].cursor < n /\ n < Position(s)
        BY <2>2, <3>1, <3>3, <3>4, <3>5
      <3>7. Seen(s, n)
        BY <2>1, <2>2, <3>6 DEF FeedIsAt
      <3> QED
        BY <3>2, <3>7 DEF Seen
    <2> QED
      BY <2>1, <2>2 DEF FeedIsAt, Feeding
  <1> QED
    BY <1>2, <1>3, <1>4 DEF RepoIsSound

\* The repository and its firehose, for any number of writers, subscriptions and
\* frames: revisions grow, records created by serial writes survive until they are
\* deleted, and every subscription sees the frames after its cursor in order, but
\* for those that left the backlog before, fell into the hand-over to the bus, or
\* were passed over when a full backlog moved on under a running backfill.
THEOREM RepoHolds == RepoSpec => []RepoIsSound
  <1>1. RepoSpec => []RepoInv
    BY RepoInitInv, RepoNextInv, PTL DEF RepoSpec
  <1> QED
    BY <1>1, RepoInvSuffices, PTL

-----------------------------------------------------------------------------
(* PlcDirectory: the log is one chain, an export misses only ties          *)

PlcEntries == [op : PlcOps, nullified : BOOLEAN, at : Nat]

PlcTypeOK ==
    /\ plcLog \in Seq(PlcEntries) /\ plcTime \in Nat
    /\ plcCall = [o \in PlcOps |-> plcCall[o]]
    /\ page \in [after : Nat, seen : Seq(PlcEntries), ends : SUBSET Nat, done : BOOLEAN]

\* Entries of different operations with times that do not decrease.
InOrder(s) == \A i, j \in 1..Len(s) : i < j => s[i].op # s[j].op /\ s[i].at <= s[j].at

\* An operation is inserted once, at the time it is then.
InsertedOnce ==
    /\ InOrder(plcLog)
    /\ \A i \in 1..Len(plcLog) :
           /\ plcLog[i].at > 0 /\ plcLog[i].at <= plcTime + 1
           /\ plcCall[plcLog[i].op].at = "done"

\* The export has seen what the log has up to its cursor, but for ties.
SeenUpto(after, seen, ends) ==
    /\ InOrder(seen)
    /\ \A j \in 1..Len(seen) :
           /\ seen[j].at <= after
           /\ \E i \in 1..Len(plcLog) : plcLog[i].op = seen[j].op /\ plcLog[i].at = seen[j].at
    /\ after # 0 => after \in ends /\ \E j \in 1..Len(seen) : seen[j].at = after
    /\ \A i \in 1..Len(plcLog) : plcLog[i].at <= after =>
           plcLog[i].at \in ends \/ \E j \in 1..Len(seen) : seen[j].op = plcLog[i].op

\* A current entry follows another one, an update right behind, or is the first.
Linked(i) ==
    plcLog[i].op.type # "create" =>
        IF plcLog[i].op.prev = 0 THEN \A k \in CurrentIn(plcLog) : i <= k
        ELSE \E k \in CurrentIn(plcLog) :
                 /\ k < i /\ plcLog[k].op.id = plcLog[i].op.prev
                 /\ IsUpdate(plcLog[i].op) => \A l \in CurrentIn(plcLog) : l <= k \/ i <= l

\* What a submission was checked for still holds.
StillFits(o) ==
    o.type # "create" =>
        IF o.prev = 0 THEN plcLog = <<>>
        ELSE \E k \in CurrentIn(plcLog) :
                 /\ plcLog[k].op.id = o.prev
                 /\ IsUpdate(o) /\ plcCall[o].at = "nullified" => \A l \in CurrentIn(plcLog) : l <= k

\* The current entries behind the one with an id.
Behind(id) == {j \in CurrentIn(plcLog) : \E i \in CurrentIn(plcLog) : i < j /\ plcLog[i].op.id = id}

\* One submission at a time, and the current entries linked.
OneChain ==
    /\ \A i \in CurrentIn(plcLog) : Linked(i)
    /\ \A o, p \in PlcOps : PlcUnderway(o) /\ PlcUnderway(p) => o = p
    /\ \A o \in PlcOps :
           /\ PlcUnderway(o) => StillFits(o)
           /\ plcCall[o].at = "checked" => plcCall[o].after = {plcLog[j].op.id : j \in Behind(o.prev)}

PlcInv ==
    /\ PlcTypeOK /\ InsertedOnce
    /\ SeenUpto(page.after, page.seen, page.ends)
    /\ ~plcOverlap => OneChain

\* The initial states satisfy the invariant.
LEMMA PlcInitInv == PlcInit => PlcInv
  <1> SUFFICES ASSUME PlcInit PROVE PlcInv
    OBVIOUS
  <1>1. <<>> \in Seq(PlcEntries) /\ Len(<<>>) = 0 /\ DOMAIN <<>> = {}
    OBVIOUS
  <1>2. PlcTypeOK
    BY <1>1 DEF PlcInit, PlcTypeOK
  <1>3. InsertedOnce /\ SeenUpto(page.after, page.seen, page.ends)
    BY <1>1 DEF PlcInit, InsertedOnce, SeenUpto, InOrder
  <1>4. OneChain
    BY <1>1 DEF PlcInit, OneChain, CurrentIn, PlcUnderway
  <1> QED
    BY <1>2, <1>3, <1>4 DEF PlcInv

\* The current chain by the indices of its entries.
LEMMA CurrentPicks ==
    ASSUME PlcTypeOK
    PROVE  \E g, n : /\ n \in Nat /\ n = Cardinality(CurrentIn(plcLog)) /\ Picks(g, CurrentIn(plcLog))
                     /\ CurrentOps(plcLog) \in Seq(PlcEntries) /\ Len(CurrentOps(plcLog)) = n
                     /\ \A k \in 1..n : CurrentOps(plcLog)[k] = plcLog[g[k]]
  <1>1. plcLog \in Seq(PlcEntries) /\ CurrentIn(plcLog) \in SUBSET DOMAIN plcLog
    BY DEF PlcTypeOK, CurrentIn
  <1>2. PICK I : I = CurrentIn(plcLog)
    OBVIOUS
  <1>3. PICK c : c = AtIndices(plcLog, I)
    OBVIOUS
  <1>4. PICK g : /\ Picks(g, I) /\ c = [k \in 1..Cardinality(I) |-> plcLog[g[k]]]
                 /\ c \in Seq(PlcEntries) /\ Len(c) = Cardinality(I) /\ Cardinality(I) \in Nat
    BY <1>1, <1>2, <1>3, AtIndicesPicks
  <1>5. c = CurrentOps(plcLog)
    BY <1>2, <1>3 DEF CurrentOps
  <1>6. \A k \in 1..Cardinality(I) : c[k] = plcLog[g[k]]
    BY <1>4
  <1> QED
    BY <1>2, <1>4, <1>5, <1>6

\* What a check takes for the entries to nullify.
Overridden(current, id) ==
    {current[j].op.id : j \in {j \in DOMAIN current : \E i \in 1..(j - 1) : current[i].op.id = id}}

\* They are the current entries behind its predecessor.
LEMMA AfterIsBehind ==
    ASSUME PlcTypeOK, NEW id, NEW current, current = CurrentOps(plcLog)
    PROVE  Overridden(current, id) = {plcLog[j].op.id : j \in Behind(id)}
  <1>1. PICK I : I = CurrentIn(plcLog)
    OBVIOUS
  <1>2. PICK g, n : /\ n \in Nat /\ n = Cardinality(I) /\ Picks(g, I)
                    /\ current \in Seq(PlcEntries) /\ Len(current) = n
                    /\ \A k \in 1..n : current[k] = plcLog[g[k]]
    BY <1>1, CurrentPicks
  <1>3. DOMAIN current = 1..n
    BY <1>2
  <1>4. /\ \A k \in 1..n : g[k] \in I
        /\ \A k, l \in 1..n : k < l => g[k] < g[l]
        /\ \A i \in I : \E k \in 1..n : g[k] = i
    BY <1>2 DEF Picks
  <1>5. I \in SUBSET Nat
    <2>1. DOMAIN plcLog \in SUBSET Nat
      BY DEF PlcTypeOK
    <2> QED
      BY <1>1, <2>1 DEF CurrentIn
  <1>6. ASSUME NEW j \in DOMAIN current, \E i \in 1..(j - 1) : current[i].op.id = id
        PROVE  g[j] \in Behind(id) /\ current[j].op.id = plcLog[g[j]].op.id
    <2>1. PICK i \in 1..(j - 1) : current[i].op.id = id
      BY <1>6
    <2>2. i \in 1..n /\ j \in 1..n /\ i < j
      BY <1>2, <1>3
    <2>3. g[i] \in I /\ g[j] \in I /\ g[i] < g[j] /\ plcLog[g[i]].op.id = id
      BY <1>2, <1>4, <2>1, <2>2
    <2> QED
      BY <1>1, <1>2, <2>2, <2>3 DEF Behind
  <1>7. ASSUME NEW m \in Behind(id)
        PROVE  \E j \in DOMAIN current : /\ \E i \in 1..(j - 1) : current[i].op.id = id
                                         /\ current[j].op.id = plcLog[m].op.id
    <2>1. PICK l \in I : m \in I /\ l < m /\ plcLog[l].op.id = id
      BY <1>1 DEF Behind
    <2>2. PICK j \in 1..n : g[j] = m
      BY <1>4, <2>1
    <2>3. PICK i \in 1..n : g[i] = l
      BY <1>4, <2>1
    <2>4. i < j
      <3>1. ~(j < i) /\ i # j
        BY <1>4, <1>5, <2>1, <2>2, <2>3
      <3> QED
        BY <3>1
    <2>5. i \in 1..(j - 1)
      BY <2>4
    <2> QED
      BY <1>2, <1>3, <2>1, <2>2, <2>3, <2>5
  <1>8. Overridden(current, id) = {plcLog[j].op.id : j \in Behind(id)}
    BY <1>6, <1>7 DEF Overridden
  <1> QED
    BY <1>8

\* p holds the first n of the m entries of a log after a cursor, at g in it.
IsPage(p, log, after, g, m, n) ==
    /\ m \in Nat /\ n \in Nat /\ n <= m /\ n <= PageSize /\ (n < PageSize => n = m)
    /\ g \in [1..m -> {i \in DOMAIN log : log[i].at > after}]
    /\ \A k, l \in 1..m : k < l => g[k] < g[l]
    /\ \A i \in DOMAIN log : log[i].at > after => \E k \in 1..m : g[k] = i
    /\ p \in Seq(PlcEntries) /\ Len(p) = n
    /\ \A k \in 1..n : p[k] = log[g[k]]

\* A page is the first entries after the cursor, all of them if it is not full.
LEMMA PageOf ==
    ASSUME NEW log \in Seq(PlcEntries), NEW after \in Nat
    PROVE  \E g, m, n : IsPage(NextPage(log, after), log, after, g, m, n)
  <1>1. PICK I : I = {i \in DOMAIN log : log[i].at > after}
    OBVIOUS
  <1>2. PICK c : c = AtIndices(log, I)
    OBVIOUS
  <1>3. PICK g : /\ Picks(g, I) /\ c = [k \in 1..Cardinality(I) |-> log[g[k]]]
                 /\ c \in Seq(PlcEntries) /\ Len(c) = Cardinality(I) /\ Cardinality(I) \in Nat
    BY <1>1, <1>2, AtIndicesPicks
  <1>4. PICK m \in Nat : m = Cardinality(I)
    BY <1>3
  <1>5. PageSize \in Nat
    BY PlcAssumption
  <1>6. PICK n \in Nat : n = IF m < PageSize THEN m ELSE PageSize
    BY <1>5
  <1>7. n <= m /\ n <= PageSize /\ (n < PageSize => n = m)
    BY <1>5, <1>6
  <1>8. NextPage(log, after) = SubSeq(c, 1, n)
    BY <1>1, <1>2, <1>3, <1>4, <1>6 DEF NextPage, ExportLogs
  <1>9. /\ SubSeq(c, 1, n) \in Seq(PlcEntries) /\ Len(SubSeq(c, 1, n)) = n
        /\ \A k \in 1..n : SubSeq(c, 1, n)[k] = c[k]
    <2>1. c \in Seq(PlcEntries) /\ Len(c) = m
      BY <1>3, <1>4
    <2> QED
      BY <1>7, <2>1
  <1>10. \A k \in 1..n : c[k] = log[g[k]]
    BY <1>3, <1>4, <1>7
  <1>11. /\ g \in [1..m -> {i \in DOMAIN log : log[i].at > after}]
         /\ \A k, l \in 1..m : k < l => g[k] < g[l]
         /\ \A i \in DOMAIN log : log[i].at > after => \E k \in 1..m : g[k] = i
    BY <1>1, <1>3, <1>4 DEF Picks
  <1>12. PICK p : p = NextPage(log, after)
    OBVIOUS
  <1>13. p \in Seq(PlcEntries) /\ Len(p) = n /\ \A k \in 1..n : p[k] = log[g[k]]
    BY <1>8, <1>9, <1>10, <1>12
  <1>14. IsPage(p, log, after, g, m, n)
    BY <1>7, <1>11, <1>13 DEF IsPage
  <1> QED
    BY <1>12, <1>14

\* What the cursor, the entries seen and the ends become with a page p.
IsNext(p, after, seen, ends) ==
    /\ after = IF p = <<>> THEN page.after ELSE p[Len(p)].at
    /\ seen = page.seen \o p
    /\ ends = page.ends \cup (IF p = <<>> THEN {} ELSE {p[Len(p)].at})

\* What the export has seen after one more page.
LEMMA PageIsSeen ==
    ASSUME PlcTypeOK, InsertedOnce, SeenUpto(page.after, page.seen, page.ends),
           NEW p, NEW g, NEW m, NEW n, IsPage(p, plcLog, page.after, g, m, n),
           NEW after, NEW seen, NEW ends, IsNext(p, after, seen, ends)
    PROVE  after \in Nat /\ seen \in Seq(PlcEntries) /\ ends \in SUBSET Nat /\ SeenUpto(after, seen, ends)
  <1>1. PICK s, a, L, e : s = page.seen /\ a = page.after /\ L = Len(s) /\ e = page.ends
    OBVIOUS
  <1>2. s \in Seq(PlcEntries) /\ a \in Nat /\ L \in Nat /\ e \in SUBSET Nat
    BY <1>1 DEF PlcTypeOK
  <1>0. /\ after = IF p = <<>> THEN a ELSE p[Len(p)].at
        /\ seen = s \o p
        /\ ends = e \cup (IF p = <<>> THEN {} ELSE {p[Len(p)].at})
    BY <1>1 DEF IsNext
  <1>3. m \in Nat /\ n \in Nat /\ n <= m /\ p \in Seq(PlcEntries) /\ Len(p) = n
    BY DEF IsPage
  <1>4. PICK N \in Nat : N = Len(plcLog) /\ DOMAIN plcLog = 1..N
    <2>1. plcLog \in Seq(PlcEntries)
      BY DEF PlcTypeOK
    <2> QED
      BY <2>1
  <1>5. \A i \in 1..N : plcLog[i].at \in Nat
    <2>1. \A i \in 1..N : plcLog[i] \in PlcEntries
      BY <1>4 DEF PlcTypeOK
    <2> QED
      BY <2>1 DEF PlcEntries
  <1>6. /\ \A j \in 1..L : /\ s[j].at <= a /\ s[j].at \in Nat
                           /\ \E i \in 1..N : plcLog[i].op = s[j].op /\ plcLog[i].at = s[j].at
        /\ \A i, j \in 1..L : i < j => s[i].op # s[j].op /\ s[i].at <= s[j].at
        /\ \A i \in 1..N : plcLog[i].at <= a =>
               plcLog[i].at \in e \/ \E j \in 1..L : s[j].op = plcLog[i].op
    <2>1. \A j \in 1..L : s[j] \in PlcEntries
      BY <1>2, <1>1
    <2>2. \A j \in 1..L : s[j].at \in Nat
      BY <2>1 DEF PlcEntries
    <2>3. SeenUpto(a, s, e)
      BY <1>1
    <2>4. \A j \in 1..L : /\ s[j].at <= a
                          /\ \E i \in 1..N : plcLog[i].op = s[j].op /\ plcLog[i].at = s[j].at
      BY <1>1, <1>4, <2>3 DEF SeenUpto
    <2>5. /\ \A i, j \in 1..L : i < j => s[i].op # s[j].op /\ s[i].at <= s[j].at
          /\ \A i \in 1..N : plcLog[i].at <= a =>
                 plcLog[i].at \in e \/ \E j \in 1..L : s[j].op = plcLog[i].op
      BY <1>1, <1>4, <2>3 DEF SeenUpto, InOrder
    <2> QED
      BY <2>2, <2>4, <2>5
  <1>7. \A i, j \in 1..N : i < j => plcLog[i].op # plcLog[j].op /\ plcLog[i].at <= plcLog[j].at
    BY <1>4 DEF InsertedOnce, InOrder
  <1>8. /\ \A k \in 1..m : g[k] \in 1..N /\ plcLog[g[k]].at > a
        /\ \A k, l \in 1..m : k < l => g[k] < g[l]
        /\ \A i \in 1..N : plcLog[i].at > a => \E k \in 1..m : g[k] = i
        /\ \A k \in 1..n : p[k] = plcLog[g[k]]
    BY <1>1, <1>4 DEF IsPage
  <1>9. \A k \in 1..n : k \in 1..m
    BY <1>3
  <1>10. \A k, l \in 1..n : k < l => p[k].op # p[l].op /\ p[k].at <= p[l].at
    <2> SUFFICES ASSUME NEW k \in 1..n, NEW l \in 1..n, k < l
                 PROVE  p[k].op # p[l].op /\ p[k].at <= p[l].at
      OBVIOUS
    <2>1. g[k] \in 1..N /\ g[l] \in 1..N /\ g[k] < g[l]
      BY <1>8, <1>9
    <2>2. p[k] = plcLog[g[k]] /\ p[l] = plcLog[g[l]]
      BY <1>8
    <2> QED
      BY <1>7, <2>1, <2>2
  <1>11. \A k \in 1..n : p[k].at > a /\ p[k].at \in Nat
    BY <1>5, <1>8, <1>9
  <1>12. \A j \in 1..L, k \in 1..n : s[j].op # p[k].op
    <2> SUFFICES ASSUME NEW j \in 1..L, NEW k \in 1..n, s[j].op = p[k].op PROVE FALSE
      OBVIOUS
    <2>1. PICK i \in 1..N : plcLog[i].op = s[j].op /\ plcLog[i].at = s[j].at
      BY <1>6
    <2>2. g[k] \in 1..N /\ plcLog[g[k]].at > a /\ plcLog[g[k]].op = plcLog[i].op
      BY <1>8, <1>9, <2>1
    <2>3. plcLog[i].at <= a /\ plcLog[i].at \in Nat /\ plcLog[g[k]].at \in Nat
      BY <1>5, <1>6, <2>1, <2>2
    <2>4. i # g[k]
      BY <1>2, <2>2, <2>3
    <2>5. i < g[k] \/ g[k] < i
      BY <2>2, <2>4
    <2> QED
      BY <1>7, <2>2, <2>5
  <1>13. PICK q : q = s \o p /\ q = seen
    BY <1>0
  <1>14. /\ q \in Seq(PlcEntries) /\ Len(q) = L + n
         /\ \A j \in 1..L : q[j] = s[j]
         /\ \A j \in 1..(L + n) : j > L => j - L \in 1..n /\ q[j] = p[j - L]
         /\ \A k \in 1..n : L + k \in 1..(L + n) /\ q[L + k] = p[k]
    <2>0. /\ s \o p \in Seq(PlcEntries) /\ Len(s \o p) = Len(s) + Len(p)
          /\ \A j \in 1..(Len(s) + Len(p)) : (s \o p)[j] = IF j <= Len(s) THEN s[j] ELSE p[j - Len(s)]
      BY <1>2, <1>3, ConcatProperties
    <2>1. q \in Seq(PlcEntries) /\ Len(q) = L + n
      BY <1>1, <1>3, <1>13, <2>0
    <2>2. \A j \in 1..(L + n) : q[j] = IF j <= L THEN s[j] ELSE p[j - L]
      BY <1>1, <1>3, <1>13, <2>0, Zenon
    <2>3. \A j \in 1..L : j \in 1..(L + n) /\ j <= L
      BY <1>2, <1>3
    <2>4. \A j \in 1..(L + n) : j > L => j - L \in 1..n /\ ~(j <= L)
      BY <1>2, <1>3
    <2>5. \A k \in 1..n : L + k \in 1..(L + n) /\ ~(L + k <= L) /\ (L + k) - L = k
      BY <1>2, <1>3
    <2> QED
      BY <2>1, <2>2, <2>3, <2>4, <2>5
  <1>15. InOrder(q)
    <2> SUFFICES ASSUME NEW i \in 1..(L + n), NEW j \in 1..(L + n), i < j
                 PROVE  q[i].op # q[j].op /\ q[i].at <= q[j].at
      BY <1>14 DEF InOrder
    <2>1. CASE j <= L
      <3>1. i \in 1..L /\ j \in 1..L
        BY <1>2, <2>1
      <3> QED
        BY <1>6, <1>14, <3>1
    <2>2. CASE j > L /\ i <= L
      <3>1. i \in 1..L /\ q[i] = s[i] /\ j - L \in 1..n /\ q[j] = p[j - L]
        BY <1>2, <1>14, <2>2
      <3>2. s[i].at <= a /\ p[j - L].at > a /\ s[i].at \in Nat /\ p[j - L].at \in Nat
        BY <1>6, <1>11, <3>1
      <3>3. s[i].at <= p[j - L].at
        BY <1>2, <3>2
      <3> QED
        BY <1>12, <3>1, <3>3
    <2>3. CASE i > L
      <3>1. j > L
        BY <1>2, <2>3
      <3>2. i - L \in 1..n /\ q[i] = p[i - L] /\ j - L \in 1..n /\ q[j] = p[j - L]
        BY <1>14, <2>3, <3>1
      <3>3. i - L < j - L
        BY <1>2
      <3> QED
        BY <1>10, <3>2, <3>3
    <2>4. j <= L \/ (j > L /\ i <= L) \/ i > L
      BY <1>2, <1>3
    <2> QED
      BY <2>1, <2>2, <2>3, <2>4
  <1>16. \A j \in 1..(L + n) : \E i \in 1..N : plcLog[i].op = q[j].op /\ plcLog[i].at = q[j].at
    <2> TAKE j \in 1..(L + n)
    <2>1. CASE j <= L
      <3>1. j \in 1..L
        BY <1>2, <2>1
      <3> QED
        BY <1>6, <1>14, <3>1
    <2>2. CASE j > L
      <3>1. j - L \in 1..n /\ q[j] = p[j - L]
        BY <1>14, <2>2
      <3>2. g[j - L] \in 1..N /\ p[j - L] = plcLog[g[j - L]]
        BY <1>8, <1>9, <3>1
      <3> QED
        BY <3>1, <3>2
    <2> QED
      BY <1>2, <1>3, <2>1, <2>2
  <1>17. CASE n = 0
    <2>1. p = <<>>
      BY <1>3, <1>17
    <2>2. q = s /\ after = a /\ ends = e
      BY <1>0, <1>2, <1>13, <2>1
    <2> QED
      BY <1>1, <1>2, <1>13, <2>2
  <1>18. CASE n > 0
    <2>1. n \in 1..n /\ after = p[n].at
      <3>1. p # <<>>
        BY <1>3, <1>18
      <3> QED
        BY <1>0, <1>3, <1>18, <3>1
    <2>2. after \in Nat /\ after > a
      BY <1>11, <2>1
    <2>7. ends \in SUBSET Nat /\ after \in ends /\ e \subseteq ends
      <3>1. p # <<>>
        BY <1>3, <1>18
      <3>2. ends = e \cup {after}
        BY <1>0, <1>3, <2>1, <3>1
      <3> QED
        BY <1>2, <2>2, <3>2
    <2>3. \A j \in 1..(L + n) : q[j].at <= after
      <3> TAKE j \in 1..(L + n)
      <3>1. CASE j <= L
        <4>1. j \in 1..L /\ q[j] = s[j]
          BY <1>2, <1>14, <3>1
        <4>2. s[j].at <= a /\ s[j].at \in Nat
          BY <1>6, <4>1
        <4> QED
          BY <1>2, <2>2, <4>1, <4>2
      <3>2. CASE j > L
        <4>1. PICK k \in 1..n : k = j - L /\ q[j] = p[k]
          BY <1>14, <3>2
        <4>2. k = n \/ k < n
          BY <1>3
        <4> QED
          BY <1>10, <1>11, <2>1, <4>1, <4>2
      <3> QED
        BY <1>2, <1>3, <3>1, <3>2
    <2>4. L + n \in 1..(L + n) /\ q[L + n] = p[n]
      BY <1>14, <2>1
    <2>5. ASSUME NEW i \in 1..N, plcLog[i].at <= after
          PROVE  plcLog[i].at \in ends \/ \E j \in 1..(L + n) : q[j].op = plcLog[i].op
      <3>1. CASE plcLog[i].at <= a
        <4> SUFFICES ASSUME plcLog[i].at \notin e PROVE \E j \in 1..(L + n) : q[j].op = plcLog[i].op
          BY <2>7
        <4>1. PICK j \in 1..L : s[j].op = plcLog[i].op
          BY <1>6, <3>1
        <4>2. j \in 1..(L + n) /\ q[j] = s[j]
          BY <1>2, <1>3, <1>14, <4>1
        <4> QED
          BY <4>1, <4>2
      <3>2. CASE plcLog[i].at > a
        <4>1. PICK k \in 1..m : g[k] = i
          BY <1>8, <3>2
        <4>2. CASE k <= n
          <5>1. k \in 1..n
            BY <4>1, <4>2
          <5>2. L + k \in 1..(L + n) /\ q[L + k] = plcLog[i]
            BY <1>8, <1>14, <4>1, <5>1
          <5> QED
            BY <5>2
        <4>3. CASE k > n
          <5>1. n \in 1..m /\ n < k
            BY <1>3, <1>18, <4>3
          <5>2. g[n] < i /\ g[n] \in 1..N
            BY <1>8, <4>1, <5>1
          <5>3. plcLog[g[n]].at <= plcLog[i].at
            BY <1>7, <5>2
          <5>4. plcLog[g[n]].at = after
            BY <1>8, <2>1
          <5>5. plcLog[i].at = after
            BY <1>5, <2>2, <2>5, <5>3, <5>4
          <5> QED
            BY <2>7, <5>5
        <4> QED
          BY <1>3, <4>1, <4>2, <4>3
      <3> QED
        BY <1>2, <1>5, <3>1, <3>2
    <2>6. SeenUpto(after, q, ends)
      <3>1. after # 0 => after \in ends /\ \E j \in 1..(L + n) : q[j].at = after
        BY <2>1, <2>4, <2>7
      <3> QED
        BY <1>4, <1>14, <1>15, <1>16, <2>3, <2>5, <3>1 DEF SeenUpto
    <2> QED
      BY <1>1, <1>13, <1>14, <2>2, <2>6, <2>7
  <1> QED
    BY <1>3, <1>17, <1>18

\* A check reads the chain and writes down what it would override.
LEMMA CheckOpInv == ASSUME PlcInv, NEW o \in PlcOps, CheckOp(o) PROVE PlcInv'
  <1>1. PlcTypeOK /\ InsertedOnce /\ SeenUpto(page.after, page.seen, page.ends) /\ (~plcOverlap => OneChain)
    BY DEF PlcInv
  <1>2. plcLog' = plcLog /\ plcTime' = plcTime /\ page' = page /\ plcCall[o].at = "none"
    BY DEF CheckOp
  <1>3. PICK v : /\ plcCall' = [plcCall EXCEPT ![o] = v]
                 /\ v.at = "checked" /\ (o.type = "create" \/ ValidatePrevChain(o, plcLog))
                 /\ v.after = {plcLog[j].op.id : j \in Behind(o.prev)}
    <2>1. PICK current : current = CurrentOps(plcLog)
      OBVIOUS
    <2>2. PICK S : S = Overridden(current, o.prev)
      OBVIOUS
    <2>3. S = {plcLog[j].op.id : j \in Behind(o.prev)}
      BY <1>1, <2>1, <2>2, AfterIsBehind
    <2>4. plcCall' = [plcCall EXCEPT ![o] = [at |-> "checked", after |-> S]]
      BY <2>1, <2>2 DEF CheckOp, Overridden
    <2>5. PICK v : v = [at |-> "checked", after |-> S]
      OBVIOUS
    <2>6. plcCall' = [plcCall EXCEPT ![o] = v]
      BY <2>4, <2>5, Zenon
    <2>7. v.at = "checked" /\ v.after = S
      BY <2>5
    <2>8. o.type = "create" \/ ValidatePrevChain(o, plcLog)
      BY DEF CheckOp
    <2> QED
      BY <2>3, <2>6, <2>7, <2>8, Zenon
  <1>4. /\ plcCall' = [q \in PlcOps |-> plcCall'[q]] /\ plcCall'[o] = v
        /\ \A q \in PlcOps \ {o} : plcCall'[q] = plcCall[q]
    BY <1>1, <1>3 DEF PlcTypeOK
  <1>5. PlcTypeOK'
    BY <1>1, <1>2, <1>4 DEF PlcTypeOK
  <1>6. InsertedOnce'
    <2>1. \A i \in 1..Len(plcLog) : plcLog[i].op \in PlcOps
      <3>1. \A i \in 1..Len(plcLog) : plcLog[i] \in PlcEntries
        BY <1>1 DEF PlcTypeOK
      <3> QED
        BY <3>1 DEF PlcEntries
    <2>2. \A i \in 1..Len(plcLog) : plcCall'[plcLog[i].op].at = "done"
      BY <1>1, <1>2, <1>4, <2>1 DEF InsertedOnce
    <2> QED
      BY <1>1, <1>2, <2>2 DEF InsertedOnce, InOrder
  <1>7. SeenUpto(page.after, page.seen, page.ends)'
    BY <1>1, <1>2 DEF SeenUpto, InOrder
  <1>8. ASSUME ~plcOverlap' PROVE OneChain'
    <2>1. OneChain /\ \A q \in PlcOps : ~PlcUnderway(q)
      BY <1>1, <1>8 DEF CheckOp
    <2>2. CurrentIn(plcLog)' = CurrentIn(plcLog) /\ \A id : Behind(id)' = Behind(id)
      BY <1>2 DEF CurrentIn, Behind
    <2>3. \A i \in CurrentIn(plcLog)' : Linked(i)'
      BY <1>2, <2>1, <2>2 DEF OneChain, Linked
    <2>4. \A q \in PlcOps : PlcUnderway(q)' => q = o
      BY <1>3, <1>4, <2>1 DEF PlcUnderway
    <2>5. StillFits(o)'
      <3> SUFFICES ASSUME o.type # "create"
                   PROVE  IF o.prev = 0 THEN plcLog = <<>>
                          ELSE \E k \in CurrentIn(plcLog) : plcLog[k].op.id = o.prev
        BY <1>2, <1>3, <1>4, <2>2 DEF StillFits
      <3>1. ValidatePrevChain(o, plcLog)
        BY <1>3
      <3> QED
        BY <3>1 DEF ValidatePrevChain, CurrentIn
    <2>6. \A q \in PlcOps : plcCall'[q].at = "checked" => q = o
      BY <2>1, <1>4 DEF PlcUnderway
    <2>7. v.after = {plcLog[j].op.id : j \in Behind(o.prev)}
      BY <1>3
    <2>8. \A q \in PlcOps : plcCall'[q].at = "checked" =>
              plcCall'[q].after = {plcLog'[j].op.id : j \in Behind(q.prev)'}
      BY <1>2, <1>4, <2>2, <2>6, <2>7
    <2> QED
      BY <2>3, <2>4, <2>5, <2>8 DEF OneChain
  <1> QED
    BY <1>5, <1>6, <1>7, <1>8 DEF PlcInv

\* Operations of entries differ, so their ids do.
LEMMA IdsDiffer ==
    ASSUME PlcTypeOK, InsertedOnce
    PROVE  \A i, j \in 1..Len(plcLog) : plcLog[i].op.id = plcLog[j].op.id => i = j
  <1>1. \A i \in 1..Len(plcLog) : plcLog[i] \in PlcEntries
    BY DEF PlcTypeOK
  <1>2. \A i \in 1..Len(plcLog) : plcLog[i].op \in PlcOps
    BY <1>1 DEF PlcEntries
  <1> SUFFICES ASSUME NEW i \in 1..Len(plcLog), NEW j \in 1..Len(plcLog),
                      plcLog[i].op.id = plcLog[j].op.id, i # j
               PROVE  FALSE
    OBVIOUS
  <1>3. plcLog[i].op = plcLog[j].op
    BY <1>2, PlcAssumption
  <1>4. i < j \/ j < i
    BY DEF PlcTypeOK
  <1> QED
    BY <1>3, <1>4 DEF InsertedOnce, InOrder

\* Nullifying what follows a current entry keeps the rest one chain.
LEMMA NullifyOpsInv == ASSUME PlcInv, NEW o \in PlcOps, NullifyOps(o) PROVE PlcInv'
  <1>1. PlcTypeOK /\ InsertedOnce /\ SeenUpto(page.after, page.seen, page.ends) /\ (~plcOverlap => OneChain)
    BY DEF PlcInv
  <1>2. /\ plcTime' = plcTime /\ page' = page /\ plcOverlap' = plcOverlap
        /\ plcCall[o].at = "checked" /\ plcCall' = [plcCall EXCEPT ![o] = [at |-> "nullified"]]
    BY DEF NullifyOps
  <1>3. PICK G : /\ plcLog' = [i \in DOMAIN plcLog |->
                        IF plcLog[i].op.id \in G THEN [plcLog[i] EXCEPT !.nullified = TRUE] ELSE plcLog[i]]
                 /\ G = {} \/ (o.type = "plc_operation" /\ o.prev # 0 /\ G = plcCall[o].after)
                 /\ IsUpdate(o) => G = plcCall[o].after
    <2>1. PICK G : G = IF o.type = "plc_operation" /\ o.prev # 0 THEN plcCall[o].after ELSE {}
      OBVIOUS
    <2>2. plcLog' = [i \in DOMAIN plcLog |->
              IF plcLog[i].op.id \in G THEN [plcLog[i] EXCEPT !.nullified = TRUE] ELSE plcLog[i]]
      BY <2>1 DEF NullifyOps
    <2> QED
      BY <2>1, <2>2 DEF IsUpdate
  <1>4. PICK N \in Nat : N = Len(plcLog) /\ DOMAIN plcLog = 1..N
    BY <1>1 DEF PlcTypeOK
  <1>5. \A i \in 1..N : plcLog[i] \in PlcEntries
    BY <1>1, <1>4 DEF PlcTypeOK
  <1>6. \A i \in 1..N : /\ plcLog'[i] \in PlcEntries
                        /\ plcLog'[i].op = plcLog[i].op /\ plcLog'[i].at = plcLog[i].at
                        /\ plcLog'[i].nullified = (plcLog[i].nullified \/ plcLog[i].op.id \in G)
    <2> TAKE i \in 1..N
    <2>1. PICK e \in PlcEntries : e = plcLog[i]
      BY <1>5
    <2>2. plcLog'[i] = IF e.op.id \in G THEN [e EXCEPT !.nullified = TRUE] ELSE e
      BY <1>3, <1>4, <2>1
    <2>3. PICK f : f = [e EXCEPT !.nullified = TRUE]
      OBVIOUS
    <2>4. f \in PlcEntries /\ f.op = e.op /\ f.at = e.at /\ f.nullified = TRUE /\ e.nullified \in BOOLEAN
      BY <2>1, <2>3 DEF PlcEntries
    <2> QED
      BY <2>1, <2>2, <2>3, <2>4
  <1>7. plcLog' \in Seq(PlcEntries) /\ Len(plcLog') = N /\ DOMAIN plcLog' = 1..N
    <2>1. plcLog' = [i \in 1..N |-> plcLog'[i]]
      BY <1>3, <1>4
    <2> QED
      BY <1>4, <1>6, <2>1
  <1>8. /\ plcCall' = [q \in PlcOps |-> plcCall'[q]] /\ plcCall'[o].at = "nullified"
        /\ \A q \in PlcOps \ {o} : plcCall'[q] = plcCall[q]
    BY <1>1, <1>2 DEF PlcTypeOK
  <1>9. PlcTypeOK'
    BY <1>1, <1>2, <1>7, <1>8 DEF PlcTypeOK
  <1>10. InsertedOnce'
    <2>1. \A i \in 1..N : plcLog[i].op \in PlcOps
      BY <1>5 DEF PlcEntries
    <2>2. \A i \in 1..N : plcCall'[plcLog[i].op].at = "done"
      BY <1>1, <1>2, <1>4, <1>8, <2>1 DEF InsertedOnce
    <2>3. InOrder(plcLog)'
      BY <1>1, <1>4, <1>6, <1>7 DEF InsertedOnce, InOrder
    <2>4. \A i \in 1..N : plcLog'[i].at > 0 /\ plcLog'[i].at <= plcTime' + 1
      BY <1>1, <1>2, <1>4, <1>6 DEF InsertedOnce
    <2> QED
      BY <1>6, <1>7, <2>2, <2>3, <2>4 DEF InsertedOnce
  <1>11. SeenUpto(page.after, page.seen, page.ends)'
    <2>1. PICK s, a, e : /\ s = page.seen /\ a = page.after /\ e = page.ends
                         /\ s = page'.seen /\ a = page'.after /\ e = page'.ends
      BY <1>2
    <2>2. SeenUpto(a, s, e)
      BY <1>1, <2>1
    <2>3. SeenUpto(a, s, e)'
      BY <1>4, <1>6, <1>7, <2>2 DEF SeenUpto
    <2> QED
      BY <2>1, <2>3
  <1>12. ASSUME ~plcOverlap' PROVE OneChain'
    <2>1. OneChain /\ PlcUnderway(o)
      BY <1>1, <1>2, <1>12 DEF PlcUnderway
    <2>2. PICK I : I = CurrentIn(plcLog) /\ I \in SUBSET (1..N)
      BY <1>4 DEF CurrentIn
    <2>3. PICK J : J = CurrentIn(plcLog)' /\ J = {i \in I : plcLog[i].op.id \notin G}
      BY <1>4, <1>6, <1>7, <2>2 DEF CurrentIn
    <2>4. G = {} \/ (o.type = "plc_operation" /\ o.prev # 0 /\ G = {plcLog[j].op.id : j \in Behind(o.prev)})
      BY <1>2, <1>3, <2>1 DEF OneChain
    <2>5. \A i, k \in I : k < i /\ plcLog[k].op.id \in G => plcLog[i].op.id \in G
      <3> SUFFICES ASSUME NEW i \in I, NEW k \in I, k < i, plcLog[k].op.id \in G
                   PROVE  plcLog[i].op.id \in G
        OBVIOUS
      <3>1. PICK j \in Behind(o.prev) : plcLog[k].op.id = plcLog[j].op.id
        BY <2>4
      <3>2. PICK l \in I : j \in I /\ l < j /\ plcLog[l].op.id = o.prev
        BY <2>2, <3>1 DEF Behind
      <3>3. j = k
        BY <1>1, <1>4, <2>2, <3>1, <3>2, IdsDiffer
      <3>4. l < i
        BY <1>4, <2>2, <3>2, <3>3
      <3>5. i \in Behind(o.prev)
        BY <2>2, <3>2, <3>4 DEF Behind
      <3> QED
        BY <2>4, <3>1, <3>5
    <2>6. \A i \in J : Linked(i)'
      <3> SUFFICES ASSUME NEW i \in J, plcLog[i].op.type # "create"
                   PROVE  IF plcLog[i].op.prev = 0 THEN \A k \in J : i <= k
                          ELSE \E k \in J : /\ k < i /\ plcLog[k].op.id = plcLog[i].op.prev
                                            /\ IsUpdate(plcLog[i].op) => \A l \in J : l <= k \/ i <= l
        BY <1>6, <2>2, <2>3 DEF Linked
      <3>1. Linked(i)
        BY <2>1, <2>2, <2>3 DEF OneChain
      <3>2. CASE plcLog[i].op.prev = 0
        BY <2>2, <2>3, <3>1, <3>2 DEF Linked
      <3>3. CASE plcLog[i].op.prev # 0
        <4>1. PICK k \in I : /\ k < i /\ plcLog[k].op.id = plcLog[i].op.prev
                             /\ IsUpdate(plcLog[i].op) => \A l \in I : l <= k \/ i <= l
          BY <2>2, <3>1, <3>3 DEF Linked
        <4>2. k \in J /\ \A l \in J : l \in I
          BY <2>3, <2>5, <4>1
        <4> QED
          BY <3>3, <4>1, <4>2
      <3> QED
        BY <3>2, <3>3
    <2>7. StillFits(o)'
      <3> SUFFICES ASSUME o.type # "create"
                   PROVE  IF o.prev = 0 THEN plcLog' = <<>>
                          ELSE \E k \in J : /\ plcLog'[k].op.id = o.prev
                                            /\ IsUpdate(o) => \A l \in J : l <= k
        BY <2>3 DEF StillFits
      <3>1. StillFits(o)
        BY <2>1 DEF OneChain
      <3>2. CASE o.prev = 0
        <4>1. plcLog = <<>>
          BY <3>1, <3>2 DEF StillFits
        <4>2. N = 0
          BY <1>4, <4>1
        <4> QED
          BY <1>7, <3>2, <4>2
      <3>3. CASE o.prev # 0
        <4>1. PICK k \in I : plcLog[k].op.id = o.prev
          BY <2>2, <3>1, <3>3 DEF StillFits
        <4>2. plcLog[k].op.id \notin G
          <5> SUFFICES ASSUME plcLog[k].op.id \in G PROVE FALSE
            OBVIOUS
          <5>1. PICK j \in Behind(o.prev) : plcLog[j].op.id = plcLog[k].op.id
            BY <2>4
          <5>2. PICK l \in I : j \in I /\ l < j /\ plcLog[l].op.id = o.prev
            BY <2>2, <5>1 DEF Behind
          <5>3. l = k /\ j = k
            BY <1>1, <1>4, <2>2, <4>1, <5>1, <5>2, IdsDiffer
          <5> QED
            BY <1>4, <2>2, <5>2, <5>3
        <4>3. k \in J /\ plcLog'[k].op.id = o.prev
          BY <1>6, <2>2, <2>3, <4>1, <4>2
        <4>4. ASSUME IsUpdate(o), NEW l \in J PROVE l <= k
          <5>1. G = plcCall[o].after
            BY <1>3, <4>4
          <5>2. G = {plcLog[j].op.id : j \in Behind(o.prev)}
            BY <1>2, <2>1, <5>1 DEF OneChain
          <5>3. l \in I /\ plcLog[l].op.id \notin G /\ l \in 1..N /\ k \in 1..N
            BY <2>2, <2>3, <4>1
          <5>4. ~(k < l)
            <6> SUFFICES ASSUME k < l PROVE FALSE
              OBVIOUS
            <6>1. l \in Behind(o.prev)
              BY <2>2, <4>1, <5>3 DEF Behind
            <6> QED
              BY <5>2, <5>3, <6>1
          <5> QED
            BY <1>4, <5>3, <5>4
        <4> QED
          BY <3>3, <4>3, <4>4
      <3> QED
        BY <3>2, <3>3
    <2>8. \A q \in PlcOps : PlcUnderway(q)' => q = o
      BY <1>8, <2>1 DEF OneChain, PlcUnderway
    <2>9. \A q \in PlcOps : plcCall'[q].at # "checked"
      BY <1>8, <2>8 DEF PlcUnderway
    <2> QED
      BY <2>3, <2>6, <2>7, <2>8, <2>9 DEF OneChain
  <1> QED
    BY <1>9, <1>10, <1>11, <1>12 DEF PlcInv

\* The operation appended follows the current entry it was checked against.
LEMMA InsertOpInv == ASSUME PlcInv, NEW o \in PlcOps, InsertOp(o) PROVE PlcInv'
  <1>1. PlcTypeOK /\ InsertedOnce /\ SeenUpto(page.after, page.seen, page.ends) /\ (~plcOverlap => OneChain)
    BY DEF PlcInv
  <1>2. /\ plcTime' = plcTime /\ page' = page /\ plcOverlap' = plcOverlap
        /\ plcCall[o].at = "nullified" /\ plcCall' = [plcCall EXCEPT ![o] = [at |-> "done"]]
    BY DEF InsertOp
  <1>3. PICK e : e = [op |-> o, nullified |-> FALSE, at |-> plcTime + 1] /\ plcLog' = Append(plcLog, e)
    BY DEF InsertOp
  <1>4. PICK N \in Nat : N = Len(plcLog) /\ DOMAIN plcLog = 1..N
    BY <1>1 DEF PlcTypeOK
  <1>5. plcTime \in Nat /\ e \in PlcEntries /\ e.op = o /\ e.nullified = FALSE /\ e.at = plcTime + 1
    BY <1>1, <1>3 DEF PlcTypeOK, PlcEntries
  <1>6. \A i \in 1..N : plcLog[i] \in PlcEntries
    BY <1>1, <1>4 DEF PlcTypeOK
  <1>7. /\ plcLog' \in Seq(PlcEntries) /\ Len(plcLog') = N + 1 /\ DOMAIN plcLog' = 1..(N + 1)
        /\ plcLog'[N + 1] = e
        /\ \A i \in 1..N : plcLog'[i] = plcLog[i]
    <2>1. plcLog \in Seq(PlcEntries)
      BY <1>1 DEF PlcTypeOK
    <2> QED
      BY <1>3, <1>4, <1>5, <2>1, AppendProperties
  <1>8. /\ plcCall' = [q \in PlcOps |-> plcCall'[q]] /\ plcCall'[o].at = "done"
        /\ \A q \in PlcOps \ {o} : plcCall'[q] = plcCall[q]
    BY <1>1, <1>2 DEF PlcTypeOK
  <1>9. PlcTypeOK'
    BY <1>1, <1>2, <1>7, <1>8 DEF PlcTypeOK
  <1>10. \A i \in 1..N : /\ plcLog[i].op \in PlcOps /\ plcLog[i].op # o /\ plcLog[i].at \in Nat
                         /\ plcLog[i].at > 0 /\ plcLog[i].at <= plcTime + 1
                         /\ plcCall[plcLog[i].op].at = "done"
    BY <1>1, <1>2, <1>4, <1>6 DEF InsertedOnce, PlcEntries
  <1>11. \A i, j \in 1..N : i < j => plcLog[i].op # plcLog[j].op /\ plcLog[i].at <= plcLog[j].at
    BY <1>1, <1>4 DEF InsertedOnce, InOrder
  <1>12. InsertedOnce'
    <2>1. InOrder(plcLog)'
      <3> SUFFICES ASSUME NEW i \in 1..(N + 1), NEW j \in 1..(N + 1), i < j
                   PROVE  plcLog'[i].op # plcLog'[j].op /\ plcLog'[i].at <= plcLog'[j].at
        BY <1>7 DEF InOrder
      <3>1. i \in 1..N /\ (j \in 1..N \/ j = N + 1)
        BY <1>4
      <3> QED
        <4>1. CASE j \in 1..N
          BY <1>7, <1>11, <3>1, <4>1
        <4>2. CASE j = N + 1
          <5>1. plcLog'[i] = plcLog[i] /\ plcLog'[j].op = o /\ plcLog'[j].at = plcTime + 1
            BY <1>5, <1>7, <3>1, <4>2
          <5>2. plcLog[i].op # o /\ plcLog[i].at <= plcTime + 1
            BY <1>10, <3>1
          <5> QED
            BY <5>1, <5>2
        <4> QED
          BY <3>1, <4>1, <4>2
    <2>2. \A i \in 1..(N + 1) : i \in 1..N \/ i = N + 1
      BY <1>4
    <2>3. \A i \in 1..(N + 1) : plcLog'[i].at > 0 /\ plcLog'[i].at <= plcTime' + 1
      BY <1>2, <1>5, <1>7, <1>10, <2>2
    <2>4. \A i \in 1..(N + 1) : plcCall'[plcLog'[i].op].at = "done"
      BY <1>5, <1>7, <1>8, <1>10, <2>2
    <2> QED
      BY <1>7, <2>1, <2>3, <2>4 DEF InsertedOnce
  <1>13. SeenUpto(page.after, page.seen, page.ends)'
    <2>1. PICK s, a, q : /\ s = page.seen /\ a = page.after /\ q = page.ends
                         /\ s = page'.seen /\ a = page'.after /\ q = page'.ends
      BY <1>2
    <2>2. SeenUpto(a, s, q) /\ a \in Nat
      BY <1>1, <2>1 DEF PlcTypeOK
    <2>3. a # 0 => a \in q /\ \E j \in 1..Len(s) : s[j].at = a
      BY <2>2 DEF SeenUpto
    <2>4. a <= plcTime + 1
      <3> SUFFICES ASSUME a # 0 PROVE a <= plcTime + 1
        BY <1>5
      <3>1. PICK j \in 1..Len(s) : s[j].at = a
        BY <2>3
      <3>2. PICK i \in 1..N : plcLog[i].at = a
        BY <1>4, <2>2, <3>1 DEF SeenUpto
      <3> QED
        BY <1>10, <3>2
    <2>5. \A j \in 1..Len(s) : \E i \in 1..(N + 1) : plcLog'[i].op = s[j].op /\ plcLog'[i].at = s[j].at
      <3> TAKE j \in 1..Len(s)
      <3>1. PICK i \in 1..N : plcLog[i].op = s[j].op /\ plcLog[i].at = s[j].at
        BY <1>4, <2>2 DEF SeenUpto
      <3>2. i \in 1..(N + 1) /\ plcLog'[i] = plcLog[i]
        BY <1>4, <1>7
      <3> QED
        BY <3>1, <3>2
    <2>6. \A i \in 1..(N + 1) : plcLog'[i].at <= a =>
              plcLog'[i].at \in q \/ \E j \in 1..Len(s) : s[j].op = plcLog'[i].op
      <3> SUFFICES ASSUME NEW i \in 1..(N + 1), plcLog'[i].at <= a
                   PROVE  plcLog'[i].at \in q \/ \E j \in 1..Len(s) : s[j].op = plcLog'[i].op
        OBVIOUS
      <3>1. CASE i \in 1..N
        <4>1. plcLog'[i] = plcLog[i]
          BY <1>7, <3>1
        <4>2. \A k \in 1..N : plcLog[k].at <= a =>
                  plcLog[k].at \in q \/ \E j \in 1..Len(s) : s[j].op = plcLog[k].op
          BY <1>4, <2>2 DEF SeenUpto
        <4>3. plcLog[i].at <= a =>
                  plcLog[i].at \in q \/ \E j \in 1..Len(s) : s[j].op = plcLog[i].op
          BY <3>1, <4>2
        <4> QED
          BY <4>1, <4>3
      <3>2. CASE i = N + 1
        <4>1. a = plcTime + 1 /\ plcLog'[i].at = a
          BY <1>5, <1>7, <2>2, <2>4, <3>2
        <4>2. a # 0
          BY <1>5, <4>1
        <4> QED
          BY <2>3, <4>1, <4>2
      <3> QED
        BY <1>4, <3>1, <3>2
    <2>7. SeenUpto(a, s, q)'
      BY <1>7, <2>2, <2>3, <2>5, <2>6 DEF SeenUpto, InOrder
    <2> QED
      BY <2>1, <2>7
  <1>14. ASSUME ~plcOverlap' PROVE OneChain'
    <2>1. OneChain /\ PlcUnderway(o)
      BY <1>1, <1>2, <1>14 DEF PlcUnderway
    <2>2. PICK I : I = CurrentIn(plcLog) /\ I \in SUBSET (1..N)
      BY <1>4 DEF CurrentIn
    <2>3. PICK J : J = CurrentIn(plcLog)' /\ J = I \cup {N + 1}
      <3>1. \A i \in 1..(N + 1) : i \in 1..N \/ i = N + 1
        BY <1>4
      <3>2. N + 1 \in 1..(N + 1) /\ \A i \in 1..N : i \in 1..(N + 1)
        BY <1>4
      <3>3. CurrentIn(plcLog)' = {i \in 1..(N + 1) : ~plcLog'[i].nullified}
        BY <1>7 DEF CurrentIn
      <3>4. I = {i \in 1..N : ~plcLog[i].nullified}
        BY <1>4, <2>2 DEF CurrentIn
      <3> QED
        BY <1>5, <1>7, <3>1, <3>2, <3>3, <3>4
    <2>4. ASSUME NEW i \in I PROVE Linked(i)'
      <3> SUFFICES ASSUME plcLog[i].op.type # "create"
                   PROVE  IF plcLog[i].op.prev = 0 THEN \A k \in J : i <= k
                          ELSE \E k \in J : /\ k < i /\ plcLog'[k].op.id = plcLog[i].op.prev
                                            /\ IsUpdate(plcLog[i].op) => \A l \in J : l <= k \/ i <= l
        BY <1>7, <2>2, <2>3 DEF Linked
      <3>1. Linked(i) /\ i \in 1..N
        BY <2>1, <2>2 DEF OneChain
      <3>2. CASE plcLog[i].op.prev = 0
        <4>1. \A k \in I : i <= k
          BY <2>2, <3>1, <3>2 DEF Linked
        <4>2. i <= N + 1
          BY <1>4, <3>1
        <4> QED
          BY <2>3, <3>2, <4>1, <4>2
      <3>3. CASE plcLog[i].op.prev # 0
        <4>1. PICK k \in I : /\ k < i /\ plcLog[k].op.id = plcLog[i].op.prev
                             /\ IsUpdate(plcLog[i].op) => \A l \in I : l <= k \/ i <= l
          BY <2>2, <3>1, <3>3 DEF Linked
        <4>2. i <= N + 1 /\ k \in J /\ plcLog'[k] = plcLog[k]
          BY <1>4, <1>7, <2>2, <2>3, <3>1, <4>1
        <4> QED
          BY <2>3, <3>3, <4>1, <4>2
      <3> QED
        BY <3>2, <3>3
    <2>5. Linked(N + 1)'
      <3> SUFFICES ASSUME o.type # "create"
                   PROVE  IF o.prev = 0 THEN \A k \in J : N + 1 <= k
                          ELSE \E k \in J : /\ k < N + 1 /\ plcLog'[k].op.id = o.prev
                                            /\ IsUpdate(o) => \A l \in J : l <= k \/ N + 1 <= l
        BY <1>5, <1>7, <2>3 DEF Linked
      <3>1. StillFits(o)
        BY <2>1 DEF OneChain
      <3>2. CASE o.prev = 0
        <4>1. plcLog = <<>>
          BY <3>1, <3>2 DEF StillFits
        <4>2. N = 0
          BY <1>4, <4>1
        <4>3. J = {N + 1}
          BY <2>2, <2>3, <4>2
        <4> QED
          BY <1>4, <3>2, <4>3
      <3>3. CASE o.prev # 0
        <4>1. PICK k \in I : /\ plcLog[k].op.id = o.prev
                             /\ IsUpdate(o) => \A l \in I : l <= k
          BY <1>2, <2>2, <3>1, <3>3 DEF StillFits
        <4>2. k \in 1..N /\ k < N + 1 /\ N + 1 <= N + 1
          BY <1>4, <2>2
        <4>3. k \in J /\ plcLog'[k] = plcLog[k]
          BY <1>7, <2>3, <4>2
        <4> QED
          BY <2>3, <3>3, <4>1, <4>2, <4>3
      <3> QED
        BY <3>2, <3>3
    <2>6. \A i \in J : Linked(i)'
      BY <2>3, <2>4, <2>5
    <2>7. \A q \in PlcOps : ~PlcUnderway(q)'
      BY <1>8, <2>1 DEF OneChain, PlcUnderway
    <2>8. \A q \in PlcOps : plcCall'[q].at # "checked"
      BY <2>7 DEF PlcUnderway
    <2> QED
      BY <2>3, <2>6, <2>7, <2>8 DEF OneChain
  <1> QED
    BY <1>9, <1>12, <1>13, <1>14 DEF PlcInv

\* Every step keeps the invariant.
LEMMA PlcNextInv == PlcInv /\ [PlcNext]_plcVars => PlcInv'
  <1> SUFFICES ASSUME PlcInv, [PlcNext]_plcVars PROVE PlcInv'
    OBVIOUS
  <1>1. PlcTypeOK /\ InsertedOnce /\ SeenUpto(page.after, page.seen, page.ends) /\ (~plcOverlap => OneChain)
    BY DEF PlcInv
  <1>2. ASSUME NEW o \in PlcOps, CheckOp(o) PROVE PlcInv'
    BY <1>2, CheckOpInv
  <1>3. ASSUME NEW o \in PlcOps, NullifyOps(o) PROVE PlcInv'
    BY <1>3, NullifyOpsInv
  <1>4. ASSUME NEW o \in PlcOps, InsertOp(o) PROVE PlcInv'
    BY <1>4, InsertOpInv
  <1>5. ASSUME plcLog' = plcLog, plcCall' = plcCall, plcOverlap' = plcOverlap,
               plcTime' = plcTime \/ plcTime' = plcTime + 1
        PROVE  InsertedOnce' /\ (~plcOverlap' => OneChain')
    <2>1. PICK N \in Nat : N = Len(plcLog) /\ DOMAIN plcLog = 1..N
      BY <1>1 DEF PlcTypeOK
    <2>2. \A i \in 1..N : plcLog[i] \in PlcEntries
      BY <1>1, <2>1 DEF PlcTypeOK
    <2>3. plcTime \in Nat /\ \A i \in 1..N : plcLog[i].at \in Nat
      BY <1>1, <2>2 DEF PlcTypeOK, PlcEntries
    <2>4. \A i \in 1..N : plcLog[i].at > 0 /\ plcLog[i].at <= plcTime' + 1
      BY <1>1, <1>5, <2>1, <2>3 DEF InsertedOnce
    <2>5. InsertedOnce'
      BY <1>1, <1>5, <2>1, <2>4 DEF InsertedOnce, InOrder
    <2>6. CurrentIn(plcLog)' = CurrentIn(plcLog) /\ \A id : Behind(id)' = Behind(id)
      BY <1>5 DEF CurrentIn, Behind
    <2>7. ASSUME OneChain PROVE OneChain'
      BY <1>5, <2>6, <2>7 DEF OneChain, Linked, PlcUnderway, StillFits
    <2> QED
      BY <1>1, <1>5, <2>5, <2>7
  <1>6. CASE PlcTick
    <2>1. PlcTypeOK' /\ SeenUpto(page.after, page.seen, page.ends)'
      BY <1>1, <1>6 DEF PlcTick, PlcTypeOK, SeenUpto, InOrder
    <2>2. InsertedOnce' /\ (~plcOverlap' => OneChain')
      BY <1>5, <1>6 DEF PlcTick
    <2> QED
      BY <2>1, <2>2 DEF PlcInv
  <1>7. CASE ExportPage
    <2>1. page.after \in Nat /\ plcLog \in Seq(PlcEntries)
      BY <1>1 DEF PlcTypeOK
    <2>2. PICK p : p = NextPage(plcLog, page.after)
      OBVIOUS
    <2>3. PICK g, m, n : IsPage(p, plcLog, page.after, g, m, n)
      BY <2>1, <2>2, PageOf
    <2>5. PICK after, seen, ends : IsNext(p, after, seen, ends)
      BY DEF IsNext
    <2>12. PlcTypeOK /\ InsertedOnce /\ SeenUpto(page.after, page.seen, page.ends)
      BY <1>1
    <2>6. /\ after \in Nat /\ seen \in Seq(PlcEntries) /\ ends \in SUBSET Nat
          /\ SeenUpto(after, seen, ends)
      BY <2>3, <2>5, <2>12, PageIsSeen
    <2>7. /\ page' = [after |-> after, seen |-> seen, ends |-> ends, done |-> Len(p) < PageSize]
          /\ UNCHANGED <<plcLog, plcCall, plcOverlap, plcTime>>
      BY <1>7, <2>2, <2>5 DEF ExportPage, IsNext
    <2>8. page' \in [after : Nat, seen : Seq(PlcEntries), ends : SUBSET Nat, done : BOOLEAN]
          /\ page'.after = after /\ page'.seen = seen /\ page'.ends = ends
      BY <2>6, <2>7
    <2>9. PlcTypeOK'
      BY <1>1, <2>7, <2>8 DEF PlcTypeOK
    <2>10. SeenUpto(after, seen, ends)'
      BY <2>6, <2>7 DEF SeenUpto, InOrder
    <2>11. InsertedOnce' /\ (~plcOverlap' => OneChain')
      BY <1>5, <2>7
    <2> QED
      BY <2>8, <2>9, <2>10, <2>11 DEF PlcInv
  <1>8. CASE UNCHANGED plcVars
    <2>1. /\ plcLog' = plcLog /\ plcCall' = plcCall /\ plcOverlap' = plcOverlap
          /\ plcTime' = plcTime /\ page' = page
      BY <1>8 DEF plcVars
    <2>2. PlcTypeOK' /\ SeenUpto(page.after, page.seen, page.ends)'
      BY <1>1, <2>1 DEF PlcTypeOK, SeenUpto, InOrder
    <2>3. InsertedOnce' /\ (~plcOverlap' => OneChain')
      BY <1>5, <2>1
    <2> QED
      BY <2>2, <2>3 DEF PlcInv
  <1> QED
    BY <1>2, <1>3, <1>4, <1>6, <1>7, <1>8 DEF PlcNext

\* Links among the current entries are links in the current chain.
LEMMA ChainFromLinks == ASSUME PlcInv PROVE SerialChainIsConnected
  <1> SUFFICES ASSUME ~plcOverlap
               PROVE  \A j \in DOMAIN CurrentOps(plcLog) : CurrentOps(plcLog)[j].op.type # "create" =>
                          IF CurrentOps(plcLog)[j].op.prev = 0 THEN j = 1
                          ELSE \E i \in 1..(j - 1) :
                                   /\ CurrentOps(plcLog)[i].op.id = CurrentOps(plcLog)[j].op.prev
                                   /\ IsUpdate(CurrentOps(plcLog)[j].op) => i = j - 1
    BY DEF SerialChainIsConnected
  <1>1. PlcTypeOK /\ OneChain
    BY DEF PlcInv
  <1>2. PICK I : I = CurrentIn(plcLog)
    OBVIOUS
  <1>3. PICK c : c = CurrentOps(plcLog)
    OBVIOUS
  <1>4. PICK g, n : /\ n \in Nat /\ n = Cardinality(I) /\ Picks(g, I)
                    /\ c \in Seq(PlcEntries) /\ Len(c) = n
                    /\ \A k \in 1..n : c[k] = plcLog[g[k]]
    BY <1>1, <1>2, <1>3, CurrentPicks
  <1>5. /\ \A k \in 1..n : g[k] \in I
        /\ \A k, l \in 1..n : k < l => g[k] < g[l]
        /\ \A i \in I : \E k \in 1..n : g[k] = i
    BY <1>4 DEF Picks
  <1>6. I \in SUBSET Nat
    <2>1. DOMAIN plcLog \in SUBSET Nat
      BY <1>1 DEF PlcTypeOK
    <2> QED
      BY <1>2, <2>1 DEF CurrentIn
  <1>7. ASSUME NEW j \in 1..n, c[j].op.type # "create"
        PROVE  IF c[j].op.prev = 0 THEN j = 1
               ELSE \E i \in 1..(j - 1) : /\ c[i].op.id = c[j].op.prev
                                          /\ IsUpdate(c[j].op) => i = j - 1
    <2>1. g[j] \in I /\ c[j] = plcLog[g[j]] /\ Linked(g[j])
      BY <1>1, <1>2, <1>4, <1>5 DEF OneChain
    <2>2. CASE c[j].op.prev = 0
      <3>1. \A k \in I : g[j] <= k
        BY <1>2, <1>7, <2>1, <2>2 DEF Linked
      <3>2. 1 \in 1..n /\ (j = 1 \/ 1 < j)
        BY <1>4
      <3>3. g[1] \in I /\ g[j] <= g[1]
        BY <1>5, <3>1, <3>2
      <3>4. ~(g[1] < g[j])
        <4>1. PICK u, v \in Nat : u = g[1] /\ v = g[j]
          BY <1>6, <2>1, <3>3
        <4>2. v <= u
          BY <3>3, <4>1
        <4>3. ~(u < v)
          BY <4>2
        <4> QED
          BY <4>1, <4>3
      <3> QED
        BY <1>5, <2>2, <3>2, <3>4
    <2>3. CASE c[j].op.prev # 0
      <3>1. PICK k \in I : /\ k < g[j] /\ plcLog[k].op.id = c[j].op.prev
                           /\ IsUpdate(c[j].op) => \A l \in I : l <= k \/ g[j] <= l
        BY <1>2, <1>7, <2>1, <2>3 DEF Linked
      <3>2. PICK i \in 1..n : g[i] = k
        BY <1>5, <3>1
      <3>3. ~(j < i) /\ i # j
        <4>1. PICK u, v \in Nat : u = g[i] /\ v = g[j]
          BY <1>6, <2>1, <3>1, <3>2
        <4>2. u < v
          BY <3>1, <3>2, <4>1
        <4>3. ~(v < u) /\ u # v
          BY <4>2
        <4> QED
          BY <1>5, <3>2, <4>1, <4>3
      <3>4. i \in 1..(j - 1)
        BY <1>4, <3>3
      <3>5. ASSUME IsUpdate(c[j].op) PROVE i = j - 1
        <4> SUFFICES ASSUME i < j - 1 PROVE FALSE
          BY <1>4, <3>4
        <4>1. i + 1 \in 1..n /\ i < i + 1 /\ i + 1 < j
          BY <1>4, <3>2
        <4>2. PICK u, v, w \in Nat : u = k /\ v = g[i + 1] /\ w = g[j]
          BY <1>5, <1>6, <2>1, <3>1, <4>1
        <4>3. u < v /\ v < w
          BY <1>5, <3>2, <4>1, <4>2
        <4>4. v <= u \/ w <= v
          BY <1>5, <3>1, <3>5, <4>1, <4>2
        <4> QED
          BY <4>3, <4>4
      <3> QED
        BY <1>4, <2>3, <3>1, <3>2, <3>4, <3>5
    <2> QED
      BY <2>2, <2>3
  <1>8. DOMAIN c = 1..n
    BY <1>4
  <1>9. \A j \in DOMAIN c : c[j].op.type # "create" =>
            IF c[j].op.prev = 0 THEN j = 1
            ELSE \E i \in 1..(j - 1) : /\ c[i].op.id = c[j].op.prev
                                       /\ IsUpdate(c[j].op) => i = j - 1
    BY <1>7, <1>8
  <1> QED
    BY <1>3, <1>9, Zenon

\* Whatever operations come, and whenever pages are read: without an overlap the
\* updates of the current log form one chain through recoveries, tombstones and
\* legacy creates, and the paged export misses only ties with the end of a page.
THEOREM DirectoryHolds == PlcSpec => []DirectoryIsSound
  <1>1. PlcInv => DirectoryIsSound
    <2> SUFFICES ASSUME PlcInv PROVE DirectoryIsSound
      OBVIOUS
    <2>1. SerialChainIsConnected
      BY ChainFromLinks
    <2>2. PICK s : s = page.seen
      OBVIOUS
    <2>3. /\ SeenUpto(page.after, s, page.ends) /\ DOMAIN s = 1..Len(s) /\ DOMAIN plcLog = 1..Len(plcLog)
      BY <2>2 DEF PlcInv, PlcTypeOK
    <2>4. \A i, j \in DOMAIN s : i < j => s[i].op # s[j].op /\ s[i].at <= s[j].at
      BY <2>3 DEF SeenUpto, InOrder
    <2>5. \A i \in DOMAIN plcLog : plcLog[i].at <= page.after =>
              plcLog[i].at \in page.ends \/ \E j \in DOMAIN s : s[j].op = plcLog[i].op
      BY <2>3 DEF SeenUpto
    <2>6. ExportLosesOnlyTies
      BY <2>2, <2>4, <2>5 DEF ExportLosesOnlyTies
    <2> QED
      BY <2>1, <2>6 DEF DirectoryIsSound
  <1> QED
    BY <1>1, PlcInitInv, PlcNextInv, PTL DEF PlcSpec

-----------------------------------------------------------------------------
(* PackageStore: what is served for a version is one commit for good       *)

RequestStates == {"unsent", "cloning", "refused", "fetch", "ready", "resolved", "found", "answered", "lost"}
ReplyRecords == [from : {"nobody", "error", "jsr", "store"}, tag : Refs, files : Nat, meta : Nat,
                 versions : SUBSET {VersionOf[t] : t \in Tags}, proc : Nat]

PackTyped ==
    /\ remoteRefs \in [Refs -> Nat]
    /\ clone \in {"none", "partial", "whole"}
    /\ localRefs \in [Refs -> Nat]
    /\ discovery \in [Refs -> Nat]
    /\ request \in [Requests -> RequestStates]
    /\ found \in [Requests -> [tag : Refs, meta : Nat]]
    /\ reply \in [Requests -> ReplyRecords]
    /\ proc \in Nat \ {0}
    /\ sawTag \subseteq Requests

\* One request clones, and only into nothing; the clone has refs when it is
\* whole.
OneCloner ==
    /\ \A r \in Requests : request[r] = "cloning" =>
           clone = "partial" /\ \A q \in Requests : request[q] = "cloning" => q = r
    /\ clone # "whole" => \A x \in Refs : localRefs[x] = Absent

\* What the process read of a ref, or resolved, is what its clone has there.
ReadIsLocal ==
    /\ \A x \in Refs : discovery[x] \in {Absent, localRefs[x]}
    /\ \A r \in Requests : request[r] \in {"resolved", "found"} =>
           r.kind # "packageMeta" /\ found[r].tag \in TagsFor(r) /\ localRefs[found[r].tag] # Absent
    /\ \A r \in Requests : request[r] = "found" => found[r].meta = localRefs[found[r].tag]

\* An answer has one commit, that of the clone of its process; processes that
\* have ended agree with themselves.
ServedIsLocal ==
    /\ \A r \in Requests : reply[r].meta = reply[r].files
    /\ \A r \in Requests : reply[r].tag = NoTag => reply[r].files = Absent
    /\ \A r \in Requests : reply[r].tag # NoTag =>
           reply[r].proc <= proc /\ (reply[r].proc = proc => reply[r].files = localRefs[reply[r].tag] /\ reply[r].files # Absent)
    /\ \A r, q \in Requests :
         reply[r].proc = reply[q].proc /\ reply[r].tag = reply[q].tag => reply[r].files = reply[q].files

\* A request that could see its version has a tag of it in the clone, and was
\* not answered without it.
SeenIsThere ==
    \A r \in sawTag :
        /\ request[r] \in {"ready", "resolved", "found", "answered", "lost"}
        /\ request[r] = "ready" => \E t \in TagsFor(r) : localRefs[t] # Absent
        /\ request[r] = "answered" =>
              IF r.kind = "packageMeta" THEN \E t \in TagsFor(r) : VersionOf[t] \in reply[r].versions
              ELSE reply[r].files # Absent /\ reply[r].tag \in TagsFor(r)

PackInv == PackTyped /\ OneCloner /\ ReadIsLocal /\ ServedIsLocal /\ SeenIsThere

\* The tags of a request are refs, and no tag is the mark of its absence.
LEMMA TagsAreRefs == Tags \subseteq Refs /\ NoTag \in Refs /\ NoTag \notin Tags /\ \A r : TagsFor(r) \subseteq Tags
  BY StoreAssumption DEF Refs, NoTag, TagsFor

\* What stands for no answer, and for no tag yet, has its type.
LEMMA NoReplyTyped == NoReply \in ReplyRecords /\ NotFound \in [tag : Refs, meta : Nat]
  BY TagsAreRefs DEF NoReply, NotFound, ReplyRecords, Absent

\* The initial states satisfy the invariant.
LEMMA PackInitInv == StoreInit => PackInv
  <1> SUFFICES ASSUME StoreInit PROVE PackInv
    OBVIOUS
  <1> USE NoReplyTyped DEF StoreInit, Absent
  <1>1. PackTyped
    BY DEF PackTyped, RequestStates
  <1>2. OneCloner /\ ReadIsLocal /\ SeenIsThere
    BY DEF OneCloner, ReadIsLocal, SeenIsThere
  <1>3. ServedIsLocal
    BY DEF ServedIsLocal, NoReply
  <1> QED
    BY <1>1, <1>2, <1>3 DEF PackInv

\* An answer that serves nothing, or versions only.
Plain(a) == a \in ReplyRecords /\ a.tag = NoTag /\ a.files = Absent /\ a.meta = Absent

\* An exception is answered plainly.
LEMMA ThrowsIsPlain ==
    ASSUME PackTyped, NEW r \in Requests, Throws(r)
    PROVE  /\ request' = [request EXCEPT ![r] = "answered"]
           /\ \E a : Plain(a) /\ reply' = [reply EXCEPT ![r] = a]
  <1>1. PICK f \in {"error", "jsr"} : reply' = [reply EXCEPT ![r] = [NoReply EXCEPT !.from = f, !.proc = proc]]
    BY DEF Throws, Answers
  <1>2. PICK a : a = [NoReply EXCEPT !.from = f, !.proc = proc]
    OBVIOUS
  <1>3. Plain(a)
    BY <1>2, NoReplyTyped DEF Plain, ReplyRecords, NoReply, PackTyped
  <1> QED
    BY <1>1, <1>2, <1>3 DEF Throws, Goes

\* A plain answer keeps what was served.
LEMMA PlainKeeps ==
    ASSUME PackTyped, ServedIsLocal, NEW r \in Requests, NEW a, Plain(a), reply' = [reply EXCEPT ![r] = a],
           localRefs' \in [Refs -> Nat], \A x \in Refs : localRefs[x] # Absent => localRefs'[x] = localRefs[x],
           proc' = proc
    PROVE  reply' \in [Requests -> ReplyRecords] /\ ServedIsLocal'
  <1>1. reply' \in [Requests -> ReplyRecords] /\ reply'[r] = a /\ \A q \in Requests \ {r} : reply'[q] = reply[q]
    BY DEF PackTyped, Plain
  <1>2. \A q \in Requests : reply[q].tag \in Refs
    BY DEF PackTyped, ReplyRecords
  <1>3. \A q \in Requests : reply[q].tag = NoTag => reply[q].files = Absent
    BY DEF ServedIsLocal
  <1>4. /\ \A q \in Requests : reply'[q].meta = reply'[q].files
        /\ \A q \in Requests : reply'[q].tag = NoTag => reply'[q].files = Absent
        /\ \A q \in Requests : reply'[q].tag # NoTag => reply'[q].proc <= proc' /\ (reply'[q].proc = proc' =>
               reply'[q].files = localRefs'[reply'[q].tag] /\ reply'[q].files # Absent)
    BY <1>1, <1>2 DEF ServedIsLocal, Plain
  <1>5. \A p, q \in Requests :
           reply'[p].proc = reply'[q].proc /\ reply'[p].tag = reply'[q].tag => reply'[p].files = reply'[q].files
    BY <1>1, <1>3 DEF ServedIsLocal, Plain
  <1> QED
    BY <1>1, <1>4, <1>5 DEF ServedIsLocal

\* A clone or a fetch fills in refs that were absent, and touches no other.
LEMMA RefsFillIn ==
    ASSUME PackTyped, OneCloner, NEW r \in Requests, CloneEnds(r) \/ CloneRefused(r) \/ Fetch(r)
    PROVE  /\ localRefs' \in [Refs -> Nat]
           /\ \A x \in Refs : localRefs[x] # Absent => localRefs'[x] = localRefs[x]
           /\ clone' # "whole" => \A x \in Refs : localRefs'[x] = Absent
           /\ sawTag' \subseteq sawTag \cup {r}
           /\ r \in sawTag' /\ r \notin sawTag =>
                 request'[r] = "ready" /\ \E t \in TagsFor(r) : localRefs'[t] # Absent
  <1> USE TagsAreRefs DEF PackTyped
  <1>1. CASE CloneEnds(r)
    <2>1. request[r] = "cloning" /\ clone = "partial"
      BY <1>1 DEF CloneEnds, OneCloner
    <2>2. \A x \in Refs : localRefs[x] = Absent
      BY <2>1 DEF OneCloner
    <2>3. \/ /\ clone' = "whole" /\ localRefs' = remoteRefs /\ request' = [request EXCEPT ![r] = "ready"]
             /\ Sees(r)
          \/ clone' = "none" /\ localRefs' = localRefs /\ sawTag' = sawTag
      BY <1>1 DEF CloneEnds, Goes
    <2>4. CASE /\ clone' = "whole" /\ localRefs' = remoteRefs /\ request' = [request EXCEPT ![r] = "ready"]
               /\ Sees(r)
      BY <2>2, <2>4 DEF Sees
    <2> QED
      BY <2>2, <2>3, <2>4
  <1>2. CASE CloneRefused(r) \/ Fetch(r)
    <2>1. \/ localRefs' = FetchTags /\ clone = "whole" /\ Sees(r)
          \/ localRefs' = localRefs /\ sawTag' = sawTag
      BY <1>2 DEF CloneRefused, Fetch, Fetches
    <2>2. clone' = clone /\ (clone # "none" => request' = [request EXCEPT ![r] = "ready"])
      BY <1>2 DEF CloneRefused, Fetch, Goes
    <2>3. FetchTags \in [Refs -> Nat]
      BY DEF FetchTags
    <2>4. /\ \A x \in Refs : localRefs[x] # Absent => FetchTags[x] = localRefs[x]
          /\ \A x \in Tags : remoteRefs[x] # Absent => FetchTags[x] # Absent
      BY DEF FetchTags
    <2>5. CASE localRefs' = FetchTags /\ clone = "whole" /\ Sees(r)
      <3>1. request'[r] = "ready"
        BY <2>2, <2>5
      <3>2. r \in sawTag' /\ r \notin sawTag => \E t \in TagsFor(r) : remoteRefs[t] # Absent
        BY <2>5 DEF Sees
      <3>3. sawTag' \subseteq sawTag \cup {r}
        BY <2>5 DEF Sees
      <3> QED
        BY <2>2, <2>3, <2>4, <2>5, <3>1, <3>2, <3>3
    <2> QED
      BY <2>1, <2>2, <2>5 DEF OneCloner
  <1> QED
    BY <1>1, <1>2

\* Every step keeps the invariant.
LEMMA PackNextInv == PackInv /\ [StoreNext]_packageVars => PackInv'
  <1> SUFFICES ASSUME PackInv, [StoreNext]_packageVars PROVE PackInv'
    OBVIOUS
  <1> USE TagsAreRefs
  <1>t. PackTyped /\ OneCloner /\ ReadIsLocal /\ ServedIsLocal /\ SeenIsThere
    BY DEF PackInv
  <1>1. CASE Push \/ \E t \in Tags : PushTag(t)
    <2>1. remoteRefs' \in [Refs -> Nat]
      BY <1>1, <1>t DEF Push, PushTag, PackTyped, Newest, Refs
    <2>2. UNCHANGED <<clone, localRefs, discovery, request, found, reply, proc, sawTag>>
      BY <1>1 DEF Push, PushTag
    <2>3. PackTyped' /\ OneCloner'
      BY <1>t, <2>1, <2>2 DEF PackTyped, OneCloner
    <2>4. ReadIsLocal' /\ ServedIsLocal' /\ SeenIsThere'
      BY <1>t, <2>2 DEF ReadIsLocal, ServedIsLocal, SeenIsThere
    <2> QED
      BY <2>3, <2>4 DEF PackInv
  <1>2. ASSUME NEW r \in Requests, EnsureClone(r) PROVE PackInv'
    <2>1. /\ request[r] = "unsent"
          /\ \/ request' = [request EXCEPT ![r] = "fetch"] /\ clone' = clone
             \/ request' = [request EXCEPT ![r] = "refused"] /\ clone' = clone
             \/ request' = [request EXCEPT ![r] = "cloning"] /\ clone = "none" /\ clone' = "partial"
          /\ UNCHANGED <<remoteRefs, localRefs, discovery, found, reply, proc, sawTag>>
      BY <1>2 DEF EnsureClone, Goes
    <2>2. PackTyped'
      BY <1>t, <2>1 DEF PackTyped, RequestStates
    <2>3. OneCloner'
      BY <1>t, <2>1 DEF PackTyped, OneCloner
    <2>4. \A q \in Requests : request'[q] = request[q] \/ (q = r /\ request'[q] \in {"fetch", "refused", "cloning"})
      BY <1>t, <2>1 DEF PackTyped
    <2>5. r \notin sawTag
      BY <1>t, <2>1 DEF SeenIsThere
    <2>6. ReadIsLocal'
      BY <1>t, <2>1, <2>4 DEF ReadIsLocal
    <2>7. SeenIsThere'
      BY <1>t, <2>1, <2>4, <2>5 DEF PackTyped, SeenIsThere
    <2>8. ServedIsLocal'
      BY <1>t, <2>1 DEF ServedIsLocal
    <2> QED
      BY <2>2, <2>3, <2>6, <2>7, <2>8 DEF PackInv
  <1>3. ASSUME NEW r \in Requests, CloneEnds(r) \/ CloneRefused(r) \/ Fetch(r) PROVE PackInv'
    <2>1. /\ request[r] \in {"cloning", "refused", "fetch"}
          /\ \/ request' = [request EXCEPT ![r] = "ready"] /\ reply' = reply
             \/ request' = [request EXCEPT ![r] = "answered"] /\ \E a : Plain(a) /\ reply' = [reply EXCEPT ![r] = a]
          /\ UNCHANGED <<remoteRefs, discovery, found, proc>>
      BY <1>3, <1>t, ThrowsIsPlain DEF CloneEnds, CloneRefused, Fetch, Goes
    <2>2. \/ request[r] = "cloning" /\ clone' \in {"none", "whole"}
          \/ request[r] \in {"refused", "fetch"} /\ clone' = clone
      BY <1>3 DEF CloneEnds, CloneRefused, Fetch
    <2>3. /\ localRefs' \in [Refs -> Nat]
          /\ \A x \in Refs : localRefs[x] # Absent => localRefs'[x] = localRefs[x]
          /\ clone' # "whole" => \A x \in Refs : localRefs'[x] = Absent
          /\ sawTag' \subseteq sawTag \cup {r}
          /\ r \in sawTag' /\ r \notin sawTag =>
                request'[r] = "ready" /\ \E t \in TagsFor(r) : localRefs'[t] # Absent
      BY <1>3, <1>t, RefsFillIn
    <2>4. reply' \in [Requests -> ReplyRecords] /\ ServedIsLocal'
      <3>1. CASE reply' = reply
        <4>1. \A q \in Requests : reply[q].tag \in Refs
          BY <1>t DEF PackTyped, ReplyRecords
        <4> QED
          BY <1>t, <2>1, <2>3, <3>1, <4>1 DEF PackTyped, ServedIsLocal
      <3>2. ASSUME NEW a, Plain(a), reply' = [reply EXCEPT ![r] = a]
            PROVE  reply' \in [Requests -> ReplyRecords] /\ ServedIsLocal'
        BY <1>t, <2>1, <2>3, <3>2, PlainKeeps
      <3> QED
        BY <2>1, <3>1, <3>2
    <2>5. PackTyped'
      BY <1>t, <2>1, <2>2, <2>3, <2>4 DEF PackTyped, RequestStates
    <2>6. \A q \in Requests : q # r => request'[q] = request[q] /\ reply'[q] = reply[q]
      BY <1>t, <2>1 DEF PackTyped
    <2>7. request'[r] \in {"ready", "answered"} /\ r \notin sawTag
      BY <1>t, <2>1 DEF PackTyped, SeenIsThere
    <2>8. OneCloner'
      BY <1>t, <2>2, <2>3, <2>6, <2>7 DEF OneCloner
    <2>9. \A q \in Requests : found[q].tag \in Refs
      BY <1>t DEF PackTyped
    <2>10. ReadIsLocal'
      BY <1>t, <2>1, <2>3, <2>6, <2>7, <2>9 DEF ReadIsLocal, Absent
    <2>11. SeenIsThere'
      <3>1. ASSUME NEW q \in sawTag' PROVE
                /\ request'[q] \in {"ready", "resolved", "found", "answered", "lost"}
                /\ request'[q] = "ready" => \E t \in TagsFor(q) : localRefs'[t] # Absent
                /\ request'[q] = "answered" =>
                      IF q.kind = "packageMeta" THEN \E t \in TagsFor(q) : VersionOf[t] \in reply'[q].versions
                      ELSE reply'[q].files # Absent /\ reply'[q].tag \in TagsFor(q)
        <4>1. CASE q = r
          BY <2>3, <2>7, <4>1
        <4>2. CASE q # r
          <5>1. q \in sawTag /\ q \in Requests /\ request'[q] = request[q] /\ reply'[q] = reply[q]
            BY <1>t, <2>3, <2>6, <4>2 DEF PackTyped
          <5>2. request[q] = "ready" => \E t \in TagsFor(q) : localRefs'[t] # Absent
            BY <1>t, <2>3, <5>1 DEF SeenIsThere
          <5> QED
            BY <1>t, <5>1, <5>2 DEF SeenIsThere
        <4> QED
          BY <4>1, <4>2
      <3> QED
        BY <3>1 DEF SeenIsThere
    <2> QED
      BY <2>4, <2>5, <2>8, <2>10, <2>11 DEF PackInv
  <1>4. ASSUME NEW r \in Requests, ResolveTag(r) PROVE PackInv'
    <2>1. /\ request[r] = "ready" /\ r.kind # "packageMeta"
          /\ UNCHANGED <<remoteRefs, clone, localRefs, discovery, proc, sawTag>>
          /\ \/ (clone = "none" \/ TagsFor(r) \cap Listed = {}) /\ Throws(r) /\ found' = found
             \/ \E t \in TagsFor(r) \cap Listed :
                   found' = [found EXCEPT ![r].tag = t] /\ request' = [request EXCEPT ![r] = "resolved"] /\ reply' = reply
      BY <1>4 DEF ResolveTag, Goes, gitVars
    <2>2. CASE (clone = "none" \/ TagsFor(r) \cap Listed = {}) /\ Throws(r) /\ found' = found
      <3>1. r \notin sawTag
        BY <1>t, <2>1, <2>2 DEF SeenIsThere, OneCloner, Listed
      <3>2. PICK a : Plain(a) /\ reply' = [reply EXCEPT ![r] = a] /\ request' = [request EXCEPT ![r] = "answered"]
        BY <1>t, <2>2, ThrowsIsPlain
      <3>3. localRefs' \in [Refs -> Nat]
        BY <1>t, <2>1 DEF PackTyped
      <3>4. reply' \in [Requests -> ReplyRecords] /\ ServedIsLocal'
        BY <1>t, <2>1, <3>2, <3>3, PlainKeeps
      <3>5. PackTyped'
        BY <1>t, <2>1, <2>2, <3>2, <3>4 DEF PackTyped, RequestStates
      <3>6. \A q \in Requests : q # r => request'[q] = request[q] /\ reply'[q] = reply[q]
        BY <1>t, <3>2 DEF PackTyped
      <3>7. request'[r] = "answered"
        BY <1>t, <3>2 DEF PackTyped
      <3>8. OneCloner' /\ ReadIsLocal'
        BY <1>t, <2>1, <2>2, <3>6, <3>7 DEF OneCloner, ReadIsLocal
      <3>9. SeenIsThere'
        BY <1>t, <2>1, <3>1, <3>6 DEF PackTyped, SeenIsThere
      <3> QED
        BY <3>4, <3>5, <3>8, <3>9 DEF PackInv
    <2>3. ASSUME NEW t \in TagsFor(r) \cap Listed, found' = [found EXCEPT ![r].tag = t],
                 request' = [request EXCEPT ![r] = "resolved"], reply' = reply
          PROVE  PackInv'
      <3>1. t \in TagsFor(r) /\ t \in Refs /\ localRefs[t] # Absent
        BY <2>3 DEF Listed
      <3>2. /\ found' \in [Requests -> [tag : Refs, meta : Nat]] /\ found'[r].tag = t
            /\ \A q \in Requests : q # r => found'[q] = found[q]
        BY <1>t, <2>3, <3>1 DEF PackTyped
      <3>3. /\ request' \in [Requests -> RequestStates] /\ request'[r] = "resolved"
            /\ \A q \in Requests : q # r => request'[q] = request[q]
        BY <1>t, <2>3 DEF PackTyped, RequestStates
      <3>4. PackTyped'
        BY <1>t, <2>1, <2>3, <3>2, <3>3 DEF PackTyped
      <3>5. OneCloner' /\ ServedIsLocal'
        BY <1>t, <2>1, <2>3, <3>3 DEF OneCloner, ServedIsLocal
      <3>6. ReadIsLocal'
        BY <1>t, <2>1, <3>1, <3>2, <3>3 DEF ReadIsLocal
      <3>7. SeenIsThere'
        BY <1>t, <2>1, <2>3, <3>3 DEF PackTyped, SeenIsThere
      <3> QED
        BY <3>4, <3>5, <3>6, <3>7 DEF PackInv
    <2> QED
      BY <2>1, <2>2, <2>3
  <1>5. ASSUME NEW r \in Requests, GetDiscovery(r) PROVE PackInv'
    <2>0. PICK t : t = found[r].tag
      OBVIOUS
    <2>1. /\ request[r] = "resolved" /\ request' = [request EXCEPT ![r] = "found"]
          /\ discovery' = [discovery EXCEPT ![t] = IF @ = Absent THEN localRefs[t] ELSE @]
          /\ found' = [found EXCEPT ![r].meta = discovery'[t]]
          /\ UNCHANGED <<remoteRefs, clone, localRefs, reply, proc, sawTag>>
      BY <1>5, <2>0 DEF GetDiscovery, Goes, gitVars
    <2>2. t \in Refs /\ t \in TagsFor(r) /\ localRefs[t] # Absent
      BY <1>t, <2>0, <2>1 DEF PackTyped, ReadIsLocal
    <2>3. /\ discovery' \in [Refs -> Nat]
          /\ \A x \in Refs : discovery'[x] \in {Absent, localRefs[x]}
          /\ discovery'[t] = localRefs[t]
      BY <1>t, <2>1, <2>2 DEF PackTyped, ReadIsLocal
    <2>4. /\ found' \in [Requests -> [tag : Refs, meta : Nat]]
          /\ found'[r].tag = t /\ found'[r].meta = localRefs[t]
          /\ \A q \in Requests \ {r} : found'[q] = found[q]
      BY <1>t, <2>0, <2>1, <2>3 DEF PackTyped
    <2>5. /\ request' \in [Requests -> RequestStates] /\ request'[r] = "found"
          /\ \A q \in Requests \ {r} : request'[q] = request[q]
      BY <1>t, <2>1 DEF PackTyped, RequestStates
    <2>6. PackTyped'
      BY <1>t, <2>1, <2>3, <2>4, <2>5 DEF PackTyped
    <2>7. OneCloner' /\ ServedIsLocal'
      BY <1>t, <2>1, <2>5 DEF OneCloner, ServedIsLocal
    <2>8. ReadIsLocal'
      BY <1>t, <2>1, <2>2, <2>3, <2>4, <2>5 DEF ReadIsLocal
    <2>9. SeenIsThere'
      BY <1>t, <2>1, <2>5 DEF PackTyped, SeenIsThere
    <2> QED
      BY <2>6, <2>7, <2>8, <2>9 DEF PackInv
  <1>6. ASSUME NEW r \in Requests, BuildPackageVersion(r) PROVE PackInv'
    <2>0. PICK t : t = found[r].tag
      OBVIOUS
    <2>1. PICK a : a = [NoReply EXCEPT !.from = "store", !.tag = t, !.files = localRefs[t],
                                       !.meta = found[r].meta, !.proc = proc]
      OBVIOUS
    <2>2. /\ request[r] = "found" /\ request' = [request EXCEPT ![r] = "answered"]
          /\ reply' = [reply EXCEPT ![r] = a]
          /\ found' = [found EXCEPT ![r] = NotFound]
          /\ UNCHANGED <<remoteRefs, clone, localRefs, discovery, proc, sawTag>>
      BY <1>6, <2>0, <2>1 DEF BuildPackageVersion, Goes, Answers, gitVars
    <2>3. /\ found[r].meta = localRefs[t] /\ localRefs[t] # Absent /\ localRefs[t] \in Nat
          /\ t \in TagsFor(r) /\ t \in Tags /\ t \in Refs /\ t # NoTag
      BY <1>t, <2>0, <2>2 DEF ReadIsLocal, PackTyped
    <2>4. /\ a \in ReplyRecords /\ a.tag = t /\ a.files = localRefs[t] /\ a.meta = localRefs[t] /\ a.proc = proc
      BY <1>t, <2>1, <2>3, NoReplyTyped DEF ReplyRecords, NoReply, PackTyped
    <2>5. /\ reply' \in [Requests -> ReplyRecords] /\ reply'[r] = a
          /\ \A q \in Requests \ {r} : reply'[q] = reply[q]
      BY <1>t, <2>2, <2>4 DEF PackTyped
    <2>6. /\ request' \in [Requests -> RequestStates] /\ request'[r] = "answered"
          /\ \A q \in Requests \ {r} : request'[q] = request[q]
      BY <1>t, <2>2 DEF PackTyped, RequestStates
    <2>7. /\ found' \in [Requests -> [tag : Refs, meta : Nat]]
          /\ \A q \in Requests \ {r} : found'[q] = found[q]
      BY <1>t, <2>2, NoReplyTyped DEF PackTyped
    <2>8. PackTyped'
      BY <1>t, <2>2, <2>5, <2>6, <2>7 DEF PackTyped
    <2>9. OneCloner' /\ ReadIsLocal'
      BY <1>t, <2>2, <2>6, <2>7 DEF OneCloner, ReadIsLocal
    <2>10. ServedIsLocal'
      <3>1. /\ \A q \in Requests : reply'[q].meta = reply'[q].files
            /\ \A q \in Requests : reply'[q].tag = NoTag => reply'[q].files = Absent
            /\ \A q \in Requests : reply'[q].tag # NoTag => reply'[q].proc <= proc' /\ (reply'[q].proc = proc' =>
                   reply'[q].files = localRefs'[reply'[q].tag] /\ reply'[q].files # Absent)
        BY <1>t, <2>2, <2>3, <2>4, <2>5 DEF ServedIsLocal, PackTyped
      <3>2. \A p, q \in Requests :
               reply'[p].proc = reply'[q].proc /\ reply'[p].tag = reply'[q].tag => reply'[p].files = reply'[q].files
        BY <1>t, <2>2, <2>3, <2>4, <2>5 DEF ServedIsLocal
      <3> QED
        BY <3>1, <3>2 DEF ServedIsLocal
    <2>11. SeenIsThere'
      <3>1. r.kind # "packageMeta"
        BY <1>t, <2>2 DEF ReadIsLocal
      <3>2. reply'[r].files # Absent /\ reply'[r].tag \in TagsFor(r)
        BY <2>3, <2>4, <2>5
      <3>3. ASSUME NEW q \in sawTag PROVE
                /\ request'[q] \in {"ready", "resolved", "found", "answered", "lost"}
                /\ request'[q] = "ready" => \E u \in TagsFor(q) : localRefs[u] # Absent
                /\ request'[q] = "answered" =>
                      IF q.kind = "packageMeta" THEN \E u \in TagsFor(q) : VersionOf[u] \in reply'[q].versions
                      ELSE reply'[q].files # Absent /\ reply'[q].tag \in TagsFor(q)
        <4>1. CASE q = r
          BY <2>6, <3>1, <3>2, <4>1
        <4>2. CASE q # r
          <5>1. q \in Requests /\ request'[q] = request[q] /\ reply'[q] = reply[q]
            BY <1>t, <2>5, <2>6, <4>2 DEF PackTyped
          <5> QED
            BY <1>t, <5>1 DEF SeenIsThere
        <4> QED
          BY <4>1, <4>2
      <3> QED
        BY <2>2, <3>3 DEF SeenIsThere
    <2> QED
      BY <2>8, <2>9, <2>10, <2>11 DEF PackInv
  <1>7. ASSUME NEW r \in Requests, ListPackages(r) PROVE PackInv'
    <2>1. /\ request[r] = "ready" /\ r.kind = "packageMeta" /\ request' = [request EXCEPT ![r] = "answered"]
          /\ discovery' = [x \in Refs |-> IF discovery[x] = Absent THEN localRefs[x] ELSE discovery[x]]
          /\ UNCHANGED <<remoteRefs, clone, localRefs, found, proc, sawTag>>
      BY <1>7 DEF ListPackages, Throws, Goes, gitVars
    <2>2. PICK a : /\ Plain(a) /\ reply' = [reply EXCEPT ![r] = a]
                   /\ \/ clone = "none" \/ Listed \cap Tags = {}
                      \/ a.versions = {VersionOf[t] : t \in Listed \cap Tags}
      <3>1. CASE clone = "none" \/ Listed \cap Tags = {}
        BY <1>7, <1>t, <3>1, ThrowsIsPlain DEF ListPackages
      <3>2. CASE ~(clone = "none" \/ Listed \cap Tags = {})
        <4>1. PICK V : V = {VersionOf[t] : t \in Listed \cap Tags}
          OBVIOUS
        <4>2. PICK a : a = [NoReply EXCEPT !.from = "store", !.versions = V, !.proc = proc]
          OBVIOUS
        <4>3. V \in SUBSET {VersionOf[t] : t \in Tags}
          BY <4>1
        <4>4. Plain(a) /\ a.versions = V
          BY <1>t, <4>2, <4>3, NoReplyTyped DEF Plain, ReplyRecords, NoReply, PackTyped
        <4>5. reply' = [reply EXCEPT ![r] = a]
          BY <1>7, <3>2, <4>1, <4>2 DEF ListPackages, Answers
        <4> QED
          BY <4>1, <4>4, <4>5
      <3> QED
        BY <3>1, <3>2
    <2>3. localRefs' \in [Refs -> Nat]
      BY <1>t, <2>1 DEF PackTyped
    <2>4. reply' \in [Requests -> ReplyRecords] /\ ServedIsLocal'
      BY <1>t, <2>1, <2>2, <2>3, PlainKeeps
    <2>5. /\ request' \in [Requests -> RequestStates] /\ request'[r] = "answered"
          /\ \A q \in Requests \ {r} : request'[q] = request[q] /\ reply'[q] = reply[q]
          /\ reply'[r] = a
      BY <1>t, <2>1, <2>2 DEF PackTyped, RequestStates
    <2>6. discovery' \in [Refs -> Nat] /\ \A x \in Refs : discovery'[x] \in {Absent, localRefs[x]}
      BY <1>t, <2>1 DEF PackTyped, ReadIsLocal
    <2>7. PackTyped'
      BY <1>t, <2>1, <2>4, <2>5, <2>6 DEF PackTyped
    <2>8. OneCloner' /\ ReadIsLocal'
      BY <1>t, <2>1, <2>5, <2>6 DEF OneCloner, ReadIsLocal
    <2>9. r \in sawTag => \E t \in TagsFor(r) : VersionOf[t] \in reply'[r].versions
      <3>1. SUFFICES ASSUME r \in sawTag PROVE \E t \in TagsFor(r) : VersionOf[t] \in a.versions
        BY <2>5
      <3>2. PICK t \in TagsFor(r) : localRefs[t] # Absent
        BY <1>t, <2>1, <3>1 DEF SeenIsThere
      <3>3. t \in Listed \cap Tags /\ clone # "none"
        BY <1>t, <3>2 DEF Listed, OneCloner
      <3> QED
        BY <2>2, <3>2, <3>3
    <2>10. SeenIsThere'
      BY <1>t, <2>1, <2>5, <2>9 DEF PackTyped, SeenIsThere
    <2> QED
      BY <2>4, <2>7, <2>8, <2>10 DEF PackInv
  <1>8. CASE RestartStore
    <2>1. /\ proc' = proc + 1 /\ clone' = "none"
          /\ localRefs' = [x \in Refs |-> Absent] /\ discovery' = [x \in Refs |-> Absent]
          /\ found' = [r \in Requests |-> NotFound]
          /\ request' = [r \in Requests |-> IF request[r] \in {"unsent", "answered"} THEN request[r] ELSE "lost"]
          /\ UNCHANGED <<remoteRefs, reply, sawTag>>
      BY <1>8 DEF RestartStore
    <2>2. \A r \in Requests : /\ request'[r] \in {"unsent", "answered", "lost"}
                              /\ request'[r] # "lost" => request'[r] = request[r]
                              /\ request[r] = "answered" => request'[r] = "answered"
      BY <2>1
    <2>3. PackTyped'
      BY <1>t, <2>1, NoReplyTyped DEF PackTyped, RequestStates, Absent
    <2>4. OneCloner' /\ ReadIsLocal'
      BY <2>1, <2>2 DEF OneCloner, ReadIsLocal
    <2>5. \A r \in Requests : reply[r].tag # NoTag => reply[r].proc <= proc' /\ reply[r].proc # proc'
      BY <1>t, <2>1 DEF ServedIsLocal, PackTyped, ReplyRecords
    <2>6. ServedIsLocal'
      BY <1>t, <2>1, <2>5 DEF ServedIsLocal
    <2>7. SeenIsThere'
      BY <1>t, <2>1, <2>2 DEF PackTyped, SeenIsThere
    <2> QED
      BY <2>3, <2>4, <2>6, <2>7 DEF PackInv
  <1>9. CASE UNCHANGED packageVars
    <2>1. UNCHANGED <<remoteRefs, clone, localRefs, discovery, request, found, reply, proc, sawTag>>
      BY <1>9 DEF packageVars
    <2>2. PackTyped' /\ OneCloner'
      BY <1>t, <2>1 DEF PackTyped, OneCloner
    <2>3. ReadIsLocal' /\ ServedIsLocal' /\ SeenIsThere'
      BY <1>t, <2>1 DEF ReadIsLocal, ServedIsLocal, SeenIsThere
    <2> QED
      BY <2>2, <2>3 DEF PackInv
  <1> QED
    BY <1>1, <1>2, <1>3, <1>4, <1>5, <1>6, <1>7, <1>8, <1>9 DEF StoreNext

\* What a process of the registry serves for a tag is one commit, and a version
\* that was there when the request's clone or fetch looked is served, however
\* many requests race for the clone, wherever the remote's refs move, and
\* whichever of a version's tags arrive.
THEOREM StoreHolds == StoreSpec => []StoreIsSound
  <1>1. PackInv => StoreIsSound
    BY DEF PackInv, ServedIsLocal, SeenIsThere, StoreIsSound, ServedIsConsistent, PublishedTagIsServed
  <1> QED
    BY PackInitInv, PackNextInv, <1>1, PTL DEF StoreSpec

-----------------------------------------------------------------------------
(* PackageRoutes: the import map leads back to the registry                *)

\* The entry of a package names a version that could be read when it was made,
\* and the entry point of its tree.
LedBy(p, v) ==
    /\ madeFrom[p][v] \in Trees
    /\ p.scope # NoScope => importMap[p] = ImportUrl(p, v, Entry(madeFrom[p][v]))

RoutesInv ==
    /\ mapping = Idle \/ mapping \in Seq(Packages)
    /\ content \in [Packages -> [AllVersions -> Trees \cup {NoTree}]]
    /\ DOMAIN madeFrom \subseteq Packages \cap DOMAIN importMap
    /\ \A p \in DOMAIN madeFrom : \E v \in AllVersions : LedBy(p, v)

\* The elements of a finite set as a sequence.
LEMMA SetToSeqType == ASSUME NEW S, IsFiniteSet(S) PROVE SetToSeq(S) \in Seq(S)
  <1>1. PICK n \in Nat : n = Cardinality(S)
    BY FS_CardinalityType
  <1>2. \E f \in [1..n -> S] : IsInjective(f)
    <2>1. ExistsBijection(1..n, S)
      BY <1>1, FS_CardinalityType
    <2> QED
      BY <2>1 DEF ExistsBijection, Bijection, Injection
  <1>3. SetToSeq(S) \in [1..n -> S]
    BY <1>1, <1>2 DEF SetToSeq
  <1> QED
    BY <1>3

\* The first element of a sequence that is in a set.
LEMMA FirstIsIn ==
    ASSUME NEW T, NEW s \in Seq(T), NEW S
    PROVE  FirstOf(s, S) = <<>> \/ \E x \in S : FirstOf(s, S) = <<x>>
  <1> DEFINE I == {i \in 1..Len(s) : s[i] \in S}
  <1>1. CASE I = {}
    <2>1. SelectInSeq(s, LAMBDA x : x \in S) = 0
      BY <1>1 DEF SelectInSeq
    <2> QED
      BY <2>1 DEF FirstOf
  <1>2. CASE I # {}
    <2>1. I \in SUBSET (1..Len(s)) /\ Len(s) \in Nat
      OBVIOUS
    <2>2. PICK k \in I : k = Min(I)
      <3>1. PICK x \in I : \A y \in I : x <= y
        <4> HIDE DEF I
        <4> QED
          BY <1>2, <2>1, LeastOf
      <3> QED
        BY <3>1 DEF Min
    <2>3. SelectInSeq(s, LAMBDA x : x \in S) = k
      BY <1>2, <2>2 DEF SelectInSeq
    <2>4. k # 0 /\ s[k] \in S
      OBVIOUS
    <2>5. FirstOf(s, S) = <<s[k]>>
      BY <2>3, <2>4 DEF FirstOf
    <2> QED
      BY <2>4, <2>5
  <1> QED
    BY <1>1, <1>2

\* The version that is chosen was read, or get() threw.
LEMMA ChosenIsReadable ==
    ASSUME NEW p
    PROVE  ChosenVersion(p) = <<>> \/ \E v \in AllVersions :
               ChosenVersion(p) = <<v>> /\ (Readable(p, <<v>>) \/ GetThrows(<<v>>))
  <1> DEFINE notNull == {v \in AllVersions : Readable(p, <<v>>) \/ GetThrows(<<v>>)}
  <1>0. PICK S : S = notNull
    OBVIOUS
  <1>1. FirstOf(BranchVersions, snapshot[p] \cap S) = <<>>
          \/ \E v \in S : FirstOf(BranchVersions, snapshot[p] \cap S) = <<v>>
    BY RoutesAssumption, FirstIsIn
  <1>2. Reverse(Versions) \in Seq(STRING)
    BY RoutesAssumption DEF Reverse
  <1>3. LatestVersion(p) = <<>> \/ \E v : LatestVersion(p) = <<v>>
    BY <1>2, FirstIsIn DEF LatestVersion
  <1>4. FirstOf(BranchRefs, S) = <<>> \/ \E v \in S : FirstOf(BranchRefs, S) = <<v>>
    BY RoutesAssumption, FirstIsIn
  <1>5. ChosenVersion(p) = IF FirstOf(BranchVersions, snapshot[p] \cap S) # <<>>
                           THEN FirstOf(BranchVersions, snapshot[p] \cap S)
                           ELSE IF LatestVersion(p) # <<>> /\ LatestVersion(p)[1] \in S THEN LatestVersion(p)
                           ELSE FirstOf(BranchRefs, S)
    BY <1>0 DEF ChosenVersion
  <1>6. ChosenVersion(p) = <<>> \/ \E v \in S : ChosenVersion(p) = <<v>>
    <2>1. CASE FirstOf(BranchVersions, snapshot[p] \cap S) # <<>>
      BY <1>1, <1>5, <2>1
    <2>2. CASE FirstOf(BranchVersions, snapshot[p] \cap S) = <<>> /\ LatestVersion(p) # <<>> /\ LatestVersion(p)[1] \in S
      BY <1>3, <1>5, <2>2
    <2>3. CASE /\ FirstOf(BranchVersions, snapshot[p] \cap S) = <<>>
               /\ ~(LatestVersion(p) # <<>> /\ LatestVersion(p)[1] \in S)
      BY <1>4, <1>5, <2>3
    <2> QED
      BY <2>1, <2>2, <2>3
  <1> QED
    BY <1>0, <1>6

\* Three elements put together.
LEMMA ConcatThree == ASSUME NEW x, NEW y, NEW z PROVE <<x, y>> \o <<z>> = <<x, y, z>>
  <1> DEFINE T == {x, y, z}
  <1>1. <<x, y>> \in Seq(T) /\ <<z>> \in Seq(T) /\ Len(<<x, y>>) = 2 /\ Len(<<z>>) = 1
    OBVIOUS
  <1>2. PICK c : c = <<x, y>> \o <<z>>
    OBVIOUS
  <1>3. c \in Seq(T) /\ Len(c) = 3 /\ \A i \in 1..3 : c[i] = IF i <= 2 THEN <<x, y>>[i] ELSE <<z>>[i - 2]
    BY <1>1, <1>2, ConcatProperties
  <1>4. c[1] = x /\ c[2] = y /\ c[3] = z
    BY <1>3
  <1>5. c = <<x, y, z>>
    BY <1>3, <1>4
  <1> QED
    BY <1>2, <1>5

\* The segments of an address with a scope.
LEMMA UrlSegments ==
    ASSUME NEW p \in Packages, p.scope # NoScope, NEW v, NEW file
    PROVE  /\ file # NoFile =>
                  ImportUrl(p, v, file) = << <<"@">> \o p.scope, <<p.name, "@", v>>, <<file>> >>
           /\ file = NoFile => Len(ImportUrl(p, v, file)) = 2
  <1> DEFINE a == <<"@">> \o p.scope
             b == <<p.name, "@", v>>
             T == {a, b, <<file>>}
  <1>1. <<a, b>> \in Seq(T) /\ << <<file>> >> \in Seq(T) /\ <<>> \in Seq(T) /\ Len(<<a, b>>) = 2
    OBVIOUS
  <1>2. ImportUrl(p, v, file) = <<a, b>> \o (IF file = NoFile THEN <<>> ELSE << <<file>> >>)
    BY DEF ImportUrl
  <1> HIDE DEF a, b
  <1>3. <<a, b>> \o << <<file>> >> = <<a, b, <<file>> >>
    BY ConcatThree
  <1>4. <<a, b>> \o <<>> = <<a, b>>
    BY <1>1, ConcatEmptySeq
  <1> QED
    BY <1>1, <1>2, <1>3, <1>4 DEF a, b

\* The entry point of a tree is the name of a file.
LEMMA EntryIsNamed == ASSUME NEW tr \in Trees PROVE Entry(tr) # NoFile
  <1>1. tr.files \in Seq(STRING \ {NoFile}) /\ NoFile \notin {"mod.ts", "mod.js"}
    BY RoutesAssumption
  <1>2. tr.files # <<>> => tr.files[1] # NoFile
    BY <1>1
  <1> QED
    BY <1>1, <1>2 DEF Entry, AutoDetectEntry

\* What is left of a sequence after its first elements.
LEMMA FromOfThree ==
    ASSUME NEW x, NEW y, NEW z PROVE From(<<x, y, z>>, 3) = <<z>>
  <1> DEFINE T == {x, y, z}
  <1>0. PICK s : s = <<x, y, z>>
    OBVIOUS
  <1>1. s \in Seq(T) /\ Len(s) = 3 /\ s[3] = z
    BY <1>0
  <1>2. PICK u : u = SubSeq(s, 3, 3)
    OBVIOUS
  <1>3. u \in Seq(T) /\ Len(u) = 1 /\ u[1] = z
    <2>1. \A i \in 3..3 : s[i] \in T
      BY <1>1
    <2> QED
      BY <1>1, <1>2, <2>1, SubSeqProperties
  <1>4. u = <<z>>
    BY <1>3
  <1> QED
    BY <1>0, <1>1, <1>2, <1>4 DEF From

\* The segment of a scope.
LEMMA FromOfScope ==
    ASSUME NEW T, NEW s \in Seq(T), s # <<>>, NEW x
    PROVE  /\ From(<<x>> \o s, 2) = s
           /\ Len(<<x>> \o s) > 1 /\ (<<x>> \o s)[1] = x
  <1> DEFINE U == T \cup {x}
  <1>1. <<x>> \in Seq(U) /\ s \in Seq(U) /\ Len(<<x>>) = 1 /\ Len(s) \in Nat /\ Len(s) # 0
    OBVIOUS
  <1>2. PICK c : c = <<x>> \o s
    OBVIOUS
  <1>3. /\ c \in Seq(U) /\ Len(c) = Len(s) + 1
        /\ \A i \in 1..(Len(s) + 1) : c[i] = IF i <= 1 THEN <<x>>[i] ELSE s[i - 1]
    BY <1>1, <1>2, ConcatProperties
  <1>4. c[1] = x /\ \A i \in 1..Len(s) : c[i + 1] = s[i]
    BY <1>1, <1>3
  <1>5. PICK u : u = SubSeq(c, 2, Len(c))
    OBVIOUS
  <1>6. u \in Seq(U) /\ Len(u) = Len(s) /\ \A i \in 1..Len(s) : u[i] = s[i]
    <2>1. \A i \in 2..Len(c) : c[i] \in U
      BY <1>1, <1>3
    <2>2. 2 \in Int /\ Len(c) \in Int /\ Len(c) - 2 + 1 = Len(s) /\ (2 <= Len(c))
      BY <1>1, <1>3
    <2>3. u \in Seq(U) /\ Len(u) = Len(s) /\ \A i \in 1..Len(s) : u[i] = c[2 + i - 1]
      BY <1>5, <2>1, <2>2, SubSeqProperties
    <2>4. \A i \in 1..Len(s) : 2 + i - 1 = i + 1
      BY <1>1
    <2> QED
      BY <1>4, <2>3, <2>4
  <1>7. u = s
    BY <1>1, <1>6
  <1> QED
    BY <1>1, <1>2, <1>3, <1>4, <1>5, <1>7 DEF From

\* An address with a scope is no address of metadata, and has four parts.
LEMMA ScopedIsParsed ==
    ASSUME NEW path, Len(path) = 3, IsScope(path[1]), NameAtVersion(path[2]), ~IsName(path[2])
    PROVE  /\ MetaPath(path) = NotParsed
           /\ ParsePackageUrl(path) =
                  Parsed(From(path[1], 2), path[2][1], From(path[2], 3), From(path, 3))
  <1>1. MetaPath(path) = NotParsed
    BY DEF MetaPath
  <1>2. ~NameAtVersion(path[1])
    BY DEF IsScope, NameAtVersion
  <1>3. ParsePackageUrl(path) = Parsed(From(path[1], 2), path[2][1], From(path[2], 3), From(path, 3))
    BY <1>2 DEF ParsePackageUrl
  <1> QED
    BY <1>1, <1>3

\* path is the address of a file of a package with a scope.
Addressed(p, v, f, path) ==
    /\ p \in Packages /\ p.scope # NoScope
    /\ path = << <<"@">> \o p.scope, <<p.name, "@", v>>, <<f>> >>

\* It is parsed as that, and a request for it is answered from the tree of the
\* version, where it has one.
LEMMA UrlRoutes ==
    ASSUME NEW p, NEW v \in AllVersions, NEW f, NEW path, Addressed(p, v, f, path)
    PROVE  /\ ParsePackageUrl(path) = Parsed(p.scope, p.name, <<v>>, << <<f>> >>)
           /\ content[p][v] # NoTree /\ f \in Range(content[p][v].files) =>
                  Route(path) = [from |-> "file", pkg |-> p, version |-> v, file |-> f]
  <1> USE DEF Addressed
  <1>1. PICK a : a = <<"@">> \o p.scope
    OBVIOUS
  <1>2. PICK b : b = <<p.name, "@", v>>
    OBVIOUS
  <1>3. /\ p.scope \in Seq(STRING) /\ p.name # "@"
        /\ p = [scope |-> p.scope, name |-> p.name]
    BY RoutesAssumption
  <1>4. Len(path) = 3 /\ path[1] = a /\ path[2] = b /\ From(path, 3) = << <<f>> >>
    BY <1>1, <1>2, FromOfThree
  <1>5. Len(a) > 1 /\ a[1] = "@" /\ From(a, 2) = p.scope
    BY <1>1, <1>3, FromOfScope DEF NoScope
  <1>6. Len(b) = 3 /\ b[1] = p.name /\ b[2] = "@" /\ From(b, 3) = <<v>>
    BY <1>2, FromOfThree
  <1>7. IsScope(a) /\ NameAtVersion(b) /\ ~NameAtVersion(a) /\ ~IsName(b)
    BY <1>3, <1>5, <1>6 DEF IsScope, NameAtVersion, IsName
  <1>8. MetaPath(path) = NotParsed /\ ParsePackageUrl(path) = Parsed(From(a, 2), b[1], From(b, 3), From(path, 3))
    BY <1>4, <1>7, ScopedIsParsed
  <1>9. PICK q : q = Parsed(p.scope, p.name, <<v>>, << <<f>> >>)
    OBVIOUS
  <1>10. ParsePackageUrl(path) = q
    BY <1>4, <1>5, <1>6, <1>8, <1>9
  <1>11. q.pkg = p /\ q.version = <<v>> /\ q.rest = << <<f>> >> /\ q # NotParsed
    BY <1>3, <1>9 DEF Parsed, FullName, NotParsed
  <1>12. a # <<".well-known">>
    BY <1>5
  <1>13. Route(path) = ServeFile(q)
    BY <1>4, <1>8, <1>10, <1>11, <1>12 DEF Route, CatchAll
  <1>14. ASSUME content[p][v] # NoTree, f \in Range(content[p][v].files)
         PROVE  Route(path) = [from |-> "file", pkg |-> p, version |-> v, file |-> f]
    <2>1. Readable(p, <<v>>)
      BY <1>14 DEF Readable
    <2>2. PICK tr : tr = content[p][v]
      OBVIOUS
    <2>5. Readable(q.pkg, q.version) /\ ~GetThrows(q.version)
      BY <1>11, <2>1 DEF GetThrows
    <2>3. ServeFile(q) = FileIn(tr, q)
      BY <1>11, <2>2, <2>5 DEF ServeFile
    <2>4. FileIn(tr, q) = [from |-> "file", pkg |-> p, version |-> v, file |-> f]
      BY <1>11, <1>14, <2>2 DEF FileIn
    <2> QED
      BY <1>13, <2>3, <2>4
  <1> QED
    BY <1>9, <1>10, <1>14

\* So the invariant gives the property.
LEMMA LeadingMapLeadsHere == RoutesInv => ImportMapLeadsHere
  <1> SUFFICES ASSUME RoutesInv, NEW p \in DOMAIN madeFrom, p.scope # NoScope
               PROVE  \E v \in AllVersions :
                        LET tr == madeFrom[p][v] IN
                        /\ tr # NoTree
                        /\ ParsePackageUrl(importMap[p]) = Parsed(p.scope, p.name, <<v>>, << <<Entry(tr)>> >>)
                        /\ content[p][v] = tr /\ Entry(tr) \in Range(tr.files)
                              => Route(importMap[p]) = [from |-> "file", pkg |-> p, version |-> v, file |-> Entry(tr)]
    BY DEF ImportMapLeadsHere
  <1>1. PICK v \in AllVersions : LedBy(p, v)
    BY DEF RoutesInv
  <1>2. p \in Packages
    BY DEF RoutesInv
  <1>3. PICK tr : tr = madeFrom[p][v]
    OBVIOUS
  <1>4. tr \in Trees /\ tr # NoTree
    BY <1>1, <1>3, RoutesAssumption DEF LedBy
  <1>5. PICK f : f = Entry(tr)
    OBVIOUS
  <1>6. PICK path : path = importMap[p]
    OBVIOUS
  <1>7. path = ImportUrl(p, v, f)
    BY <1>1, <1>3, <1>5, <1>6 DEF LedBy
  <1>8. f # NoFile
    BY <1>4, <1>5, EntryIsNamed
  <1>9. Addressed(p, v, f, path)
    BY <1>2, <1>7, <1>8, UrlSegments DEF Addressed
  <1>10. /\ ParsePackageUrl(path) = Parsed(p.scope, p.name, <<v>>, << <<f>> >>)
         /\ content[p][v] # NoTree /\ f \in Range(content[p][v].files) =>
                Route(path) = [from |-> "file", pkg |-> p, version |-> v, file |-> f]
    BY <1>9, UrlRoutes
  <1> QED
    BY <1>3, <1>4, <1>5, <1>6, <1>10

\* The initial states satisfy the invariant.
LEMMA RoutesInitInv == RoutesInit => RoutesInv
  BY DEF RoutesInit, RoutesInv

\* Every step keeps the invariant.
LEMMA RoutesNextInv == RoutesInv /\ [RoutesNext]_routeVars => RoutesInv'
  <1> SUFFICES ASSUME RoutesInv, [RoutesNext]_routeVars PROVE RoutesInv'
    OBVIOUS
  <1>1. CASE UNCHANGED <<content, importMap, madeFrom>> /\ (mapping' = mapping \/ mapping' = Idle \/ mapping' = <<>>)
    <2>0. <<>> \in Seq(Packages)
      OBVIOUS
    <2>1. mapping' = Idle \/ mapping' \in Seq(Packages)
      BY <1>1, <2>0 DEF RoutesInv
    <2> QED
      BY <1>1, <2>1 DEF RoutesInv, LedBy
  <1>2. CASE StartAgain
    BY <1>2 DEF StartAgain, storeVars, RoutesInv
  <1>3. ASSUME NEW p \in Packages, NEW v \in AllVersions, NEW tr \in Trees \cup {NoTree}, Publish(p, v, tr)
        PROVE  RoutesInv'
    <2>1. content' \in [Packages -> [AllVersions -> Trees \cup {NoTree}]]
      BY <1>3 DEF Publish, RoutesInv
    <2> QED
      BY <1>3, <2>1 DEF Publish, mapVars, RoutesInv, LedBy
  <1>4. CASE ImportMapStart
    <2>1. SetToSeq(Packages) \in Seq(Packages)
      BY RoutesAssumption, SetToSeqType
    <2> QED
      BY <1>4, <2>1 DEF ImportMapStart, storeVars, RoutesInv
  <1>5. CASE ImportMapPackage
    <2>1. mapping \in Seq(Packages) /\ mapping # <<>>
      BY <1>5 DEF ImportMapPackage, RoutesInv
    <2>2. PICK p \in Packages : p = Head(mapping)
      BY <2>1, HeadTailProperties
    <2>3. Tail(mapping) \in Seq(Packages)
      BY <2>1, HeadTailProperties
    <2>9. PICK v : v = ChosenVersion(p)
      OBVIOUS
    <2>4. /\ mapping' = Tail(mapping) /\ content' = content /\ (v # <<>> => ~GetThrows(v))
          /\ v # <<>> =>
               /\ importMap' = [q \in {p} \cup DOMAIN importMap \cup JsrImports[p] |->
                                  IF q = p THEN ImportUrl(p, v[1], Entry(content[p][v[1]]))
                                  ELSE IF q \in DOMAIN importMap THEN importMap[q] ELSE JsrEntry(q)]
               /\ madeFrom' = [q \in {p} \cup DOMAIN madeFrom |-> IF q = p THEN content[p] ELSE madeFrom[q]]
          /\ v = <<>> => importMap' = importMap /\ madeFrom' = madeFrom
      BY <1>5, <2>2, <2>9 DEF ImportMapPackage, storeVars
    <2>5. CASE v = <<>>
      BY <2>3, <2>4, <2>5 DEF RoutesInv, LedBy
    <2>6. CASE v # <<>>
      <3>1. PICK w \in AllVersions : v = <<w>> /\ Readable(p, <<w>>)
        BY <2>4, <2>6, <2>9, ChosenIsReadable
      <3>2. content[p][w] \in Trees /\ v[1] = w
        BY <2>2, <3>1 DEF Readable, RoutesInv
      <3>3. /\ p \in DOMAIN importMap' /\ importMap'[p] = ImportUrl(p, w, Entry(content[p][w]))
            /\ p \in DOMAIN madeFrom' /\ madeFrom'[p] = content[p]
        BY <2>4, <2>6, <3>2
      <3>4. LedBy(p, w)'
        BY <3>2, <3>3 DEF LedBy
      <3>5. \A q \in DOMAIN madeFrom' \ {p} :
               /\ q \in DOMAIN madeFrom /\ q \in DOMAIN importMap /\ q \in DOMAIN importMap'
               /\ madeFrom'[q] = madeFrom[q] /\ importMap'[q] = importMap[q]
        BY <2>4, <2>6 DEF RoutesInv
      <3>6. ASSUME NEW q \in DOMAIN madeFrom' PROVE q \in Packages \cap DOMAIN importMap' /\ \E x \in AllVersions : LedBy(q, x)'
        <4>1. CASE q = p
          BY <2>2, <3>3, <3>4, <4>1
        <4>2. CASE q # p
          <5>1. PICK x \in AllVersions : LedBy(q, x)
            BY <3>5, <4>2 DEF RoutesInv
          <5>2. LedBy(q, x)'
            BY <3>5, <4>2, <5>1 DEF LedBy
          <5> QED
            BY <3>5, <4>2, <5>2 DEF RoutesInv
        <4> QED
          BY <4>1, <4>2
      <3> QED
        BY <2>3, <2>4, <3>6 DEF RoutesInv
    <2> QED
      BY <2>5, <2>6
  <1> QED
    BY <1>1, <1>2, <1>3, <1>4, <1>5 DEF RoutesNext, ResolveOwnDid, SubmitGenesis, ChooseStore, Announce,
       RegistryReady, Request, ImportMapThrows, ImportMapAnswered, routeVars, bootVars, storeVars, mapVars

\* For any packages, trees and changes of the store while a map is made, an entry
\* of the import map is parsed as a version that could be read and leads to its
\* entry point while the version keeps its tree and the tree has that file.
THEOREM ImportMapsLeadHere == RoutesSpec => []ImportMapLeadsHere
  BY RoutesInitInv, RoutesNextInv, LeadingMapLeadsHere, PTL DEF RoutesSpec

-----------------------------------------------------------------------------
(* DropletApi: every container can still be removed                        *)

Unstarted(d) == spawn[d] \in {"preparing", "starting"}

DropletTypeOK ==
    /\ spawn \in [Droplets -> {"none", "preparing", "starting", "probing", "polling", "ended"}]
    /\ call \in [ApiCalls -> {"none", "removing", "204", "404"}]
    /\ registry \subseteq Droplets
    /\ docker \subseteq Droplets

\* A droplet whose docker run is still to come is registered with a server that
\* runs, or it was noted as deleted, or left, too early.
ToStartIsKnown ==
    \A d \in Droplets : Unstarted(d) => d \in early \/ (d \in registry /\ host # "exited")

DropletInv == DropletTypeOK /\ ToStartIsKnown /\ ContainersAreAccounted

\* The initial states satisfy the invariant.
LEMMA DropletInitInv == ApiInit => DropletInv
  BY DEF ApiInit, DropletInv, DropletTypeOK, ToStartIsKnown, Unstarted, ContainersAreAccounted

\* Every step keeps the invariant.
LEMMA DropletNextInv == DropletInv /\ [ApiNext]_apiVars => DropletInv'
  <1> SUFFICES ASSUME DropletInv, [ApiNext]_apiVars PROVE DropletInv'
    OBVIOUS
  <1> USE DropletAssumption
      DEF DropletInv, DropletTypeOK, ToStartIsKnown, Unstarted, ContainersAreAccounted
  <1>1. ASSUME NEW d \in Droplets, CreateDroplet(d) PROVE DropletInv'
    BY <1>1 DEF CreateDroplet
  <1>2. ASSUME NEW d \in Droplets, StartSpawn(d) \/ TakeNonce(d) PROVE DropletInv'
    BY <1>2 DEF StartSpawn, TakeNonce
  <1>3. ASSUME NEW d \in Droplets, DockerRun(d) PROVE DropletInv'
    BY <1>3 DEF DockerRun
  <1>4. ASSUME NEW d \in Droplets, InspectIp(d) \/ SshReady(d) \/ ProbeFails(d) PROVE DropletInv'
    BY <1>4 DEF InspectIp, SshReady, ProbeFails
  <1>5. ASSUME NEW k \in ApiCalls, DeleteDroplet(k) PROVE DropletInv'
    BY <1>5 DEF DeleteDroplet
  <1>6. ASSUME NEW k \in ApiCalls, RemoveContainer(k) PROVE DropletInv'
    BY <1>6 DEF RemoveContainer
  <1>7. CASE Shutdown
    BY <1>7 DEF Shutdown
  <1>8. CASE KillAllDroplets
    BY <1>8 DEF KillAllDroplets
  <1>9. CASE UNCHANGED apiVars
    BY <1>9 DEF apiVars
  <1> QED
    BY <1>1, <1>2, <1>3, <1>4, <1>5, <1>6, <1>7, <1>8, <1>9 DEF ApiNext, SpawnStep

\* However creations, deletions, docker and a shutdown overlap, every container
\* is registered, being removed, was deleted while docker run was under way, or
\* was left by a docker rm that failed.
THEOREM ContainersStayAccounted == ApiSpec => []ContainersAreAccounted
  <1>1. DropletInv => ContainersAreAccounted
    BY DEF DropletInv
  <1> QED
    BY DropletInitInv, DropletNextInv, <1>1, PTL DEF ApiSpec

-----------------------------------------------------------------------------
(* QemuImage: an image is made after the live initrd                       *)

HasKernel == chroot \in {"kernel", "installed"}

\* What each stage of a build found or made before it.
StageFollows ==
    /\ build = "install" => chroot = "partial"
    /\ build \in {"initrd", "mark", "image", "fill"} => configured
    /\ build = "mark" => initrd = "live" /\ HasKernel
    /\ build \in {"image", "fill"} => marker

\* The marker vouches for the initrd, which only the installation replaces, and
\* that never follows a marker; an image follows it, and a run an image.
MarkerVouches ==
    /\ marker => initrd = "live" /\ configured /\ HasKernel
    /\ image # "absent" => marker
    /\ vmRun \in [VmRuns -> {"none", "prepared", "booted", "done", "failed"}]
    /\ \A r \in VmRuns : vmRun[r] \in {"prepared", "booted"} => image # "absent"

ImageInv == StageFollows /\ MarkerVouches

\* The initial states satisfy the invariant.
LEMMA ImageInitInv == ImageInit => ImageInv
  BY DEF ImageInit, ImageInv, StageFollows, MarkerVouches

\* Every step keeps the invariant.
LEMMA ImageNextInv == ImageInv /\ [ImageNext]_imageVars => ImageInv'
  <1> SUFFICES ASSUME ImageInv, [ImageNext]_imageVars PROVE ImageInv'
    OBVIOUS
  <1> USE DEF ImageInv, StageFollows, MarkerVouches, HasKernel, Stage, runOnly
  <1>1. CASE BuildCommand
    BY <1>1 DEF BuildCommand
  <1>2. CASE MakeChroot \/ SkipChroot \/ InstallDistro \/ Configure
    BY <1>2 DEF MakeChroot, SkipChroot, InstallDistro, Configure
  <1>3. CASE Dracut \/ TouchMarker \/ SkipInitrd
    BY <1>3 DEF Dracut, TouchMarker, SkipInitrd, InitrdIsBuilt
  <1>4. CASE MakeImage \/ FillImage \/ SkipImage
    BY <1>4 DEF MakeImage, FillImage, SkipImage
  <1>5. CASE BuildFails
    BY <1>5 DEF BuildFails
  <1>6. ASSUME NEW r \in VmRuns, PrepareRun(r) \/ BootVm(r) \/ VmExits(r) PROVE ImageInv'
    BY <1>6 DEF PrepareRun, BootVm, VmExits
  <1>7. CASE UNCHANGED imageVars
    BY <1>7 DEF imageVars
  <1> QED
    BY <1>1, <1>2, <1>3, <1>4, <1>5, <1>6, <1>7 DEF ImageNext, BuildStep

\* However many builds failed or were killed half way, an image file exists,
\* and a run boots, only with the live initrd beside it.
THEOREM ImagesBootLive == ImageSpec => []ImageBootsLive
  <1>1. ImageInv => ImageBootsLive
    BY DEF ImageInv, MarkerVouches, ImageBootsLive
  <1> QED
    BY ImageInitInv, ImageNextInv, <1>1, PTL DEF ImageSpec

-----------------------------------------------------------------------------
(* AccessControl: tokens verify, and who was granted is served             *)

RoleRecs  == [rkey : Nat \ {0}, who : Guests, service : Urls]
AllowRecs == [rkey : Nat \ {0}, dids : SUBSET Callers, service : Urls]
Tokens    == [key : Nat, kid : Nat, boot : Nat, iss : Urls, who : {"nobody"} \cup {r.who : r \in Reqs}]

RequestRecords ==
    [at : {"none", "verifying", "listing", "checking", "keyed", "refused", "done"},
     cursor : Nat, listed : SUBSET (RoleRecs \cup AllowRecs), service : Urls, held : Tokens,
     fault : BOOLEAN, base : SUBSET Guests]

ThreadRecords ==
    [at : {"idle", "key", "importing", "generating", "exporting", "jwk", "ready"}, key : Nat]

AccessTypeOK ==
    /\ {signingKey, publicJwk, pem, keysMade, boots, rkeys} \subseteq Nat /\ issuer \in Urls
    /\ thread \in [Threads -> ThreadRecords]
    /\ req \in [Reqs -> RequestRecords]
    /\ roleRecs \subseteq RoleRecs
    /\ allowRecs \subseteq AllowRecs
    /\ tokens \subseteq Tokens

\* How far the warm-up is decides what is cached and stored.
WarmUp ==
    LET k == thread[Boot].key IN
    CASE thread[Boot].at = "key" -> signingKey = 0 /\ publicJwk = 0
      [] thread[Boot].at = "importing" -> signingKey = 0 /\ publicJwk = 0 /\ pem = k /\ k # 0
      [] thread[Boot].at = "generating" -> signingKey = 0 /\ publicJwk = 0 /\ pem = 0
      [] thread[Boot].at = "exporting" -> signingKey = k /\ publicJwk = 0 /\ pem = 0 /\ k # 0
      [] thread[Boot].at = "jwk" -> signingKey = k /\ publicJwk = 0 /\ pem = k /\ k # 0
      [] thread[Boot].at = "ready" -> signingKey = k /\ publicJwk = k /\ pem = k /\ k # 0
      [] OTHER -> FALSE

\* No request looks for a key before the warm-up has one, and then it finds
\* that one.
RequestsAfterWarmUp ==
    \A r \in Reqs :
        /\ thread[r].at \in {"idle", "key", "jwk", "ready"}
        /\ thread[r].at # "idle" => Serving
        /\ thread[r].at \in {"jwk", "ready"} => thread[r].key = signingKey

\* A token carries the key that is stored; when the key store is lost with the
\* process, that holds for the tokens of this start.
TokensOfTheKey ==
    \A t \in tokens :
        /\ t.key = t.kid /\ t.boot <= boots
        /\ DurableKeys \/ t.boot = boots => t.key = pem /\ pem # 0

KeyInv == WarmUp /\ RequestsAfterWarmUp /\ TokensOfTheKey

\* A guest that had a record for the service all along is among what was listed,
\* or its record is still to come.
ListedOrAhead ==
    \A r \in Reqs :
        /\ req[r].base \subseteq Granted(req[r].service)
        /\ r.kind = "issue" =>
              \A x \in roleRecs : x.who \in req[r].base /\ x.service = req[r].service =>
                    /\ req[r].at \in {"verifying", "listing"} => x \in req[r].listed \/ x.rkey >= req[r].cursor
                    /\ req[r].at = "checking" => x \in req[r].listed

\* The token of a request was signed here, and the request is refused for one of
\* the reasons there are.
RefusedForAReason ==
    \A r \in Reqs : r.kind = "issue" =>
        /\ req[r].at = "verifying" => req[r].held \in tokens
        /\ req[r].at = "refused" =>
              \/ r.who \notin req[r].base
              \/ req[r].held.iss # req[r].service
              \/ ~DurableKeys /\ req[r].held.boot # boots
              \/ req[r].fault

AccessInv == AccessTypeOK /\ KeyInv /\ ListedOrAhead /\ RefusedForAReason

\* The warm-up of the signing key at the start of the process is no request.
LEMMA BootIsNoRequest == Boot \notin Reqs
  BY AccessAssumption DEF Boot

\* The initial states satisfy the invariant.
LEMMA AccessInitInv == AccessInit => AccessInv
  <1> SUFFICES ASSUME AccessInit PROVE AccessInv
    OBVIOUS
  <1> USE BootIsNoRequest DEF AccessInit
  <1>1. AccessTypeOK
    <2>1. NoRequest \in RequestRecords
      BY AccessAssumption DEF RequestRecords, NoRequest, NoToken, Tokens
    <2> QED
      BY <2>1, AccessAssumption DEF AccessTypeOK, ThreadRecords, Threads, NoThread
  <1>2. WarmUp /\ RequestsAfterWarmUp /\ TokensOfTheKey
    BY DEF WarmUp, RequestsAfterWarmUp, TokensOfTheKey, Threads, NoThread
  <1>3. ListedOrAhead /\ RefusedForAReason
    BY DEF ListedOrAhead, RefusedForAReason, NoRequest
  <1> QED
    BY <1>1, <1>2, <1>3 DEF AccessInv, KeyInv

\* A step of the key lookup, of the warm-up or of a request.
LEMMA KeyPreserves ==
    ASSUME AccessInv, NEW t \in Threads, KeyStep(t)
    PROVE  AccessInv'
  <1> USE BootIsNoRequest DEF AccessInv, KeyInv
  <1>0. UNCHANGED <<boots, issuer, req, tokens, roleRecs, allowRecs, rkeys>>
    BY DEF KeyStep, GetSigningKey, KeyImported, KeyGenerated, KeySaved, GetPublicJwk, keyVars, listVars
  <1>1. thread[t] \in ThreadRecords /\ thread \in [Threads -> ThreadRecords]
    BY DEF AccessTypeOK
  <1>2. ListedOrAhead' /\ RefusedForAReason'
    BY <1>0 DEF ListedOrAhead, Granted, RefusedForAReason
  <1>3. AccessTypeOK'
    <2>1. CASE GetSigningKey(t)
      BY <1>0, <1>1, <2>1 DEF GetSigningKey, Step, AccessTypeOK, ThreadRecords, keyVars
    <2>2. CASE KeyImported(t) \/ KeyGenerated(t)
      BY <1>0, <1>1, <2>2 DEF KeyImported, KeyGenerated, Step, AccessTypeOK, ThreadRecords
    <2>3. CASE KeySaved(t) \/ GetPublicJwk(t)
      BY <1>0, <1>1, <2>3 DEF KeySaved, GetPublicJwk, Step, AccessTypeOK, ThreadRecords
    <2> QED
      BY <2>1, <2>2, <2>3 DEF KeyStep
  <1>4. CASE t = Boot
    <2>1. \A r \in Reqs : thread'[r] = thread[r]
      BY <1>1, <1>4 DEF KeyStep, GetSigningKey, KeyImported, KeyGenerated, KeySaved, GetPublicJwk,
                        Step, Threads
    <2>2. ~Serving
      BY <1>4 DEF KeyStep, GetSigningKey, KeyImported, KeyGenerated, KeySaved, GetPublicJwk, Serving
    <2>3. RequestsAfterWarmUp'
      BY <2>1, <2>2 DEF RequestsAfterWarmUp
    <2>4. WarmUp' /\ TokensOfTheKey'
      <3>1. CASE GetSigningKey(t)
        BY <1>0, <1>1, <1>4, <3>1 DEF GetSigningKey, Step, WarmUp, TokensOfTheKey, keyVars, AccessTypeOK
      <3>2. CASE KeyImported(t)
        BY <1>0, <1>1, <1>4, <3>2 DEF KeyImported, Step, WarmUp, TokensOfTheKey
      <3>3. CASE KeyGenerated(t)
        BY <1>0, <1>1, <1>4, <3>3 DEF KeyGenerated, Step, WarmUp, TokensOfTheKey, AccessTypeOK
      <3>4. CASE KeySaved(t)
        BY <1>0, <1>1, <1>4, <3>4 DEF KeySaved, Step, WarmUp, TokensOfTheKey
      <3>5. CASE GetPublicJwk(t)
        BY <1>0, <1>1, <1>4, <3>5 DEF GetPublicJwk, Step, WarmUp, TokensOfTheKey
      <3> QED
        BY <3>1, <3>2, <3>3, <3>4, <3>5 DEF KeyStep
    <2> QED
      BY <1>2, <1>3, <2>3, <2>4
  <1>5. CASE t # Boot
    <2>1. t \in Reqs /\ Serving /\ Boot \in Threads
      BY <1>5 DEF Threads, KeyStep, GetSigningKey, KeyImported, KeyGenerated, KeySaved, GetPublicJwk,
                  RequestsAfterWarmUp
    <2>2. signingKey = publicJwk /\ signingKey = pem /\ signingKey # 0
      BY <2>1 DEF Serving, WarmUp
    <2>3. /\ UNCHANGED <<signingKey, publicJwk, pem>>
          /\ \/ thread' = [thread EXCEPT ![t] = [at |-> "jwk", key |-> signingKey]]
             \/ thread[t].at = "jwk" /\ thread' = [thread EXCEPT ![t] = [at |-> "ready", key |-> thread[t].key]]
      BY <2>1, <2>2 DEF KeyStep, GetSigningKey, KeyImported, KeyGenerated, KeySaved, GetPublicJwk,
                        RequestsAfterWarmUp, Step, keyVars
    <2>4. thread'[Boot] = thread[Boot]
      BY <1>1, <1>5, <2>1, <2>3
    <2>5. WarmUp' /\ TokensOfTheKey'
      BY <1>0, <2>3, <2>4 DEF WarmUp, TokensOfTheKey
    <2>6. RequestsAfterWarmUp'
      BY <1>1, <2>1, <2>3, <2>4 DEF RequestsAfterWarmUp, Serving, Threads
    <2> QED
      BY <1>2, <1>3, <2>5, <2>6
  <1> QED
    BY <1>4, <1>5

\* A step of a request.
LEMMA RequestPreserves ==
    ASSUME AccessInv, NEW r \in Reqs, RequestStep(r)
    PROVE  AccessInv'
  <1> USE BootIsNoRequest DEF AccessInv, KeyInv
  <1>0. /\ UNCHANGED <<signingKey, publicJwk, pem, keysMade, boots, issuer, roleRecs, allowRecs, rkeys>>
        /\ r \in Threads /\ Boot \in Threads /\ r # Boot
    BY DEF RequestStep, RequestStart, Validate, ListPage, ListFails, Check, Answer, keyVars, listVars, Threads
  <1>1. /\ thread \in [Threads -> ThreadRecords] /\ req \in [Reqs -> RequestRecords]
        /\ req[r] \in RequestRecords
    BY DEF AccessTypeOK
  <1>2. CASE RequestStart(r)
    <2>1. /\ Serving
          /\ thread' = thread \/ thread' = [thread EXCEPT ![r] = [at |-> "key", key |-> 0]]
          /\ tokens' = tokens
      BY <1>2 DEF RequestStart, keyVars
    <2>2. PICK a \in {"verifying", "listing", "keyed"}, t \in tokens \cup {NoToken} :
             /\ req' = [req EXCEPT ![r] = [at |-> a, cursor |-> 1, listed |-> {}, service |-> issuer,
                                           held |-> t, fault |-> FALSE, base |-> Granted(issuer)]]
             /\ r.kind = "issue" => t \in tokens
      BY <1>2 DEF RequestStart
    <2>3. PICK q : q = [at |-> a, cursor |-> 1, listed |-> {}, service |-> issuer,
                        held |-> t, fault |-> FALSE, base |-> Granted(issuer)]
      OBVIOUS
    <2>4. /\ q.at = a /\ q.cursor = 1 /\ q.listed = {} /\ q.service = issuer /\ q.held = t
          /\ q.base = Granted(issuer) /\ req' = [req EXCEPT ![r] = q]
      BY <2>2, <2>3
    <2>5. q \in RequestRecords
      <3>1. t \in Tokens /\ issuer \in Urls
        BY AccessAssumption DEF AccessTypeOK, Tokens, NoToken
      <3>2. Granted(issuer) \subseteq Guests
        BY DEF Granted, AccessTypeOK, RoleRecs
      <3> QED
        BY <2>3, <3>1, <3>2 DEF RequestRecords
    <2>6. req' \in [Reqs -> RequestRecords] /\ req'[r] = q /\ \A p \in Reqs \ {r} : req'[p] = req[p]
      BY <1>1, <2>4, <2>5
    <2>7. AccessTypeOK'
      BY <1>0, <1>1, <2>1, <2>6 DEF AccessTypeOK, ThreadRecords
    <2>8. WarmUp' /\ TokensOfTheKey'
      BY <1>0, <1>1, <2>1 DEF WarmUp, TokensOfTheKey
    <2>9. RequestsAfterWarmUp'
      BY <1>0, <1>1, <2>1 DEF RequestsAfterWarmUp, Serving, Threads
    <2>10. ListedOrAhead'
      <3>1. \A x \in roleRecs : x.rkey >= 1
        BY DEF AccessTypeOK, RoleRecs
      <3>2. \A url : Granted(url)' = Granted(url)
        BY <1>0 DEF Granted
      <3>3. q.base \subseteq Granted(q.service) /\ \A x \in roleRecs : x.rkey >= q.cursor
        BY <2>4, <3>1
      <3>4. q.at # "checking"
        BY <2>4
      <3> QED
        BY <1>0, <2>6, <3>2, <3>3, <3>4 DEF ListedOrAhead
    <2>11. RefusedForAReason'
      BY <1>0, <2>1, <2>2, <2>4, <2>6 DEF RefusedForAReason
    <2> QED
      BY <2>7, <2>8, <2>9, <2>10, <2>11
  <1>6. CASE Validate(r)
    <2>1. UNCHANGED <<thread, tokens>>
      BY <1>6 DEF Validate, keyVars
    <2>2. PICK a \in {"listing", "refused"} :
             /\ req' = [req EXCEPT ![r].at = a]
             /\ a = "refused" => req[r].held.iss # req[r].service \/ req[r].held.key # thread[r].key
      BY <1>6 DEF Validate
    <2>3. req[r].at = "verifying" /\ thread[r].at = "ready"
      BY <1>6 DEF Validate
    <2>4. /\ req' \in [Reqs -> RequestRecords] /\ \A p \in Reqs \ {r} : req'[p] = req[p]
          /\ req'[r].at = a /\ req'[r].cursor = req[r].cursor /\ req'[r].listed = req[r].listed
          /\ req'[r].service = req[r].service /\ req'[r].held = req[r].held
          /\ req'[r].fault = req[r].fault /\ req'[r].base = req[r].base
      BY <1>1, <2>2 DEF RequestRecords
    <2>5. AccessTypeOK'
      BY <1>0, <2>1, <2>4 DEF AccessTypeOK
    <2>6. WarmUp' /\ TokensOfTheKey' /\ RequestsAfterWarmUp'
      BY <1>0, <2>1 DEF WarmUp, TokensOfTheKey, RequestsAfterWarmUp, Serving
    <2>7. ListedOrAhead'
      <3>1. \A url : Granted(url)' = Granted(url)
        BY <1>0 DEF Granted
      <3> QED
        BY <1>0, <2>2, <2>3, <2>4, <3>1 DEF ListedOrAhead
    <2>8. RefusedForAReason'
      <3>1. ASSUME r.kind = "issue", a = "refused", req[r].held.iss = req[r].service
            PROVE  ~DurableKeys /\ req[r].held.boot # boots
        <4>1. req[r].held \in tokens /\ req[r].held.key # thread[r].key
          BY <2>2, <2>3, <3>1 DEF RefusedForAReason
        <4>2. Serving /\ thread[r].key = pem
          BY <2>3 DEF RequestsAfterWarmUp, Serving, WarmUp
        <4> QED
          BY <4>1, <4>2 DEF TokensOfTheKey
      <3> QED
        BY <1>0, <2>1, <2>2, <2>4, <3>1 DEF RefusedForAReason
    <2> QED
      BY <2>5, <2>6, <2>7, <2>8
  <1>7. CASE ListFails(r)
    <2>1. UNCHANGED <<thread, tokens>> /\ req' = [req EXCEPT ![r].at = "refused", ![r].fault = TRUE]
      BY <1>7 DEF ListFails, keyVars
    <2>2. /\ req' \in [Reqs -> RequestRecords] /\ \A p \in Reqs \ {r} : req'[p] = req[p]
          /\ req'[r].at = "refused" /\ req'[r].fault = TRUE
          /\ req'[r].service = req[r].service /\ req'[r].base = req[r].base
      BY <1>1, <2>1 DEF RequestRecords
    <2>3. AccessTypeOK'
      BY <1>0, <2>1, <2>2 DEF AccessTypeOK
    <2>4. WarmUp' /\ TokensOfTheKey' /\ RequestsAfterWarmUp'
      BY <1>0, <2>1 DEF WarmUp, TokensOfTheKey, RequestsAfterWarmUp, Serving
    <2>5. \A url : Granted(url)' = Granted(url)
      BY <1>0 DEF Granted
    <2>6. ListedOrAhead' /\ RefusedForAReason'
      BY <1>0, <2>1, <2>2, <2>5 DEF ListedOrAhead, RefusedForAReason
    <2> QED
      BY <2>3, <2>4, <2>6
  <1>3. CASE ListPage(r)
    <2>1. UNCHANGED <<thread, tokens>>
      BY <1>3 DEF ListPage, keyVars
    <2>2. req[r].at = "listing" /\ Page(r) \subseteq RoleRecs \cup AllowRecs
      BY <1>3 DEF ListPage, Page, Rest, RecsOf, AccessTypeOK
    <2>3. PICK s \in {"checking", "listing"}, k \in Nat :
             /\ req' = [req EXCEPT ![r].listed = @ \cup Page(r), ![r].at = s, ![r].cursor = k]
             /\ s = "checking" => Left(r) = {}
             /\ s = "listing" => \A j \in Left(r) : k <= j
      <3>1. CASE /\ Left(r) = {}
                 /\ req' = [req EXCEPT ![r].listed = @ \cup Page(r), ![r].at = "checking", ![r].cursor = 0]
        BY <3>1
      <3>2. ASSUME NEW k \in NextCursor(r),
                   req' = [req EXCEPT ![r].listed = @ \cup Page(r), ![r].cursor = k]
            PROVE  /\ k \in Nat
                   /\ req' = [req EXCEPT ![r].listed = @ \cup Page(r), ![r].at = "listing", ![r].cursor = k]
                   /\ \A j \in Left(r) : k <= j
        <4>1. k \in Nat /\ \A j \in Left(r) : k <= j
          BY DEF NextCursor, Left, Rest, RecsOf, AccessTypeOK, RoleRecs, AllowRecs
        <4> QED
          BY <1>1, <2>2, <3>2, <4>1 DEF RequestRecords
      <3> QED
        BY <1>3, <3>1, <3>2 DEF ListPage
    <2>4. AccessTypeOK'
      BY <1>0, <1>1, <2>1, <2>2, <2>3 DEF AccessTypeOK, RequestRecords
    <2>5. WarmUp' /\ TokensOfTheKey' /\ RequestsAfterWarmUp'
      BY <1>0, <2>1 DEF WarmUp, TokensOfTheKey, RequestsAfterWarmUp, Serving
    <2>6. ListedOrAhead'
      <3>1. ASSUME r.kind = "issue", NEW x \in roleRecs, x.who \in req[r].base,
                   x.service = req[r].service
            PROVE  x \in req[r].listed \cup Page(r) \/ x.rkey \in Left(r)
        <4>1. x \in req[r].listed \/ x \in Rest(r)
          BY <2>2, <3>1 DEF ListedOrAhead, Rest, RecsOf
        <4> QED
          BY <4>1 DEF Left
      <3>2. /\ req'[r].base = req[r].base /\ req'[r].service = req[r].service
            /\ req'[r].listed = req[r].listed \cup Page(r)
            /\ req'[r].at = s /\ req'[r].cursor = k
        BY <1>1, <2>3 DEF RequestRecords
      <3>3. \A x \in roleRecs : x.rkey \in Nat
        BY DEF AccessTypeOK, RoleRecs
      <3>4. \A q \in Reqs : q # r => req'[q] = req[q]
        BY <1>1, <2>3
      <3>5. ASSUME r.kind = "issue", NEW x \in roleRecs, x.who \in req[r].base,
                   x.service = req[r].service
            PROVE  /\ s = "listing" => x \in req'[r].listed \/ x.rkey >= k
                   /\ s = "checking" => x \in req'[r].listed
        BY <2>3, <3>1, <3>2, <3>3, <3>5
      <3>6. s # "verifying" /\ \A url : Granted(url)' = Granted(url)
        BY <1>0 DEF Granted
      <3> QED
        BY <1>0, <3>2, <3>4, <3>5, <3>6 DEF ListedOrAhead
    <2>7. RefusedForAReason'
      <3>1. req'[r].at = s /\ \A q \in Reqs : q # r => req'[q] = req[q]
        BY <1>1, <2>3 DEF RequestRecords
      <3> QED
        BY <1>0, <2>1, <3>1 DEF RefusedForAReason
    <2> QED
      BY <2>4, <2>5, <2>6, <2>7
  <1>4. CASE Check(r)
    <2>1. UNCHANGED <<thread, tokens>>
      BY <1>4 DEF Check, keyVars
    <2>2. PICK s \in {"refused", "keyed", "done"} :
             /\ req' = [req EXCEPT ![r].at = s]
             /\ s = "refused" /\ r.kind = "issue" => \A x \in Protecting(r) : x.who # r.who
      BY <1>4 DEF Check, CheckRBACPolicy
    <2>3. req[r].at = "checking"
      BY <1>4 DEF Check
    <2>4. /\ req' \in [Reqs -> RequestRecords] /\ \A p \in Reqs \ {r} : req'[p] = req[p]
          /\ req'[r].at = s /\ req'[r].listed = req[r].listed
          /\ req'[r].service = req[r].service /\ req'[r].base = req[r].base
      BY <1>1, <2>2 DEF RequestRecords
    <2>5. AccessTypeOK'
      BY <1>0, <2>1, <2>4 DEF AccessTypeOK
    <2>6. WarmUp' /\ TokensOfTheKey' /\ RequestsAfterWarmUp'
      BY <1>0, <2>1 DEF WarmUp, TokensOfTheKey, RequestsAfterWarmUp, Serving
    <2>7. ListedOrAhead'
      <3>1. \A url : Granted(url)' = Granted(url)
        BY <1>0 DEF Granted
      <3> QED
        BY <1>0, <2>2, <2>4, <3>1 DEF ListedOrAhead
    <2>8. RefusedForAReason'
      <3>1. ASSUME s = "refused", r.kind = "issue" PROVE r.who \notin req[r].base
        <4> SUFFICES ASSUME r.who \in req[r].base PROVE FALSE
          OBVIOUS
        <4>1. PICK x \in roleRecs : x.who = r.who /\ x.service = req[r].service
          BY DEF ListedOrAhead, Granted
        <4>2. x \in Protecting(r)
          BY <2>3, <3>1, <4>1 DEF ListedOrAhead, Protecting
        <4> QED
          BY <2>2, <3>1, <4>1, <4>2
      <3> QED
        BY <1>0, <2>1, <2>2, <2>4, <3>1 DEF RefusedForAReason
    <2> QED
      BY <2>5, <2>6, <2>7, <2>8
  <1>5. CASE Answer(r)
    <2>1. thread' = thread /\ req' = [req EXCEPT ![r].at = "done"]
      BY <1>5 DEF Answer
    <2>2. /\ Serving /\ thread[r].key = signingKey
          /\ publicJwk = signingKey /\ pem = signingKey /\ signingKey # 0
      BY <1>5 DEF Answer, RequestsAfterWarmUp, WarmUp, Serving
    <2>3. \/ tokens' = tokens
          \/ tokens' = tokens \cup {[key |-> pem, kid |-> pem, boot |-> boots, iss |-> issuer, who |-> r.who]}
      BY <1>5, <2>2 DEF Answer, CreateToken
    <2>4. AccessTypeOK'
      <3>1. [key |-> pem, kid |-> pem, boot |-> boots, iss |-> issuer, who |-> r.who] \in Tokens
        BY DEF AccessTypeOK, Tokens
      <3>2. tokens' \subseteq Tokens
        BY <2>3, <3>1 DEF AccessTypeOK
      <3>3. [req[r] EXCEPT !.at = "done"] \in RequestRecords
        BY <1>1 DEF RequestRecords
      <3>4. req' \in [Reqs -> RequestRecords]
        BY <1>1, <2>1, <3>3
      <3> QED
        BY <1>0, <2>1, <3>2, <3>4 DEF AccessTypeOK
    <2>5. WarmUp' /\ RequestsAfterWarmUp'
      BY <1>0, <2>1 DEF WarmUp, RequestsAfterWarmUp, Serving
    <2>6. TokensOfTheKey'
      BY <1>0, <2>2, <2>3 DEF TokensOfTheKey, AccessTypeOK
    <2>7. ListedOrAhead' /\ RefusedForAReason'
      <3>1. \A url : Granted(url)' = Granted(url)
        BY <1>0 DEF Granted
      <3>2. /\ \A p \in Reqs \ {r} : req'[p] = req[p]
            /\ req'[r].at = "done" /\ req'[r].service = req[r].service /\ req'[r].base = req[r].base
        BY <1>1, <2>1 DEF RequestRecords
      <3> QED
        BY <1>0, <2>3, <3>1, <3>2 DEF ListedOrAhead, RefusedForAReason
    <2> QED
      BY <2>4, <2>5, <2>6, <2>7
  <1> QED
    BY <1>2, <1>3, <1>4, <1>5, <1>6, <1>7 DEF RequestStep

\* A record is written or deleted, the relay names the service, or the process
\* starts anew.
LEMMA RecordsPreserve ==
    ASSUME AccessInv,
           \/ \E g \in Guests : ConfigureRbac(g) \/ DeleteRbacRecord(g)
           \/ \E held \in SUBSET Callers : AllowAccess(held)
           \/ \E url \in Urls : OnRegistered(url)
           \/ Restart
    PROVE  AccessInv'
  <1> USE BootIsNoRequest DEF AccessInv, KeyInv
  <1>1. ASSUME NEW g \in Guests, ConfigureRbac(g) PROVE AccessInv'
    <2>1. /\ roleRecs' = roleRecs \cup {[rkey |-> rkeys + 1, who |-> g, service |-> issuer]}
          /\ rkeys' = rkeys + 1 /\ g \notin {x.who : x \in roleRecs}
          /\ UNCHANGED <<signingKey, publicJwk, pem, keysMade, boots, issuer, thread, req, allowRecs, tokens>>
      BY <1>1 DEF ConfigureRbac, keyVars
    <2>2. AccessTypeOK'
      BY <2>1 DEF AccessTypeOK, RoleRecs
    <2>3. WarmUp' /\ TokensOfTheKey' /\ RequestsAfterWarmUp'
      BY <2>1 DEF WarmUp, TokensOfTheKey, RequestsAfterWarmUp, Serving
    <2>4. ListedOrAhead'
      <3>1. \A url : Granted(url) \subseteq Granted(url)' /\ g \notin Granted(url)
        BY <2>1 DEF Granted
      <3>2. \A r \in Reqs : g \notin req[r].base
        BY <3>1 DEF ListedOrAhead
      <3> QED
        BY <2>1, <3>1, <3>2 DEF ListedOrAhead
    <2>5. RefusedForAReason'
      BY <2>1 DEF RefusedForAReason
    <2> QED
      BY <2>2, <2>3, <2>4, <2>5
  <1>2. ASSUME NEW g \in Guests, DeleteRbacRecord(g) PROVE AccessInv'
    <2>1. /\ roleRecs' = {x \in roleRecs : x.who # g}
          /\ req' = [r \in Reqs |-> [req[r] EXCEPT !.base = @ \ {g}]]
          /\ UNCHANGED <<signingKey, publicJwk, pem, keysMade, boots, issuer, thread, rkeys, allowRecs, tokens>>
      BY <1>2 DEF DeleteRbacRecord, keyVars
    <2>2. AccessTypeOK'
      BY <2>1 DEF AccessTypeOK, RequestRecords
    <2>3. WarmUp' /\ TokensOfTheKey' /\ RequestsAfterWarmUp'
      BY <2>1 DEF WarmUp, TokensOfTheKey, RequestsAfterWarmUp, Serving
    <2>4. \A r \in Reqs : /\ req'[r].base = req[r].base \ {g} /\ req'[r].at = req[r].at
                          /\ req'[r].listed = req[r].listed /\ req'[r].cursor = req[r].cursor
                          /\ req'[r].service = req[r].service /\ req'[r].held = req[r].held
                          /\ req'[r].fault = req[r].fault
      BY <2>1 DEF AccessTypeOK, RequestRecords
    <2>5. ListedOrAhead'
      <3>1. \A url : Granted(url) \ {g} \subseteq Granted(url)'
        BY <2>1 DEF Granted
      <3> QED
        BY <2>1, <2>4, <3>1 DEF ListedOrAhead
    <2>6. RefusedForAReason'
      BY <2>1, <2>4 DEF RefusedForAReason
    <2> QED
      BY <2>2, <2>3, <2>5, <2>6
  <1>3. ASSUME NEW held \in SUBSET Callers, AllowAccess(held) PROVE AccessInv'
    <2>1. /\ allowRecs' = allowRecs \cup {[rkey |-> rkeys + 1, dids |-> held, service |-> issuer]}
          /\ rkeys' = rkeys + 1
          /\ UNCHANGED <<signingKey, publicJwk, pem, keysMade, boots, issuer, thread, req, roleRecs, tokens>>
      BY <1>3 DEF AllowAccess, keyVars
    <2>2. AccessTypeOK'
      BY <2>1 DEF AccessTypeOK, AllowRecs
    <2> QED
      BY <2>1, <2>2 DEF WarmUp, TokensOfTheKey, RequestsAfterWarmUp, Serving, ListedOrAhead, Granted,
                        RefusedForAReason
  <1>5. ASSUME NEW url \in Urls, OnRegistered(url) PROVE AccessInv'
    <2>1. /\ issuer' = url
          /\ UNCHANGED <<signingKey, publicJwk, pem, keysMade, boots, thread, req, roleRecs, allowRecs,
                         rkeys, tokens>>
      BY <1>5 DEF OnRegistered, keyVars, listVars
    <2> QED
      BY <2>1 DEF AccessTypeOK, WarmUp, TokensOfTheKey, RequestsAfterWarmUp, Serving, ListedOrAhead,
                  Granted, RefusedForAReason
  <1>4. CASE Restart
    <2>1. /\ boots' = boots + 1 /\ signingKey' = 0 /\ publicJwk' = 0
          /\ pem' = IF DurableKeys THEN pem ELSE 0
          /\ thread' = [t \in Threads |-> IF t = Boot THEN [at |-> "key", key |-> 0] ELSE NoThread]
          /\ req' = [r \in Reqs |-> NoRequest] /\ issuer' = LocalUrl
          /\ UNCHANGED <<keysMade, tokens, roleRecs, allowRecs, rkeys>>
      BY <1>4 DEF Restart, listVars
    <2>2. AccessTypeOK'
      <3>1. NoRequest \in RequestRecords /\ LocalUrl \in Urls
        BY AccessAssumption DEF RequestRecords, NoRequest, NoToken, Tokens
      <3> QED
        BY <2>1, <3>1 DEF AccessTypeOK, ThreadRecords, NoThread
    <2>3. WarmUp' /\ RequestsAfterWarmUp'
      BY <2>1 DEF WarmUp, RequestsAfterWarmUp, Threads, NoThread
    <2>4. TokensOfTheKey'
      <3>1. boots \in Nat /\ \A t \in tokens : t.boot \in Nat /\ t.boot <= boots
        BY DEF AccessTypeOK, Tokens, TokensOfTheKey
      <3>2. \A t \in tokens : t.boot <= boots + 1 /\ t.boot # boots + 1
        BY <3>1
      <3> QED
        BY <2>1, <3>2 DEF TokensOfTheKey
    <2>5. ListedOrAhead' /\ RefusedForAReason'
      BY <2>1 DEF ListedOrAhead, RefusedForAReason, NoRequest
    <2> QED
      BY <2>2, <2>3, <2>4, <2>5
  <1> QED
    BY <1>1, <1>2, <1>3, <1>4, <1>5

\* Every step keeps the invariant.
LEMMA AccessNextInv == AccessInv /\ [AccessNext]_accessVars => AccessInv'
  <1> SUFFICES ASSUME AccessInv, [AccessNext]_accessVars PROVE AccessInv'
    OBVIOUS
  <1>1. CASE UNCHANGED accessVars
    BY <1>1 DEF accessVars, AccessInv, KeyInv, AccessTypeOK, WarmUp, TokensOfTheKey,
                RequestsAfterWarmUp, Serving, ListedOrAhead, Granted, RefusedForAReason
  <1> QED
    BY <1>1, KeyPreserves, RequestPreserves, RecordsPreserve DEF AccessNext

\* Every token the issuer signs keeps the key it verifies with, across overlapping
\* first requests and restarts with a durable key store; and however records come
\* and go between the pages and the URL of the issuer changes, a guest with a
\* token and a record for the URL of now is refused only by a failing lookup.
THEOREM AccessHolds == AccessSpec => []GuestsAreServed
  <1>1. AccessInv => GuestsAreServed
    <2> SUFFICES ASSUME AccessInv PROVE TokensVerify /\ GrantedGuestIsServed
      BY DEF GuestsAreServed
    <2>1. WarmUp => (signingKey \in {0, pem} /\ publicJwk \in {0, pem}) \/ pem = 0
      BY DEF WarmUp
    <2>2. TokensVerify
      BY <2>1 DEF AccessInv, KeyInv, TokensOfTheKey, TokensVerify
    <2>3. GrantedGuestIsServed
      BY DEF AccessInv, RefusedForAReason, GrantedGuestIsServed
    <2> QED
      BY <2>2, <2>3
  <1> QED
    BY AccessInitInv, AccessNextInv, <1>1, PTL DEF AccessSpec

-----------------------------------------------------------------------------
(* DigitalOceanRbac: a role is never published without its policy          *)

Files == {Policy(v) : v \in DoVms} \cup {Role(v) : v \in DoVms}

\* A set of files in which no role lacks its policy.
Paired(X) == \A v \in DoVms : Role(v) \in X => Policy(v) \in X

RbacTypeOK ==
    /\ doStep \in [DoVms -> {"idle", "isDir", "gitInit", "pull", "policy", "role", "add",
                             "commit", "push", "schema", "thrown"}]
    /\ {tree, gitIndex, gitCommits} \subseteq [DoBidders -> SUBSET Files]

\* Every place a set of files passes through on its way to the remote is paired;
\* the policy is in the tree before the role is written.
PairedEverywhere ==
    /\ \A b \in DoBidders : Paired(tree[b]) /\ Paired(gitIndex[b]) /\ Paired(gitCommits[b])
    /\ remote \subseteq Files /\ Paired(remote)
    /\ \A v \in DoVms : doStep[v] = "role" => Policy(v) \in tree[BidderOf[v]]

RbacInv == RbacTypeOK /\ PairedEverywhere

\* The initial states satisfy the invariant.
LEMMA RbacInitInv == DoInit => RbacInv
  BY DEF DoInit, RbacInv, RbacTypeOK, PairedEverywhere, Paired

\* Every step keeps the invariant.
LEMMA RbacNextInv == RbacInv /\ [DoNext]_doVars => RbacInv'
  <1> SUFFICES ASSUME RbacInv, [DoNext]_doVars PROVE RbacInv'
    OBVIOUS
  <1> USE DoAssumption DEF RbacInv, RbacTypeOK, PairedEverywhere, To
  <1>1. ASSUME NEW v \in DoVms, MakeDoctx(v) \/ IsDir(v) \/ GitInit(v) \/ ReturnRbacRef(v)
        PROVE  RbacInv'
    BY <1>1 DEF MakeDoctx, IsDir, GitInit, ReturnRbacRef
  <1>2. ASSUME NEW v \in DoVms, GitPull(v) PROVE RbacInv'
    <2> DEFINE b == BidderOf[v]
    <2>1. Paired(tree[b] \cup remote) /\ Paired(gitIndex[b] \cup remote)
      BY DEF Paired
    <2>2. doStep' = [doStep EXCEPT ![v] = "policy"] /\ remote' = remote
      BY <1>2 DEF GitPull
    <2>3. CASE UNCHANGED <<tree, gitIndex, gitCommits>>
      BY <2>2, <2>3
    <2>4. CASE /\ tree' = [tree EXCEPT ![b] = @ \cup remote]
               /\ gitIndex' = [gitIndex EXCEPT ![b] = @ \cup remote]
               /\ gitCommits' = [gitCommits EXCEPT ![b] = remote]
      <3>1. RbacTypeOK'
        BY <2>2, <2>4
      <3>2. PairedEverywhere'
        BY <2>1, <2>2, <2>4
      <3> QED
        BY <3>1, <3>2
    <2> QED
      BY <1>2, <2>3, <2>4 DEF GitPull
  <1>3. ASSUME NEW v \in DoVms, WriteFiles(v) PROVE RbacInv'
    <2> DEFINE b == BidderOf[v]
    <2>1. CASE doStep[v] = "policy"
      <3>1. /\ tree' = [tree EXCEPT ![b] = @ \cup {Policy(v)}]
            /\ doStep' = [doStep EXCEPT ![v] = "role"]
            /\ UNCHANGED <<gitIndex, gitCommits, remote>>
        BY <1>3, <2>1 DEF WriteFiles
      <3>2. Policy(v) \in Files /\ Paired(tree[b] \cup {Policy(v)})
        BY DEF Paired, Files, Policy, Role
      <3> QED
        BY <3>1, <3>2
    <2>2. CASE doStep[v] = "role"
      <3>1. /\ tree' = [tree EXCEPT ![b] = @ \cup {Role(v)}]
            /\ doStep' = [doStep EXCEPT ![v] = "add"]
            /\ UNCHANGED <<gitIndex, gitCommits, remote>>
        BY <1>3, <2>2 DEF WriteFiles
      <3>2. Role(v) \in Files /\ Paired(tree[b] \cup {Role(v)})
        BY <2>2 DEF Paired, Files, Policy, Role
      <3> QED
        BY <3>1, <3>2
    <2> QED
      BY <1>3, <2>1, <2>2 DEF WriteFiles
  <1>4. ASSUME NEW v \in DoVms, GitAdd(v) \/ GitCommit(v) PROVE RbacInv'
    BY <1>4 DEF GitAdd, GitCommit
  <1>5. ASSUME NEW v \in DoVms, GitPush(v) PROVE RbacInv'
    BY <1>5 DEF GitPush
  <1>6. CASE UNCHANGED doVars
    BY <1>6 DEF doVars
  <1> QED
    BY <1>1, <1>2, <1>3, <1>4, <1>5, <1>6 DEF DoNext, DoStep

\* However the provisionings of a clone interleave, whichever git commands fail
\* and whoever else pushes, the remote never has a role without its policy.
THEOREM RolesCarryPolicies == DoSpec => []RolesHavePolicies
  <1>1. RbacInv => RolesHavePolicies
    BY DEF RbacInv, PairedEverywhere, Paired, RolesHavePolicies
  <1> QED
    BY RbacInitInv, RbacNextInv, <1>1, PTL DEF DoSpec

-----------------------------------------------------------------------------
(* Loops and powers                                                        *)

\* f is the course of a loop that starts at base and takes m turns F.
Course(f, radix, F, m) == f[0] = radix /\ \A k \in 1..m : f[k] = F[k][f[k - 1]]

\* A loop of n turns F from a state in X has a course.
LEMMA LoopExists ==
    ASSUME NEW X, NEW radix \in X, NEW n \in Nat, NEW F \in [1..n -> [X -> X]]
    PROVE  \E f \in [0..n -> X] : Course(f, radix, F, n)
  <1> USE DEF Course
  <1> DEFINE S == {m \in Nat : m <= n => \E f \in [0..m -> X] : Course(f, radix, F, m)}
  <1>1. 0 \in S
    <2>1. PICK f : f = [k \in 0..0 |-> radix]
      OBVIOUS
    <2>2. f \in [0..0 -> X] /\ Course(f, radix, F, 0)
      BY <2>1
    <2> QED BY <2>2
  <1>2. ASSUME NEW m \in Nat, m \in S PROVE m + 1 \in S
    <2>1. SUFFICES ASSUME m + 1 <= n
                   PROVE  \E f \in [0..(m + 1) -> X] : Course(f, radix, F, m + 1)
      OBVIOUS
    <2>2. PICK g \in [0..m -> X] : Course(g, radix, F, m)
      BY <1>2, <2>1
    <2>3. PICK f : f = [k \in 0..(m + 1) |-> IF k = m + 1 THEN F[m + 1][g[m]] ELSE g[k]]
      OBVIOUS
    <2>4. F[m + 1][g[m]] \in X /\ m + 1 \in 1..n
      BY <2>1
    <2>5. f \in [0..(m + 1) -> X]
      BY <2>3, <2>4
    <2>6. f[0] = radix
      BY <2>2, <2>3
    <2>7. ASSUME NEW k \in 1..(m + 1) PROVE f[k] = F[k][f[k - 1]]
      <3>1. CASE k = m + 1
        <4>1. f[k] = F[m + 1][g[m]] /\ f[k - 1] = g[m]
          BY <2>3, <3>1
        <4> QED BY <3>1, <4>1
      <3>2. CASE k # m + 1
        <4>1. k \in 1..m /\ k - 1 \in 0..m
          BY <3>2
        <4>2. f[k] = g[k] /\ f[k - 1] = g[k - 1]
          BY <2>3, <4>1
        <4> QED BY <2>2, <4>1, <4>2
      <3> QED BY <3>1, <3>2
    <2> QED BY <2>5, <2>6, <2>7
  <1>3. Nat \subseteq S
    <2> HIDE DEF S
    <2> QED BY <1>1, <1>2, SetInduction
  <1> QED BY <1>3

\* f holds the powers of b up to the n-th.
Powers(f, b, n) == f[0] = 1 /\ \A k \in 1..n : f[k] = b * f[k - 1]

\* The recursion of Power has a solution.
LEMMA PowerIsLast ==
    ASSUME NEW b \in Nat, NEW n \in Nat
    PROVE  \E f \in [0..n -> Nat] : Powers(f, b, n) /\ Power(b, n) = f[n]
  <1> DEFINE body(f, k) == IF k = 0 THEN 1 ELSE b * f[k - 1]
             up == CHOOSE f : f = [k \in 0..n |-> body(f, k)]
             F == [k \in 1..n |-> [x \in Nat |-> b * x]]
  <1>1. F \in [1..n -> [Nat -> Nat]]
    OBVIOUS
  <1>2. PICK g \in [0..n -> Nat] : Course(g, 1, F, n)
    <2>1. 0 \in Nat /\ 1 \in Nat
      OBVIOUS
    <2> HIDE DEF F
    <2> QED BY <1>1, <2>1, LoopExists
  <1>3. \A k \in 1..n : g[k] = b * g[k - 1]
    <2>1. \A k \in 1..n : g[k - 1] \in Nat
      OBVIOUS
    <2> QED BY <1>2, <2>1 DEF Course
  <1>4. g = [k \in 0..n |-> body(g, k)]
    <2>1. \A k \in 0..n : g[k] = body(g, k)
      BY <1>2, <1>3 DEF Course
    <2> HIDE DEF body
    <2> QED BY <2>1
  <1>5. up = [k \in 0..n |-> body(up, k)]
    <2> HIDE DEF body
    <2> QED BY <1>4
  <1>6. Power(b, n) = up[n]
    BY DEF Power
  <1> HIDE DEF up
  <1>7. up[0] = 1 /\ \A k \in 1..n : up[k] = b * up[k - 1]
    BY <1>5
  <1>8. \A k \in 0..n : up[k] \in Nat
    <2> DEFINE S == {k \in Nat : k <= n => up[k] \in Nat}
    <2>1. 0 \in S
      BY <1>7
    <2>2. ASSUME NEW k \in Nat, k \in S PROVE k + 1 \in S
      <3>1. SUFFICES ASSUME k + 1 <= n PROVE up[k + 1] \in Nat
        OBVIOUS
      <3>2. k + 1 \in 1..n /\ (k + 1) - 1 = k
        BY <3>1
      <3>3. PICK x \in Nat : x = up[k]
        BY <2>2, <3>1
      <3>4. up[k + 1] = b * x
        BY <1>7, <3>2, <3>3
      <3> QED BY <3>4
    <2>3. Nat \subseteq S
      <3> HIDE DEF S
      <3> QED BY <2>1, <2>2, SetInduction
    <2> QED BY <2>3
  <1>9. up \in [0..n -> Nat]
    BY <1>5, <1>8
  <1> QED BY <1>6, <1>7, <1>9 DEF Powers

\* Longer lists of powers begin with the shorter ones.
LEMMA PowersAgree ==
    ASSUME NEW b, NEW n \in Nat, NEW m \in Nat, NEW f, NEW g, n <= m,
           Powers(f, b, n), Powers(g, b, m)
    PROVE  f[n] = g[n]
  <1> DEFINE S == {k \in Nat : k <= n => f[k] = g[k]}
  <1>1. 0 \in S
    BY DEF Powers
  <1>2. ASSUME NEW k \in Nat, k \in S PROVE k + 1 \in S
    <2>1. k + 1 <= n => k + 1 \in 1..n /\ k + 1 \in 1..m /\ (k + 1) - 1 = k
      OBVIOUS
    <2> QED BY <1>2, <2>1 DEF Powers
  <1>3. Nat \subseteq S
    <2> HIDE DEF S
    <2> QED BY <1>1, <1>2, SetInduction
  <1> QED BY <1>3

\* A power is the base times the power before it.
LEMMA PowerUnfolds ==
    ASSUME NEW b \in Nat
    PROVE  /\ Power(b, 0) = 1
           /\ \A n \in Nat : Power(b, n) \in Nat /\ Power(b, n + 1) = b * Power(b, n)
  <1>1. Power(b, 0) = 1
    BY PowerIsLast DEF Powers
  <1>2. ASSUME NEW n \in Nat
        PROVE  Power(b, n) \in Nat /\ Power(b, n + 1) = b * Power(b, n)
    <2>1. PICK f \in [0..n -> Nat] : Powers(f, b, n) /\ Power(b, n) = f[n]
      BY PowerIsLast
    <2>2. PICK g \in [0..(n + 1) -> Nat] :
                 Powers(g, b, n + 1) /\ Power(b, n + 1) = g[n + 1]
      <3>1. n + 1 \in Nat
        OBVIOUS
      <3> QED BY <3>1, PowerIsLast
    <2>3. g[n + 1] = b * g[n]
      BY <2>2 DEF Powers
    <2>4. f[n] = g[n]
      BY <2>1, <2>2, PowersAgree
    <2> QED BY <2>1, <2>2, <2>3, <2>4
  <1> QED BY <1>1, <1>2

\* Powers of a positive base are positive.
LEMMA PowerPositive ==
    ASSUME NEW b \in Nat, b > 0, NEW n \in Nat
    PROVE  Power(b, n) \in Nat /\ Power(b, n) > 0
  <1> DEFINE S == {k \in Nat : Power(b, k) > 0}
  <1>1. 0 \in S
    BY PowerUnfolds
  <1>2. ASSUME NEW k \in Nat, k \in S PROVE k + 1 \in S
    <2>1. PICK x \in Nat : x = Power(b, k) /\ x > 0 /\ Power(b, k + 1) = b * x
      BY <1>2, PowerUnfolds
    <2>2. b * x > 0
      <3>1. PICK c \in Nat : b = c + 1
        <4>1. b - 1 \in Nat /\ b = (b - 1) + 1
          OBVIOUS
        <4> QED BY <4>1
      <3>2. b * x = c * x + x /\ c * x >= 0
        BY <3>1
      <3> QED BY <2>1, <3>2
    <2> QED BY <2>1, <2>2
  <1>3. Nat \subseteq S
    <2> HIDE DEF S
    <2> QED BY <1>1, <1>2, SetInduction
  <1> QED BY <1>3, PowerUnfolds

-----------------------------------------------------------------------------
(* Numbers and their digits                                                *)

\* The numbers on the way of NumberOf: each the one before it, one place on,
\* and the next digit.
Sums(f, radix, d, n) == f[0] = 0 /\ \A k \in 1..n : f[k] = radix * f[k - 1] + d[k]

\* The recursion of NumberOf has a solution.
LEMMA NumberIsLast ==
    ASSUME NEW radix \in Nat, NEW n \in Nat, NEW d \in [1..n -> Nat]
    PROVE  \E f \in [0..n -> Nat] : Sums(f, radix, d, n) /\ NumberOf(radix, d, n) = f[n]
  <1> DEFINE body(f, k) == IF k = 0 THEN 0 ELSE radix * f[k - 1] + d[k]
             up == CHOOSE f : f = [k \in 0..n |-> body(f, k)]
             F == [k \in 1..n |-> [x \in Nat |-> radix * x + d[k]]]
  <1>1. F \in [1..n -> [Nat -> Nat]]
    OBVIOUS
  <1>2. PICK g \in [0..n -> Nat] : Course(g, 0, F, n)
    <2>1. 0 \in Nat /\ 1 \in Nat
      OBVIOUS
    <2> HIDE DEF F
    <2> QED BY <1>1, <2>1, LoopExists
  <1>3. \A k \in 1..n : g[k] = radix * g[k - 1] + d[k]
    <2>1. \A k \in 1..n : g[k - 1] \in Nat
      OBVIOUS
    <2> QED BY <1>2, <2>1 DEF Course
  <1>4. g = [k \in 0..n |-> body(g, k)]
    <2>1. \A k \in 0..n : g[k] = body(g, k)
      BY <1>2, <1>3 DEF Course
    <2> HIDE DEF body
    <2> QED BY <2>1
  <1>5. up = [k \in 0..n |-> body(up, k)]
    <2> HIDE DEF body
    <2> QED BY <1>4
  <1>6. NumberOf(radix, d, n) = up[n]
    BY DEF NumberOf
  <1> HIDE DEF up
  <1>7. up[0] = 0 /\ \A k \in 1..n : up[k] = radix * up[k - 1] + d[k]
    BY <1>5
  <1>8. \A k \in 0..n : up[k] \in Nat
    <2> DEFINE S == {k \in Nat : k <= n => up[k] \in Nat}
    <2>1. 0 \in S
      BY <1>7
    <2>2. ASSUME NEW k \in Nat, k \in S PROVE k + 1 \in S
      <3>1. SUFFICES ASSUME k + 1 <= n PROVE up[k + 1] \in Nat
        OBVIOUS
      <3>2. k + 1 \in 1..n /\ (k + 1) - 1 = k /\ d[k + 1] \in Nat /\ up[k] \in Nat
        BY <2>2, <3>1
      <3>3. up[k + 1] = radix * up[k] + d[k + 1]
        BY <1>7, <3>2
      <3>4. PICK x \in Nat : x = up[k]
        BY <3>2
      <3>5. PICK y \in Nat : y = d[k + 1]
        BY <3>2
      <3>6. up[k + 1] = radix * x + y
        BY <3>3, <3>4, <3>5
      <3> QED BY <3>6
    <2>3. Nat \subseteq S
      <3> HIDE DEF S
      <3> QED BY <2>1, <2>2, SetInduction
    <2> QED BY <2>3
  <1>9. up \in [0..n -> Nat]
    BY <1>5, <1>8
  <1> QED BY <1>6, <1>7, <1>9 DEF Sums

\* Division with remainder is unique.
LEMMA Remainder ==
    ASSUME NEW b \in Nat, NEW q \in Nat, NEW r \in Nat, r < b
    PROVE  (b * q + r) \div b = q /\ (b * q + r) % b = r
  OBVIOUS

\* Division with remainder is there.
LEMMA Division ==
    ASSUME NEW v \in Nat, NEW b \in Nat, b > 0
    PROVE  \E q \in Nat, r \in Nat : q = v \div b /\ r = v % b /\ r < b /\ v = b * q + r
  <1>1. v \div b \in Nat
    OBVIOUS
  <1>2. v % b \in Nat /\ v % b < b
    OBVIOUS
  <1>3. v = b * (v \div b) + (v % b)
    OBVIOUS
  <1> QED BY <1>1, <1>2, <1>3

\* Dividing twice is dividing by the product.
Twice(v, b, c) == (v \div b) \div c = v \div (b * c)

\* Numbers are so divided.
LEMMA DivideTwice ==
    ASSUME NEW v \in Nat, NEW b \in Nat, NEW c \in Nat, b > 0, c > 0
    PROVE  Twice(v, b, c)
  BY DEF Twice

\* The remainder r by b and the remainder m by p of the quotient make the one by
\* their product.
Composed(u, b, p, m, r) == u % (b * p) = b * m + r

\* Remainders are so composed.
LEMMA RemainderByProduct ==
    ASSUME NEW u \in Nat, NEW b \in Nat, NEW p \in Nat, b > 0, p > 0,
           NEW a \in Nat, NEW m \in Nat, NEW r \in Nat,
           a = u \div b, m = a % p, r = u % b
    PROVE  Composed(u, b, p, m, r)
  <1>1. u = b * a + r /\ r < b
    BY Division
  <1>2. PICK c \in Nat : a = p * c + m /\ m < p
    BY Division
  <1>3. u = (b * p) * c + (b * m + r)
    <2>1. b * a = b * (p * c) + b * m
      BY <1>2
    <2>2. b * (p * c) = (b * p) * c
      OBVIOUS
    <2> QED BY <1>1, <2>1, <2>2
  <1>4. b * m + r < b * p
    <2>1. PICK j \in Nat : p = m + 1 + j
      <3>1. p - m - 1 \in Nat
        BY <1>2
      <3>2. p = m + 1 + (p - m - 1)
        BY <1>2
      <3> QED BY <3>1, <3>2
    <2>2. b * p = b * m + b + b * j /\ b * j >= 0
      <3>1. b * (m + 1 + j) = b * m + b + b * j /\ b * j >= 0
        OBVIOUS
      <3> QED BY <2>1, <3>1
    <2>3. PICK x \in Nat, y \in Nat : x = b * m /\ y = b * j
      OBVIOUS
    <2> QED BY <1>1, <2>2, <2>3
  <1>5. u % (b * p) = b * m + r
    <2>1. PICK bp \in Nat, rest \in Nat : bp = b * p /\ rest = b * m + r
      OBVIOUS
    <2>2. u = bp * c + rest /\ rest < bp
      BY <1>3, <1>4, <2>1
    <2>3. u % bp = rest
      BY <2>2, Remainder
    <2> QED BY <2>1, <2>3
  <1> QED BY <1>5 DEF Composed

\* The digits of a number are digits.
LEMMA DigitsType ==
    ASSUME NEW radix \in Nat, radix > 0, NEW v \in Nat, NEW n \in Nat
    PROVE  Digits(radix, v, n) \in [1..n -> 0..(radix - 1)]
  <1>1. ASSUME NEW i \in 1..n PROVE (v \div Power(radix, n - i)) % radix \in 0..(radix - 1)
    <2>1. n - i \in Nat
      OBVIOUS
    <2>2. PICK p \in Nat : p = Power(radix, n - i) /\ p > 0
      BY <2>1, PowerPositive
    <2>3. PICK q \in Nat : q = v \div p
      BY <2>2
    <2> QED BY <2>2, <2>3
  <1> QED BY <1>1 DEF Digits

\* The n lowest digits of v make the remainder of v by the n-th power.
LEMMA NumberOfDigits ==
    ASSUME NEW radix \in Nat, radix > 0, NEW v \in Nat, NEW n \in Nat
    PROVE  NumberOf(radix, Digits(radix, v, n), n) = v % Power(radix, n)
  <1>1. PICK d \in [1..n -> Nat] : d = Digits(radix, v, n)
    <2>1. 0..(radix - 1) \subseteq Nat
      OBVIOUS
    <2>2. Digits(radix, v, n) \in [1..n -> 0..(radix - 1)]
      BY DigitsType
    <2>3. Digits(radix, v, n) \in [1..n -> Nat]
      BY <2>1, <2>2
    <2> QED BY <2>3
  <1>2. PICK f \in [0..n -> Nat] : Sums(f, radix, d, n) /\ NumberOf(radix, d, n) = f[n]
    BY NumberIsLast
  <1> DEFINE P(k) == Power(radix, k)
             S == {k \in Nat : k <= n => f[k] = (v \div P(n - k)) % P(k)}
  <1>3. \A k \in Nat : P(k) \in Nat /\ P(k) > 0 /\ P(k + 1) = radix * P(k)
    BY PowerPositive, PowerUnfolds
  <1>4. P(0) = 1
    BY PowerUnfolds
  <1>5. 0 \in S
    <2>0. PICK x \in Nat : x = P(n - 0) /\ x > 0
      <3>1. n - 0 \in Nat
        OBVIOUS
      <3> QED BY <1>3, <3>1
    <2>1. PICK q \in Nat : q = v \div P(n - 0)
      BY <2>0, Division
    <2>2. q % 1 = 0
      OBVIOUS
    <2> QED BY <1>2, <1>4, <2>1, <2>2 DEF Sums
  <1>6. ASSUME NEW k \in Nat, k \in S PROVE k + 1 \in S
    <2>1. SUFFICES ASSUME k + 1 <= n
                   PROVE  f[k + 1] = (v \div P(n - (k + 1))) % P(k + 1)
      OBVIOUS
    <2>2. PICK m \in Nat : m = n - (k + 1) /\ n - k = m + 1
      <3>1. n - (k + 1) \in Nat /\ n - k = (n - (k + 1)) + 1
        BY <2>1
      <3> QED BY <3>1
    <2>3. PICK x \in Nat, p \in Nat : x = P(m) /\ p = P(k) /\ x > 0 /\ p > 0
      BY <1>3
    <2>4. P(n - k) = radix * x /\ P(k + 1) = radix * p
      BY <1>3, <2>2, <2>3
    <2>5. PICK u \in Nat : u = v \div x
      BY <2>3, Division
    <2>6. v \div P(n - k) = u \div radix
      <3>1. PICK w \in Nat, c \in Nat : w = v /\ c = radix /\ c > 0
        OBVIOUS
      <3>1a. w \in Nat /\ x \in Nat /\ c \in Nat /\ x > 0 /\ c > 0
        BY <2>3, <3>1
      <3>1b. Twice(w, x, c)
        BY <3>1a, DivideTwice
      <3>2. (w \div x) \div c = w \div (x * c)
        BY <3>1b DEF Twice
      <3>3. x * radix = radix * x
        OBVIOUS
      <3>4. (v \div x) \div radix = v \div (radix * x)
        BY <3>1, <3>2, <3>3
      <3> QED BY <2>4, <2>5, <3>4
    <2>6a. PICK a \in Nat, r \in Nat : a = u \div radix /\ r = u % radix
      BY Division
    <2>6b. PICK z \in Nat : z = a % p
      BY <2>3, Division
    <2>7. f[k] = z
      BY <1>6, <2>1, <2>3, <2>6, <2>6a, <2>6b
    <2>8. k + 1 \in 1..n /\ (k + 1) - 1 = k
      BY <2>1
    <2>9. d[k + 1] = r
      BY <1>1, <2>2, <2>3, <2>5, <2>6a, <2>8 DEF Digits
    <2>10. f[k + 1] = radix * z + r
      <3>1. f[k + 1] = radix * f[(k + 1) - 1] + d[k + 1]
        BY <1>2, <2>8 DEF Sums
      <3>2. (k + 1) - 1 = k
        BY <2>8
      <3>3. f[k + 1] = radix * f[k] + d[k + 1]
        BY <3>1, <3>2
      <3>4. radix * f[k] + d[k + 1] = radix * z + r
        BY <2>7, <2>9
      <3> QED BY <3>3, <3>4
    <2>11. f[k + 1] = u % (radix * p)
      <3>1. /\ u \in Nat /\ p \in Nat /\ a \in Nat /\ z \in Nat /\ r \in Nat /\ p > 0
            /\ a = u \div radix /\ z = a % p /\ r = u % radix
        BY <2>3, <2>5, <2>6a, <2>6b
      <3>2. Composed(u, radix, p, z, r)
        BY <3>1, RemainderByProduct
      <3>3. u % (radix * p) = radix * z + r
        BY <3>2 DEF Composed
      <3> QED BY <2>10, <3>3
    <2> QED BY <2>2, <2>3, <2>4, <2>5, <2>11
  <1>7. Nat \subseteq S
    <2> HIDE DEF S
    <2> QED BY <1>5, <1>6, SetInduction
  <1>8. f[n] = (v \div P(0)) % P(n)
    <2>1. n - n = 0
      OBVIOUS
    <2> QED BY <1>7, <2>1
  <1>9. v \div 1 = v
    OBVIOUS
  <1> QED BY <1>1, <1>2, <1>4, <1>8, <1>9

\* Digits make a number below the n-th power, and are the digits of it.
LEMMA DigitsOfNumber ==
    ASSUME NEW radix \in Nat, radix > 0, NEW n \in Nat, NEW d \in [1..n -> 0..(radix - 1)]
    PROVE  /\ NumberOf(radix, d, n) \in Nat
           /\ NumberOf(radix, d, n) < Power(radix, n)
           /\ Digits(radix, NumberOf(radix, d, n), n) = d
  <1>1. d \in [1..n -> Nat]
    OBVIOUS
  <1>2. PICK f \in [0..n -> Nat] : Sums(f, radix, d, n) /\ NumberOf(radix, d, n) = f[n]
    BY <1>1, NumberIsLast
  <1> DEFINE P(k) == Power(radix, k)
  <1>3. \A k \in Nat : P(k) \in Nat /\ P(k) > 0 /\ P(k + 1) = radix * P(k)
    BY PowerPositive, PowerUnfolds
  <1>4. P(0) = 1
    BY PowerUnfolds
  <1>5. f[n] < P(n)
    <2> DEFINE S == {k \in Nat : k <= n => f[k] < P(k)}
    <2>1. 0 \in S
      BY <1>2, <1>4 DEF Sums
    <2>2. ASSUME NEW k \in Nat, k \in S PROVE k + 1 \in S
      <3>1. SUFFICES ASSUME k + 1 <= n PROVE f[k + 1] < P(k + 1)
        OBVIOUS
      <3>2. k + 1 \in 1..n /\ (k + 1) - 1 = k /\ k \in 0..n
        BY <3>1
      <3>3. PICK x \in Nat, y \in Nat, p \in Nat :
                   /\ x = f[k] /\ y = d[k + 1] /\ p = P(k)
                   /\ x < p /\ y < radix
        <4>1. f[k] \in Nat /\ d[k + 1] \in 0..(radix - 1)
          BY <3>2
        <4>2. f[k] < P(k) /\ P(k) \in Nat
          BY <1>3, <2>2, <3>1
        <4>3. d[k + 1] \in Nat /\ d[k + 1] < radix
          BY <4>1
        <4> HIDE DEF P
        <4> QED BY <4>1, <4>2, <4>3
      <3>4. f[k + 1] = radix * x + y
        BY <1>2, <3>2, <3>3 DEF Sums
      <3>5. PICK j \in Nat : p = x + 1 + j
        <4>1. x < p
          BY <3>3
        <4>2. p - x - 1 \in Nat /\ p = x + 1 + (p - x - 1)
          BY <4>1
        <4> QED BY <4>2
      <3>6. radix * p = radix * x + radix + radix * j /\ radix * j >= 0
        BY <3>5
      <3>7. PICK bx \in Nat, bj \in Nat : bx = radix * x /\ bj = radix * j
        <4>1. radix * x \in Nat /\ radix * j \in Nat
          OBVIOUS
        <4> QED BY <4>1
      <3>8. radix * x + y < radix * p
        <4>1. y < radix
          BY <3>3
        <4>2. radix * p = bx + radix + bj /\ radix * x + y = bx + y
          BY <3>6, <3>7
        <4> QED BY <4>1, <4>2
      <3> QED BY <1>3, <3>3, <3>4, <3>8
    <2>3. Nat \subseteq S
      <3> HIDE DEF S
      <3> QED BY <2>1, <2>2, SetInduction
    <2> QED BY <2>3
  <1>6. ASSUME NEW i \in 1..n PROVE f[i] % radix = d[i] /\ f[i] \div radix = f[i - 1]
    <2>1. PICK x \in Nat, y \in Nat : x = f[i - 1] /\ y = d[i] /\ y < radix
      <3>1. i - 1 \in 0..n /\ d[i] \in 0..(radix - 1)
        OBVIOUS
      <3>2. f[i - 1] \in Nat /\ d[i] \in Nat /\ d[i] < radix
        BY <3>1
      <3> QED BY <3>2
    <2>2. f[i] = radix * x + y
      BY <1>2, <2>1 DEF Sums
    <2>3. y < radix
      BY <2>1
    <2>4. (radix * x + y) \div radix = x /\ (radix * x + y) % radix = y
      BY <2>3, Remainder
    <2> QED BY <2>1, <2>2, <2>4
  <1>7. ASSUME NEW i \in 0..n PROVE f[i] = f[n] \div P(n - i)
    <2> DEFINE S == {j \in Nat : j <= n => f[n - j] = f[n] \div P(j)}
    <2>1. 0 \in S
      BY <1>4
    <2>2. ASSUME NEW j \in Nat, j \in S PROVE j + 1 \in S
      <3>1. SUFFICES ASSUME j + 1 <= n PROVE f[n - (j + 1)] = f[n] \div P(j + 1)
        OBVIOUS
      <3>2. n - j \in 1..n /\ (n - j) - 1 = n - (j + 1)
        BY <3>1
      <3>3. f[n - (j + 1)] = f[n - j] \div radix
        BY <1>6, <3>2
      <3>4. PICK v \in Nat, p \in Nat : v = f[n] /\ p = P(j) /\ p > 0
        <4>1. f[n] \in Nat
          OBVIOUS
        <4> HIDE DEF P
        <4> QED BY <1>3, <4>1
      <3>5. f[n - j] = v \div p
        BY <2>2, <3>1, <3>4
      <3>5a. Twice(v, p, radix)
        BY <3>4, DivideTwice
      <3>6. (v \div p) \div radix = v \div (p * radix)
        BY <3>5a DEF Twice
      <3>7. p * radix = radix * p
        OBVIOUS
      <3> QED BY <1>3, <3>3, <3>4, <3>5, <3>6, <3>7
    <2>3. Nat \subseteq S
      <3> HIDE DEF S
      <3> QED BY <2>1, <2>2, SetInduction
    <2>4. n - i \in Nat /\ n - i <= n /\ n - (n - i) = i
      OBVIOUS
    <2> QED BY <2>3, <2>4
  <1>8. Digits(radix, f[n], n) = d
    <2>1. ASSUME NEW i \in 1..n PROVE (f[n] \div P(n - i)) % radix = d[i]
      BY <1>6, <1>7
    <2> QED BY <2>1 DEF Digits
  <1> QED BY <1>2, <1>5, <1>8

-----------------------------------------------------------------------------
(* Heads of items                                                          *)

\* The bytes stand in buf from p on.
Placed(buf, p, bytes) == \A i \in 1..Len(bytes) : buf[p + i - 1] = bytes[i]

\* What a reader of four-byte words with a sign makes of a number.
ReadsAs(v) == IF v < Word THEN Signed(v) ELSE Signed(v \div Word) * Word + Signed(v % Word)

\* A byte has two bits at least; two bytes fit into half a word.
LEMMA Widths ==
    /\ Byte \in Nat /\ Byte > 3 /\ Power(Byte, 1) = Byte
    /\ Power(Byte, 2) \in Nat /\ Power(Byte, 2) > Byte + 1
    /\ Word \in Nat /\ Word > 0 /\ Power(Byte, 2) <= Word \div 2 /\ Word = Power(Byte, 4)
  <1>1. PICK k \in Nat : ByteBits = k + 2
    <2>1. ByteBits - 2 \in Nat /\ ByteBits = (ByteBits - 2) + 2
      BY BytesAssumption
    <2> QED BY <2>1
  <1>2. PICK x \in Nat : x = Power(2, k) /\ x > 0
    BY PowerPositive
  <1>3. Byte = 4 * x
    <2>1. Power(2, k + 1) = 2 * x
      BY <1>2, PowerUnfolds
    <2>2. k + 1 \in Nat /\ (k + 1) + 1 = k + 2
      OBVIOUS
    <2>3. Power(2, (k + 1) + 1) = 2 * Power(2, k + 1)
      BY <2>2, PowerUnfolds
    <2> QED BY <1>1, <2>1, <2>2, <2>3 DEF Byte
  <1>4. PICK b \in Nat : b = Byte /\ b > 3
    BY <1>2, <1>3
  <1>5. /\ Power(b, 1) = b /\ Power(b, 2) = b * b
        /\ Power(b, 3) = b * (b * b) /\ Power(b, 4) = b * (b * (b * b))
    <2>1. /\ Power(b, 0) = 1 /\ Power(b, 0 + 1) = b * Power(b, 0)
          /\ Power(b, 1 + 1) = b * Power(b, 1) /\ Power(b, 2 + 1) = b * Power(b, 2)
          /\ Power(b, 3 + 1) = b * Power(b, 3)
      BY PowerUnfolds
    <2>2. 0 + 1 = 1 /\ 1 + 1 = 2 /\ 2 + 1 = 3 /\ 3 + 1 = 4
      OBVIOUS
    <2> QED BY <2>1, <2>2
  <1>6. PICK y \in Nat : y = b * b /\ y > b + 1 /\ y >= 16
    <2>1. b * b \in Nat
      OBVIOUS
    <2>2. b * b >= 4 * b
      BY <1>4
    <2> QED BY <1>4, <2>1, <2>2
  <1>7. PICK w \in Nat : w = y * y /\ w >= 2 * y
    <2>1. y * y \in Nat /\ y * y >= 2 * y
      BY <1>6
    <2> QED BY <2>1
  <1>8. Word = w
    <2>1. b * (b * (b * b)) = (b * b) * (b * b)
      OBVIOUS
    <2> QED BY <1>4, <1>5, <1>6, <1>7, <2>1 DEF Word
  <1>9. y <= w \div 2 /\ w > 0
    BY <1>6, <1>7
  <1> QED BY <1>4, <1>5, <1>6, <1>8, <1>9 DEF Word

\* Bytes are read as the number they are the digits of.
LEMMA FromPlaced ==
    ASSUME NEW v \in Nat, NEW n \in Nat, NEW p \in Nat, NEW buf,
           Placed(buf, p, Digits(Byte, v, n))
    PROVE  FromBytes(buf, p, n) = v % Power(Byte, n)
  <1>0. Byte \in Nat /\ Byte > 0
    BY Widths
  <1>1. Digits(Byte, v, n) \in [1..n -> 0..(Byte - 1)]
    BY <1>0, DigitsType
  <1>2. Len(Digits(Byte, v, n)) = n
    BY <1>1
  <1>3. [i \in 1..n |-> buf[p + i - 1]] = Digits(Byte, v, n)
    <2>1. \A i \in 1..n : buf[p + i - 1] = Digits(Byte, v, n)[i]
      BY <1>2 DEF Placed
    <2> QED BY <2>1 DEF Digits
  <1>4. NumberOf(Byte, Digits(Byte, v, n), n) = v % Power(Byte, n)
    BY <1>0, NumberOfDigits
  <1> QED BY <1>3, <1>4 DEF FromBytes

\* Digits of a number are as many bytes.
LEMMA DigitsLength ==
    ASSUME NEW v \in Nat, NEW n \in Nat
    PROVE  /\ Digits(Byte, v, n) \in Seq(Nat) /\ Len(Digits(Byte, v, n)) = n
  <1>0. Byte \in Nat /\ Byte > 0
    BY Widths
  <1>1. PICK d \in [1..n -> 0..(Byte - 1)] : d = Digits(Byte, v, n)
    BY <1>0, DigitsType
  <1>2. d \in [1..n -> Nat]
    <2>1. 0..(Byte - 1) \subseteq Nat
      BY <1>0
    <2> QED BY <2>1
  <1> QED BY <1>1, <1>2

\* A first byte and what follows it are placed one after the other.
LEMMA PlacedHead ==
    ASSUME NEW S, NEW x \in S, NEW d \in Seq(S), NEW p \in Nat, NEW buf, Placed(buf, p, <<x>> \o d)
    PROVE  /\ buf[p] = x
           /\ Placed(buf, p + 1, d)
           /\ Len(<<x>> \o d) = 1 + Len(d)
  <1>1. <<x>> \in Seq(S) /\ Len(<<x>>) = 1
    OBVIOUS
  <1>2. /\ Len(<<x>> \o d) = 1 + Len(d)
        /\ \A i \in 1..(1 + Len(d)) : (<<x>> \o d)[i] = IF i <= 1 THEN <<x>>[i] ELSE d[i - 1]
    BY <1>1, ConcatProperties
  <1>3. buf[p] = x
    <2>1. 1 \in 1..(1 + Len(d)) /\ p + 1 - 1 = p /\ Len(d) \in Nat
      OBVIOUS
    <2> QED BY <1>2, <2>1 DEF Placed
  <1>4. ASSUME NEW i \in 1..Len(d) PROVE buf[(p + 1) + i - 1] = d[i]
    <2>1. i + 1 \in 1..(1 + Len(d)) /\ ~(i + 1 <= 1) /\ (i + 1) - 1 = i
      OBVIOUS
    <2>2. (<<x>> \o d)[i + 1] = d[i]
      BY <1>2, <2>1
    <2>3. buf[p + (i + 1) - 1] = d[i]
      BY <1>2, <2>1, <2>2 DEF Placed
    <2>4. p + (i + 1) - 1 = (p + 1) + i - 1
      OBVIOUS
    <2> QED BY <2>3, <2>4
  <1> QED BY <1>2, <1>3, <1>4 DEF Placed

\* Two parts are placed one after the other.
LEMMA PlacedParts ==
    ASSUME NEW S, NEW c \in Seq(S), NEW d \in Seq(S), NEW p \in Nat, NEW buf, Placed(buf, p, c \o d)
    PROVE  Placed(buf, p, c) /\ Placed(buf, p + Len(c), d)
  <1>1. /\ Len(c \o d) = Len(c) + Len(d)
        /\ \A i \in 1..(Len(c) + Len(d)) : (c \o d)[i] = IF i <= Len(c) THEN c[i] ELSE d[i - Len(c)]
    BY ConcatProperties
  <1>2. PICK m \in Nat : m = Len(c)
    OBVIOUS
  <1>3. ASSUME NEW i \in 1..m PROVE buf[p + i - 1] = c[i]
    <2>1. i \in 1..(m + Len(d)) /\ i <= m
      OBVIOUS
    <2> QED BY <1>1, <1>2, <2>1 DEF Placed
  <1>4. ASSUME NEW i \in 1..Len(d) PROVE buf[(p + m) + i - 1] = d[i]
    <2>1. i + m \in 1..(m + Len(d)) /\ ~(i + m <= m) /\ (i + m) - m = i
      OBVIOUS
    <2>2. (c \o d)[i + m] = d[i]
      BY <1>1, <1>2, <2>1
    <2>3. buf[p + (i + m) - 1] = d[i]
      BY <1>1, <1>2, <2>1, <2>2 DEF Placed
    <2>4. p + (i + m) - 1 = (p + m) + i - 1
      OBVIOUS
    <2> QED BY <2>3, <2>4
  <1> QED BY <1>2, <1>3, <1>4 DEF Placed

\* writeHeader and readHeader of dag-cbor.ts: below 2^64, the major type and the
\* length of a head are read as they were written, and the value as ReadsAs says,
\* unless that is wider than a word and no safe integer, at which readHeader throws.
THEOREM HeaderReadsBack ==
    ASSUME NEW major, NEW v \in Nat, v < Word * Word, NEW p \in Nat, NEW buf,
           v < Word \/ ReadsAs(v) \in -MaxSafe..MaxSafe,
           Placed(buf, p, WriteHeader(major, v))
    PROVE  ReadHeader(buf, p) =
               [major |-> major, value |-> ReadsAs(v), next |-> p + Len(WriteHeader(major, v))]
  <1> DEFINE x(ai) == [major |-> major, ai |-> ai]
             B == Nat \cup {x(ai) : ai \in Nat}
             at(value, n) == [major |-> major, value |-> value, next |-> p + 1 + n]
  <1>1. \A ai : x(ai).major = major /\ x(ai).ai = ai
    OBVIOUS
  <1>2. PICK im \in Nat, b \in Nat, y \in Nat, w \in Nat, h \in Nat :
             /\ im = Immediate /\ b = Byte /\ y = Power(Byte, 2) /\ w = Word /\ h = Word \div 2
             /\ 0 < im /\ im <= b /\ b < y /\ y <= h /\ h <= w /\ w > 0
             /\ b = Power(Byte, 1) /\ w = Power(Byte, 4)
    <2>1. Immediate \in Nat /\ Immediate > 0 /\ Immediate <= Byte
      BY Widths, BytesAssumption
    <2>2. Word \div 2 \in Nat /\ Word \div 2 <= Word
      BY Widths
    <2>3. /\ Byte \in Nat /\ Power(Byte, 2) \in Nat /\ Byte < Power(Byte, 2)
          /\ Word \in Nat /\ Power(Byte, 2) <= Word \div 2 /\ Word > 0
          /\ Byte = Power(Byte, 1) /\ Word = Power(Byte, 4)
      BY Widths
    <2> QED BY <2>1, <2>2, <2>3
  <1>3. \A k \in Nat : x(k) \in B
    OBVIOUS
  <1>4. ASSUME NEW u \in Nat, NEW n \in Nat
        PROVE  Digits(Byte, u, n) \in Seq(B) /\ Len(Digits(Byte, u, n)) = n
    <2>1. Digits(Byte, u, n) \in Seq(Nat) /\ Len(Digits(Byte, u, n)) = n
      BY DigitsLength
    <2>2. Nat \subseteq B
      OBVIOUS
    <2> HIDE DEF B
    <2> QED BY <2>1, <2>2
  <1> HIDE DEF x, B
  \* A head of d after its first byte.
  <1>5. ASSUME NEW ai \in Nat, NEW d \in Seq(B), Placed(buf, p, <<x(ai)>> \o d)
        PROVE  /\ buf[p].ai = ai /\ buf[p].major = major
               /\ Placed(buf, p + 1, d) /\ Len(<<x(ai)>> \o d) = 1 + Len(d)
    <2>1. x(ai) \in B
      BY <1>3
    <2>2. buf[p] = x(ai) /\ Placed(buf, p + 1, d) /\ Len(<<x(ai)>> \o d) = 1 + Len(d)
      BY <2>1, <1>5, PlacedHead
    <2> QED BY <1>1, <2>2
  \* n digits of u, read.
  <1>6. ASSUME NEW u \in Nat, NEW n \in Nat, NEW q \in Nat, Placed(buf, q, Digits(Byte, u, n)),
               u < Power(Byte, n)
        PROVE  FromBytes(buf, q, n) = u
    <2>1. FromBytes(buf, q, n) = u % Power(Byte, n)
      BY <1>6, FromPlaced
    <2>2. PICK m \in Nat : m = Power(Byte, n) /\ m > 0
      BY Widths, PowerPositive
    <2>3. u % m = u
      BY <1>6, <2>2
    <2> QED BY <2>1, <2>2, <2>3
  <1>7. CASE v < Immediate
    <2>1. v < Immediate /\ ~(v >= Immediate) /\ ~(v >= Byte) /\ ~(v >= y) /\ ~(v >= h) /\ v < w
      BY <1>2, <1>7
    <2>2. WriteHeader(major, v) = <<x(v)>>
      BY <1>2, <2>1 DEF WriteHeader, x
    <2>3. Len(<<x(v)>>) = 1 /\ <<x(v)>>[1] = x(v) /\ p + 1 - 1 = p /\ 1 \in 1..1 /\ p + 1 + 0 = p + 1
      OBVIOUS
    <2>4. buf[p] = x(v)
      BY <2>2, <2>3 DEF Placed
    <2>5. ReadHeader(buf, p) = at(v, 0)
      <3>1. buf[p].ai = v /\ buf[p].major = major
        BY <1>1, <2>4
      <3>2. v # im /\ v # im + 1 /\ v # im + 2 /\ v # im + 3
        BY <1>2, <2>1
      <3> QED BY <1>2, <2>1, <3>1, <3>2 DEF ReadHeader
    <2>6. ReadsAs(v) = v
      BY <1>2, <2>1 DEF ReadsAs, Signed
    <2> QED BY <2>2, <2>3, <2>5, <2>6
  <1>8. CASE v >= Immediate /\ v < Byte
    <2>1. ~(v < Immediate) /\ ~(v >= Byte) /\ ~(v >= y) /\ ~(v >= h) /\ v < w
      BY <1>2, <1>8
    <2>2. WriteHeader(major, v) = <<x(im)>> \o Digits(Byte, v, 1)
      BY <1>2, <1>8, <2>1 DEF WriteHeader, x
    <2>3. /\ buf[p].ai = im /\ buf[p].major = major
          /\ Placed(buf, p + 1, Digits(Byte, v, 1))
          /\ Len(WriteHeader(major, v)) = 1 + 1
      <3>1. PICK d \in Seq(B) : d = Digits(Byte, v, 1) /\ Len(d) = 1
        BY <1>4
      <3>2. Placed(buf, p, <<x(im)>> \o d) /\ im \in Nat
        BY <2>2, <3>1
      <3>3. /\ buf[p].ai = im /\ buf[p].major = major /\ Placed(buf, p + 1, d)
            /\ Len(<<x(im)>> \o d) = 1 + Len(d)
        BY <1>5, <3>1, <3>2
      <3> QED BY <2>2, <3>1, <3>3
    <2>4. FromBytes(buf, p + 1, 1) = v
      BY <1>2, <1>6, <1>8, <2>3
    <2>5. ReadHeader(buf, p) = at(v, 1)
      <3>1. ~(im < im) /\ im # im + 1 /\ im # im + 2 /\ im # im + 3
        OBVIOUS
      <3> QED BY <1>2, <2>3, <2>4, <3>1 DEF ReadHeader
    <2>6. ReadsAs(v) = v
      BY <1>2, <2>1 DEF ReadsAs, Signed
    <2>7. p + 1 + 1 = p + (1 + 1)
      OBVIOUS
    <2> QED BY <2>3, <2>5, <2>6, <2>7
  <1>9. CASE v >= Byte /\ v < Power(Byte, 2)
    <2>1. ~(v < Immediate) /\ ~(v < Byte) /\ ~(v >= y) /\ ~(v >= h) /\ v < w
      BY <1>2, <1>9
    <2>2. WriteHeader(major, v) = <<x(im + 1)>> \o Digits(Byte, v, 2)
      BY <1>2, <1>9, <2>1 DEF WriteHeader, x
    <2>3. /\ buf[p].ai = im + 1 /\ buf[p].major = major
          /\ Placed(buf, p + 1, Digits(Byte, v, 2))
          /\ Len(WriteHeader(major, v)) = 1 + 2
      <3>1. PICK d \in Seq(B) : d = Digits(Byte, v, 2) /\ Len(d) = 2
        BY <1>4
      <3>2. Placed(buf, p, <<x(im + 1)>> \o d) /\ im + 1 \in Nat
        BY <2>2, <3>1
      <3>3. /\ buf[p].ai = im + 1 /\ buf[p].major = major /\ Placed(buf, p + 1, d)
            /\ Len(<<x(im + 1)>> \o d) = 1 + Len(d)
        BY <1>5, <3>1, <3>2
      <3> QED BY <2>2, <3>1, <3>3
    <2>4. FromBytes(buf, p + 1, 2) = v
      BY <1>6, <1>9, <2>3
    <2>5. ReadHeader(buf, p) = at(v, 2)
      <3>1. ~(im + 1 < im) /\ im + 1 # im /\ im + 1 # im + 2 /\ im + 1 # im + 3
        OBVIOUS
      <3> QED BY <1>2, <2>3, <2>4, <3>1 DEF ReadHeader
    <2>6. ReadsAs(v) = v
      BY <1>2, <2>1 DEF ReadsAs, Signed
    <2>7. p + 1 + 2 = p + (1 + 2)
      OBVIOUS
    <2> QED BY <2>3, <2>5, <2>6, <2>7
  <1>10. CASE v >= Power(Byte, 2) /\ v < Word
    <2>1. ~(v < Immediate) /\ ~(v < Byte) /\ ~(v < y) /\ v < w
      BY <1>2, <1>10
    <2>2. WriteHeader(major, v) = <<x(im + 2)>> \o Digits(Byte, v, 4)
      BY <1>2, <1>10, <2>1 DEF WriteHeader, x
    <2>3. /\ buf[p].ai = im + 2 /\ buf[p].major = major
          /\ Placed(buf, p + 1, Digits(Byte, v, 4))
          /\ Len(WriteHeader(major, v)) = 1 + 4
      <3>1. PICK d \in Seq(B) : d = Digits(Byte, v, 4) /\ Len(d) = 4
        BY <1>4
      <3>2. Placed(buf, p, <<x(im + 2)>> \o d) /\ im + 2 \in Nat
        BY <2>2, <3>1
      <3>3. /\ buf[p].ai = im + 2 /\ buf[p].major = major /\ Placed(buf, p + 1, d)
            /\ Len(<<x(im + 2)>> \o d) = 1 + Len(d)
        BY <1>5, <3>1, <3>2
      <3> QED BY <2>2, <3>1, <3>3
    <2>4. FromBytes(buf, p + 1, 4) = v
      BY <1>2, <1>6, <2>1, <2>3
    <2>5. ReadHeader(buf, p) = at(Signed(v), 4)
      <3>1. ~(im + 2 < im) /\ im + 2 # im /\ im + 2 # im + 1 /\ im + 2 # im + 3
        OBVIOUS
      <3> QED BY <1>2, <2>3, <2>4, <3>1 DEF ReadHeader
    <2>6. ReadsAs(v) = Signed(v)
      BY <1>2, <2>1 DEF ReadsAs
    <2>7. p + 1 + 4 = p + (1 + 4)
      OBVIOUS
    <2> QED BY <2>3, <2>5, <2>6, <2>7
  <1>11. CASE v >= Word
    <2>1. ~(v < Immediate) /\ ~(v < Byte) /\ ~(v < y) /\ ~(v < w)
      BY <1>2, <1>11
    <2>2. PICK hi \in Nat, lo \in Nat : hi = v \div Word /\ lo = v % Word /\ hi < w /\ lo < w
      <3>1. PICK q \in Nat, r \in Nat : q = v \div w /\ r = v % w /\ r < w /\ v = w * q + r
        <4>1. w \in Nat /\ w > 0
          BY <1>2
        <4> QED BY <4>1, Division
      <3>2. q < w
        <4>1. ASSUME q >= w PROVE FALSE
          <5>1. PICK c \in Nat : q = w + c
            <6>1. q - w \in Nat /\ q = w + (q - w)
              BY <4>1
            <6> QED BY <6>1
          <5>2. w * q = w * w + w * c /\ w * c >= 0
            BY <5>1
          <5>3. v < w * w
            BY <1>2
          <5>4. PICK ww \in Nat, wq \in Nat, wc \in Nat : ww = w * w /\ wq = w * q /\ wc = w * c
            OBVIOUS
          <5>5. v < ww /\ v = wq + r /\ wq = ww + wc
            BY <3>1, <5>2, <5>3, <5>4
          <5> QED BY <5>5
        <4> QED BY <4>1
      <3> QED BY <1>2, <3>1, <3>2
    <2>3. PICK c \in Seq(B), d \in Seq(B) :
               /\ c = Digits(Byte, hi, 4) /\ d = Digits(Byte, lo, 4) /\ Len(c) = 4 /\ Len(d) = 4
               /\ c \o d \in Seq(B) /\ Len(c \o d) = 4 + 4
      <3>1. PICK c \in Seq(B) : c = Digits(Byte, hi, 4) /\ Len(c) = 4
        BY <1>4
      <3>2. PICK d \in Seq(B) : d = Digits(Byte, lo, 4) /\ Len(d) = 4
        BY <1>4
      <3>3. c \o d \in Seq(B) /\ Len(c \o d) = 4 + 4
        <4>1. c \o d \in Seq(B) /\ Len(c \o d) = Len(c) + Len(d)
          BY ConcatProperties
        <4> QED BY <3>1, <3>2, <4>1
      <3> QED BY <3>1, <3>2, <3>3
    <2>4. WriteHeader(major, v) = <<x(im + 3)>> \o (c \o d)
      <3>1. WriteHeader(major, v) = <<x(im + 3)>> \o c \o d
        BY <1>2, <1>11, <2>1, <2>2, <2>3 DEF WriteHeader, x
      <3>2. <<x(im + 3)>> \in Seq(B)
        BY <1>3
      <3> QED BY <2>3, <3>1, <3>2
    <2>5. /\ buf[p].ai = im + 3 /\ buf[p].major = major /\ Placed(buf, p + 1, c \o d)
          /\ Len(WriteHeader(major, v)) = 1 + 8
      <3>1. PICK e \in Seq(B) : e = c \o d /\ Len(e) = 8
        <4>1. 4 + 4 = 8
          OBVIOUS
        <4> QED BY <2>3, <4>1
      <3>2. Placed(buf, p, <<x(im + 3)>> \o e) /\ im + 3 \in Nat
        BY <2>4, <3>1
      <3>3. /\ buf[p].ai = im + 3 /\ buf[p].major = major /\ Placed(buf, p + 1, e)
            /\ Len(<<x(im + 3)>> \o e) = 1 + Len(e)
        BY <1>5, <3>2
      <3> QED BY <2>4, <3>1, <3>3
    <2>6. Placed(buf, p + 1, c) /\ Placed(buf, p + 5, d)
      <3>1. p + 1 \in Nat /\ (p + 1) + 4 = p + 5
        OBVIOUS
      <3> QED BY <2>3, <2>5, <3>1, PlacedParts
    <2>7. FromBytes(buf, p + 1, 4) = hi /\ FromBytes(buf, p + 5, 4) = lo
      <3>1. p + 1 \in Nat /\ p + 5 \in Nat
        OBVIOUS
      <3>2. hi < Power(Byte, 4) /\ lo < Power(Byte, 4)
        BY <1>2, <2>2
      <3>3. Placed(buf, p + 1, Digits(Byte, hi, 4)) /\ Placed(buf, p + 5, Digits(Byte, lo, 4))
        BY <2>3, <2>6
      <3> QED BY <1>6, <3>1, <3>2, <3>3
    <2>9. ReadsAs(v) = Signed(hi) * Word + Signed(lo)
      BY <1>2, <2>1, <2>2 DEF ReadsAs
    <2>8. ReadHeader(buf, p) = at(Signed(hi) * Word + Signed(lo), 8)
      <3>1. ~(im + 3 < im) /\ im + 3 # im /\ im + 3 # im + 1 /\ im + 3 # im + 2
        OBVIOUS
      <3>2. ~(v < Word)
        BY <1>2, <2>1
      <3>3. PICK double : double = Signed(hi) * Word + Signed(lo)
        OBVIOUS
      <3>4. double \in -MaxSafe..MaxSafe
        BY <2>9, <3>2, <3>3
      <3>5. double = Signed(FromBytes(buf, p + 1, 4)) * Word + Signed(FromBytes(buf, p + 5, 4))
        BY <2>7, <3>3
      <3>6. ReadHeader(buf, p) = at(double, 8)
        BY <1>2, <2>5, <3>1, <3>4, <3>5 DEF ReadHeader
      <3> QED BY <3>3, <3>6
    <2>10. p + 1 + 8 = p + (1 + 8)
      OBVIOUS
    <2> QED BY <2>5, <2>8, <2>9, <2>10
  <1>12. \/ v < Immediate
         \/ v >= Immediate /\ v < Byte
         \/ v >= Byte /\ v < Power(Byte, 2)
         \/ v >= Power(Byte, 2) /\ v < Word
         \/ v >= Word
    BY <1>2
  <1> QED BY <1>7, <1>8, <1>9, <1>10, <1>11, <1>12

\* readHeader of dag-cbor.ts shifts four bytes into a word with a sign: exactly
\* the numbers with the top bit of neither word set are read as they were written.
THEOREM IntegersSurvive ==
    ASSUME NEW v \in Nat, v < Word * Word
    PROVE  ReadsAs(v) = v <=> v % Word < Word \div 2 /\ v \div Word < Word \div 2
  <1>1. PICK w \in Nat, h \in Nat : w = Word /\ h = Word \div 2 /\ w > 0 /\ h > 0 /\ h < w
    <2>1. Word \in Nat /\ Word > 1
      BY Widths
    <2>2. Word \div 2 \in Nat /\ Word \div 2 > 0 /\ Word \div 2 < Word
      BY <2>1
    <2> QED BY <2>1, <2>2
  <1>2. PICK q \in Nat, r \in Nat : q = v \div w /\ r = v % w /\ r < w /\ v = w * q + r
    BY <1>1, Division
  <1>3. CASE v < Word
    <2>1. q = 0
      <3>1. ASSUME q > 0 PROVE FALSE
        <4>1. PICK j \in Nat : q = j + 1
          <5>1. q - 1 \in Nat /\ q = (q - 1) + 1
            BY <3>1
          <5> QED BY <5>1
        <4>2. w * q = w * j + w /\ w * j >= 0
          BY <4>1
        <4>3. PICK z \in Nat, y \in Nat : z = w * q /\ y = w * j
          OBVIOUS
        <4> QED BY <1>1, <1>2, <1>3, <4>2, <4>3
      <3> QED BY <3>1
    <2>2. v = r
      BY <1>2, <2>1
    <2>3. ReadsAs(v) = IF r >= h THEN r - w ELSE r
      BY <1>1, <1>3, <2>2 DEF ReadsAs, Signed
    <2> QED BY <1>1, <1>2, <2>1, <2>2, <2>3
  <1>4. CASE ~(v < Word)
    <2>1. PICK a \in Int, b \in Int : a = Signed(q) /\ b = Signed(r)
      <3>1. \A x \in Nat : Signed(x) = IF x >= h THEN x - w ELSE x
        BY <1>1 DEF Signed
      <3>2. Signed(q) \in Int /\ Signed(r) \in Int
        BY <3>1
      <3> QED BY <3>2
    <2>2. ReadsAs(v) = a * w + b
      BY <1>1, <1>2, <1>4, <2>1 DEF ReadsAs
    <2>3. a = (IF q >= h THEN q - w ELSE q) /\ b = (IF r >= h THEN r - w ELSE r)
      BY <1>1, <2>1 DEF Signed
    <2>4. PICK z \in Nat, y \in Nat : z = w * q /\ y = w * w /\ y >= w
      <3>1. w * q \in Nat /\ w * w \in Nat /\ w * w >= w
        BY <1>1
      <3> QED BY <3>1
    <2>5. CASE q >= h
      <3>1. a * w = z - y
        BY <2>3, <2>4, <2>5
      <3>2. b <= r
        BY <1>1, <2>3
      <3>3. a * w + b < z + r
        BY <1>1, <2>4, <3>1, <3>2
      <3> QED BY <1>1, <1>2, <2>2, <2>4, <2>5, <3>3
    <2>6. CASE ~(q >= h)
      <3>1. a * w = z
        BY <2>3, <2>4, <2>6
      <3>2. ReadsAs(v) = z + b /\ v = z + r
        BY <1>2, <2>2, <2>4, <3>1
      <3>3. b = r <=> r < h
        BY <1>1, <2>3
      <3>4. ReadsAs(v) = v <=> b = r
        BY <2>4, <3>2
      <3> QED BY <1>1, <1>2, <2>6, <3>3, <3>4
    <2> QED BY <2>5, <2>6
  <1> QED BY <1>3, <1>4

-----------------------------------------------------------------------------
(* base32                                                                  *)

\* Position i, counted from 1, is place r of group q of w.
IsPlace(i, w, q, r) == i = q * w + r

\* A position counted from 1 is place r of the q-th group of w.
LEMMA PlaceOf ==
    ASSUME NEW i \in Nat, i > 0, NEW w \in Nat, w > 0
    PROVE  \E q \in Nat, r \in 1..w : IsPlace(i, w, q, r)
  <1>1. PICK j \in Nat : j = i - 1
    <2>1. i - 1 \in Nat
      OBVIOUS
    <2> QED BY <2>1
  <1>2. PICK q \in Nat, r \in Nat : q = j \div w /\ r = j % w /\ r < w /\ j = w * q + r
    BY Division
  <1>3. PICK z \in Nat : z = w * q /\ z = q * w
    OBVIOUS
  <1>4. i = z + (r + 1) /\ r + 1 \in 1..w
    BY <1>1, <1>2, <1>3
  <1> QED BY <1>3, <1>4 DEF IsPlace

\* And the other way round.
LEMMA PlaceIs ==
    ASSUME NEW q \in Nat, NEW w \in Nat, NEW r \in 1..w
    PROVE  /\ q * w + r \in Nat /\ q * w + r > 0
           /\ ((q * w + r) - 1) \div w = q /\ (((q * w + r) - 1) % w) + 1 = r
  <1>1. PICK j \in Nat : r = j + 1 /\ j < w
    <2>1. r - 1 \in Nat /\ r = (r - 1) + 1 /\ r - 1 < w
      OBVIOUS
    <2> QED BY <2>1
  <1>2. PICK z \in Nat : z = q * w /\ z = w * q
    <2>1. q * w \in Nat /\ q * w = w * q
      OBVIOUS
    <2> QED BY <2>1
  <1>3. (q * w + r) - 1 = w * q + j /\ q * w + r \in Nat /\ q * w + r > 0
    BY <1>1, <1>2
  <1>4. (w * q + j) \div w = q /\ (w * q + j) % w = j
    BY <1>1, Remainder
  <1> QED BY <1>1, <1>3, <1>4

\* A bit of a sequence is the digit of its number at its place.
LEMMA BitOfPlace ==
    ASSUME NEW s \in Seq(Nat), NEW w \in Nat, NEW q \in Nat, NEW r \in 1..w
    PROVE  BitAt(s, w, q * w + r) = IF q + 1 > Len(s) THEN 0 ELSE Digits(2, s[q + 1], w)[r]
  BY PlaceIs DEF BitAt

\* Bits are bits.
LEMMA BitType ==
    ASSUME NEW s \in Seq(Nat), NEW w \in Nat, w > 0, NEW i \in Nat, i > 0
    PROVE  BitAt(s, w, i) \in 0..1
  <1>1. PICK q \in Nat, r \in 1..w : i = q * w + r
    BY PlaceOf DEF IsPlace
  <1>2. BitAt(s, w, i) = IF q + 1 > Len(s) THEN 0 ELSE Digits(2, s[q + 1], w)[r]
    BY <1>1, BitOfPlace
  <1>3. CASE q + 1 > Len(s)
    BY <1>2, <1>3
  <1>4. CASE ~(q + 1 > Len(s))
    <2>1. s[q + 1] \in Nat
      BY <1>4
    <2>2. Digits(2, s[q + 1], w) \in [1..w -> 0..(2 - 1)]
      <3>1. 2 \in Nat /\ 2 > 0
        OBVIOUS
      <3> QED BY <2>1, <3>1, DigitsType
    <2>3. 2 - 1 = 1
      OBVIOUS
    <2> QED BY <1>2, <1>4, <2>2, <2>3
  <1> QED BY <1>3, <1>4

\* The digits of the number in some bits are the bits.
MadeOfBits(s, w, from, n) ==
    Digits(2, Number(s, w, from, n), n) = [i \in 1..n |-> BitAt(s, w, from + i)]

\* The bits that a character or byte is made of, and the number they make.
LEMMA NumberType ==
    ASSUME NEW s \in Seq(Nat), NEW w \in Nat, w > 0, NEW from \in Nat, NEW n \in Nat
    PROVE  /\ Number(s, w, from, n) \in Nat /\ Number(s, w, from, n) < Power(2, n)
           /\ MadeOfBits(s, w, from, n)
  <1>1. PICK d \in [1..n -> 0..(2 - 1)] : d = [i \in 1..n |-> BitAt(s, w, from + i)]
    <2>1. ASSUME NEW i \in 1..n PROVE BitAt(s, w, from + i) \in 0..(2 - 1)
      <3>1. from + i \in Nat /\ from + i > 0 /\ 2 - 1 = 1
        OBVIOUS
      <3> QED BY <3>1, BitType
    <2> QED BY <2>1
  <1>2. /\ NumberOf(2, d, n) \in Nat /\ NumberOf(2, d, n) < Power(2, n)
        /\ Digits(2, NumberOf(2, d, n), n) = d
    <2>1. 2 \in Nat /\ 2 > 0
      OBVIOUS
    <2> QED BY <2>1, DigitsOfNumber
  <1> QED BY <1>1, <1>2 DEF Number, MadeOfBits

\* Numbers below a power of 2 have as many bits.
LEMMA NumberOfBits ==
    ASSUME NEW n \in Nat, NEW v \in Nat, v < Power(2, n)
    PROVE  NumberOf(2, Digits(2, v, n), n) = v
  <1>1. PICK p \in Nat : p = Power(2, n) /\ p > 0
    BY PowerPositive
  <1>2. NumberOf(2, Digits(2, v, n), n) = v % p
    BY <1>1, NumberOfDigits
  <1>3. v % p = v
    BY <1>1
  <1> QED BY <1>2, <1>3

\* How many characters bytes take, and how many bytes are read from them.
LEMMA Base32Length ==
    ASSUME NEW n \in Nat, NEW w \in Nat, NEW c \in Nat, c > 0, c <= w
    PROVE  LET m == (n * w + c - 1) \div c
           IN  m \in Nat /\ n * w <= m * c /\ (m * c) \div w = n
  <1>1. PICK z \in Nat : z = n * w /\ z = w * n
    <2>1. n * w \in Nat /\ n * w = w * n
      OBVIOUS
    <2> QED BY <2>1
  <1>2. PICK t \in Nat : t = z + c - 1
    <2>1. z + c - 1 \in Nat
      OBVIOUS
    <2> QED BY <2>1
  <1>3. PICK m \in Nat, r \in Nat : m = t \div c /\ r < c /\ t = c * m + r
    BY Division
  <1>4. PICK y \in Nat : y = c * m /\ y = m * c
    <2>1. c * m \in Nat /\ c * m = m * c
      OBVIOUS
    <2> QED BY <2>1
  <1>5. PICK j \in Nat : y = z + j /\ j < w
    <2>1. y - z \in Nat /\ y = z + (y - z) /\ y - z < w
      BY <1>2, <1>3, <1>4
    <2> QED BY <2>1
  <1>6. (w * n + j) \div w = n
    BY <1>5, Remainder
  <1>7. z <= y
    BY <1>5
  <1> QED BY <1>1, <1>2, <1>3, <1>4, <1>5, <1>6, <1>7

\* util/bytes.ts: bytes are read back from the base32 they are written in,
\* whatever bits the last character is filled up with.
THEOREM Base32ReadsBack ==
    ASSUME NEW b \in Seq(0..(Byte - 1))
    PROVE  /\ Base32Encode(b) \in Seq(Nat)
           /\ Base32Decode(Base32Encode(b)) = b
  <1>1. PICK w \in Nat, c \in Nat : w = ByteBits /\ c = CharBits /\ w > 0 /\ c > 0 /\ c <= w
    BY BytesAssumption
  <1>2. b \in Seq(Nat)
    <2>1. PICK S : S = 0..(Byte - 1)
      OBVIOUS
    <2>2. S \subseteq Nat
      BY <2>1, Widths
    <2>3. Len(b) \in Nat /\ b \in [1..Len(b) -> S]
      <3>1. b \in Seq(S)
        BY <2>1
      <3> QED BY <3>1
    <2>4. b \in [1..Len(b) -> Nat]
      BY <2>2, <2>3
    <2> QED BY <2>3, <2>4
  <1>3. PICK n \in Nat : n = Len(b)
    BY <1>2
  <1>4. PICK m \in Nat :
            /\ m = (n * w + c - 1) \div c /\ n * w <= m * c /\ (m * c) \div w = n
    BY <1>1, Base32Length
  <1>5. PICK e : e = Base32Encode(b)
    OBVIOUS
  <1>6. e = [i \in 1..m |-> Number(b, w, (i - 1) * c, c)]
    BY <1>1, <1>3, <1>4, <1>5 DEF Base32Encode
  <1>7. \A q \in Nat : q * c \in Nat /\ q * w \in Nat
    OBVIOUS
  <1>8. e \in Seq(Nat) /\ Len(e) = m
    <2>1. ASSUME NEW i \in 1..m PROVE Number(b, w, (i - 1) * c, c) \in Nat
      <3>1. i - 1 \in Nat
        OBVIOUS
      <3>2. (i - 1) * c \in Nat
        BY <1>7, <3>1
      <3> QED BY <1>1, <1>2, <3>2, NumberType
    <2> QED BY <1>6, <2>1
  \* The bits of the characters are those of the bytes.
  <1>9. ASSUME NEW i \in Nat, i > 0, i <= m * c PROVE BitAt(e, c, i) = BitAt(b, w, i)
    <2>1. PICK q \in Nat, r \in 1..c : i = q * c + r
      <3>1. c \in Nat /\ c > 0 /\ i \in Nat /\ i > 0
        BY <1>1, <1>9
      <3>2. PICK q \in Nat, r \in 1..c : IsPlace(i, c, q, r)
        BY <3>1, PlaceOf
      <3> QED BY <3>2 DEF IsPlace
    <2>2. q + 1 \in 1..m
      <3>1. ASSUME q >= m PROVE FALSE
        <4>1. q * c >= m * c
          <5>1. PICK j \in Nat : q = m + j
            <6>1. q - m \in Nat /\ q = m + (q - m)
              BY <3>1
            <6> QED BY <6>1
          <5>2. q * c = m * c + j * c /\ j * c >= 0
            BY <5>1
          <5> QED BY <5>2, <1>7
        <4> QED BY <1>7, <1>9, <2>1, <4>1
      <3> QED BY <3>1
    <2>3. BitAt(e, c, i) = Digits(2, e[q + 1], c)[r]
      <3>1. ~(q + 1 > m)
        BY <2>2
      <3>2. BitAt(e, c, q * c + r) = IF q + 1 > Len(e) THEN 0 ELSE Digits(2, e[q + 1], c)[r]
        BY <1>8, BitOfPlace
      <3>3. ~(q + 1 > Len(e))
        BY <1>8, <3>1
      <3> QED BY <2>1, <3>2, <3>3
    <2>4. e[q + 1] = Number(b, w, q * c, c)
      <3>1. (q + 1) - 1 = q
        OBVIOUS
      <3> QED BY <1>6, <2>2, <3>1
    <2>5. Digits(2, Number(b, w, q * c, c), c) = [k \in 1..c |-> BitAt(b, w, q * c + k)]
      <3>1. PICK from \in Nat : from = q * c
        BY <1>7
      <3>2. w > 0
        BY <1>1
      <3>3. MadeOfBits(b, w, from, c)
        BY <1>2, <3>2, NumberType
      <3> QED BY <3>1, <3>3 DEF MadeOfBits
    <2> QED BY <2>1, <2>3, <2>4, <2>5
  <1>10. ASSUME NEW k \in 1..n PROVE Number(e, c, (k - 1) * w, w) = b[k]
    <2>1. PICK q \in Nat : q = k - 1 /\ k = q + 1 /\ q + 1 <= n
      <3>1. k - 1 \in Nat /\ k = (k - 1) + 1
        OBVIOUS
      <3> QED BY <3>1
    <2>2. b[k] \in Nat /\ b[k] < Power(2, w)
      <3>1. b[k] \in 0..(Byte - 1)
        <4>1. PICK S : S = 0..(Byte - 1)
          OBVIOUS
        <4>2. b \in Seq(S) /\ k \in 1..Len(b)
          BY <1>3, <4>1
        <4>3. b[k] \in S
          BY <4>2
        <4> QED BY <4>1, <4>3
      <3>2. Byte \in Nat /\ Byte = Power(2, w)
        BY <1>1, Widths DEF Byte
      <3>3. b[k] \in Nat /\ b[k] < Byte
        BY <3>1, <3>2
      <3> QED BY <3>2, <3>3
    <2>3. ASSUME NEW r \in 1..w PROVE BitAt(e, c, q * w + r) = Digits(2, b[k], w)[r]
      <3>1. q * w + r \in Nat /\ q * w + r > 0
        BY PlaceIs
      <3>2. q * w + r <= n * w
        <4>1. PICK j \in Nat : n = q + 1 + j
          <5>1. n - q - 1 \in Nat /\ n = q + 1 + (n - q - 1)
            BY <2>1
          <5> QED BY <5>1
        <4>2. n * w = q * w + w + j * w /\ j * w >= 0
          BY <4>1
        <4> QED BY <1>7, <4>2
      <3>3. q * w + r <= m * c
        BY <1>4, <1>7, <3>1, <3>2
      <3>4. BitAt(e, c, q * w + r) = BitAt(b, w, q * w + r)
        BY <1>9, <3>1, <3>3
      <3>5. ~(q + 1 > Len(b))
        BY <1>3, <2>1
      <3>6. BitAt(b, w, q * w + r) = Digits(2, b[q + 1], w)[r]
        BY <1>2, <3>5, BitOfPlace
      <3> QED BY <2>1, <3>4, <3>6
    <2>4. [r \in 1..w |-> BitAt(e, c, q * w + r)] = Digits(2, b[k], w)
      <3>1. Digits(2, b[k], w) \in [1..w -> 0..(2 - 1)]
        <4>1. 2 \in Nat /\ 2 > 0
          OBVIOUS
        <4> QED BY <2>2, <4>1, DigitsType
      <3> QED BY <2>3, <3>1
    <2>5. NumberOf(2, Digits(2, b[k], w), w) = b[k]
      BY <2>2, NumberOfBits
    <2> QED BY <2>1, <2>4, <2>5 DEF Number
  <1>11. Base32Decode(e) = [k \in 1..n |-> Number(e, c, (k - 1) * w, w)]
    BY <1>1, <1>4, <1>8 DEF Base32Decode
  <1>12. Base32Decode(e) = b
    <2>1. b = [k \in 1..n |-> b[k]]
      BY <1>2, <1>3
    <2> QED BY <1>10, <1>11, <2>1
  <1> QED BY <1>5, <1>8, <1>12

-----------------------------------------------------------------------------
(* Lengths in the framing of archives                                      *)

\* Two groups make a byte: half of it is the bit for "more".
LEMMA HalfWidth == Half \in Nat /\ Half > 1 /\ Byte = 2 * Half
  <1>1. PICK k \in Nat : ByteBits = k + 2 /\ ByteBits - 1 = k + 1
    <2>1. ByteBits - 2 \in Nat /\ ByteBits = (ByteBits - 2) + 2 /\ ByteBits - 1 = (ByteBits - 2) + 1
      BY BytesAssumption
    <2> QED BY <2>1
  <1>2. PICK x \in Nat : x = Power(2, k) /\ x > 0
    BY PowerPositive
  <1>3. Power(2, k + 1) = 2 * x
    BY <1>2, PowerUnfolds
  <1>4. Power(2, k + 2) = 2 * Power(2, k + 1)
    <2>1. k + 1 \in Nat /\ (k + 1) + 1 = k + 2
      OBVIOUS
    <2>2. Power(2, (k + 1) + 1) = 2 * Power(2, k + 1)
      BY <2>1, PowerUnfolds
    <2> QED BY <2>1, <2>2
  <1>5. Half = 2 * x /\ Byte = 2 * Half
    BY <1>1, <1>3, <1>4 DEF Half, Byte
  <1> QED BY <1>2, <1>5

\* A number has some count of groups.
LEMMA GroupsEnough ==
    ASSUME NEW n \in Nat
    PROVE  /\ Groups(n) \in Nat /\ Groups(n) > 0 /\ n < Power(Half, Groups(n))
           /\ Groups(n) = 1 \/ Power(Half, Groups(n) - 1) <= n
  <1>1. PICK h \in Nat : h = Half /\ h > 1
    BY HalfWidth
  <1> DEFINE IsCount(m) == n < Power(h, m) /\ (m = 1 \/ n >= Power(h, m - 1))
             S == {k \in Nat : k > 0 /\ n < Power(h, k) => \E m \in 1..k : IsCount(m)}
             T == {k \in Nat : Power(h, k) > k}
  <1>2. n + 1 \in T
    <2>1. 0 \in T
      BY PowerUnfolds
    <2>2. ASSUME NEW k \in Nat, k \in T PROVE k + 1 \in T
      <3>1. PICK x \in Nat : x = Power(h, k) /\ x > k /\ Power(h, k + 1) = h * x
        BY <2>2, PowerUnfolds
      <3>2. h * x >= 2 * x
        BY <1>1
      <3> QED BY <3>1, <3>2
    <2>3. Nat \subseteq T
      <3> HIDE DEF T
      <3> QED BY <2>1, <2>2, SetInduction
    <2> QED BY <2>3
  <1>3. Nat \subseteq S
    <2>1. 0 \in S
      OBVIOUS
    <2>2. ASSUME NEW k \in Nat, k \in S PROVE k + 1 \in S
      <3>1. SUFFICES ASSUME n < Power(h, k + 1) PROVE \E m \in 1..(k + 1) : IsCount(m)
        OBVIOUS
      <3>2. CASE k > 0 /\ n < Power(h, k)
        <4>1. PICK m \in 1..k : IsCount(m)
          BY <2>2, <3>2
        <4>2. m \in 1..(k + 1)
          OBVIOUS
        <4> QED BY <4>1, <4>2
      <3>3. CASE k = 0
        <4>1. IsCount(k + 1) /\ k + 1 \in 1..(k + 1)
          BY <3>1, <3>3
        <4> QED BY <4>1
      <3>4. CASE k > 0 /\ ~(n < Power(h, k))
        <4>1. (k + 1) - 1 = k /\ k + 1 \in 1..(k + 1) /\ Power(h, k) \in Nat
          BY PowerUnfolds
        <4>2. IsCount(k + 1)
          BY <3>1, <3>4, <4>1
        <4> QED BY <4>1, <4>2
      <3>5. k = 0 \/ (k > 0 /\ n < Power(h, k)) \/ (k > 0 /\ ~(n < Power(h, k)))
        OBVIOUS
      <3> QED BY <3>2, <3>3, <3>4, <3>5
    <2>3. Nat \subseteq S
      <3> HIDE DEF S
      <3> QED BY <2>1, <2>2, SetInduction
    <2> QED BY <2>3
  <1>4. \E m \in 1..(n + 1) : IsCount(m)
    <2>1. n + 1 \in S /\ n + 1 > 0
      BY <1>3
    <2>2. n < Power(h, n + 1)
      <3>1. Power(h, n + 1) \in Nat
        BY PowerUnfolds
      <3> QED BY <1>2, <3>1
    <2> QED BY <2>1, <2>2
  <1>5. Groups(n) \in 1..(n + 1) /\ IsCount(Groups(n))
    <2>1. Groups(n) = CHOOSE m \in 1..(n + 1) : IsCount(m)
      BY <1>1 DEF Groups
    <2> HIDE DEF IsCount
    <2> QED BY <1>4, <2>1
  <1> QED BY <1>1, <1>5

\* The bytes of n are its m groups d.
InGroups(n, m, d) ==
    /\ m > 0 /\ NumberOf(Half, d, m) = n /\ (m = 1 \/ Power(Half, m - 1) <= n)
    /\ Len(Varint(n)) = m
    /\ \A i \in 1..m : Varint(n)[i] = d[m + 1 - i] + (IF i < m THEN Half ELSE 0)

\* The bytes of a length: a digit each, and "more" on all but the last.
LEMMA VarintBytes ==
    ASSUME NEW n \in Nat
    PROVE  /\ Varint(n) \in Seq(Nat)
           /\ \E m \in Nat : \E d \in [1..m -> 0..(Half - 1)] : InGroups(n, m, d)
  <1>1. PICK m \in Nat : m = Groups(n) /\ m > 0 /\ n < Power(Half, m)
    BY GroupsEnough
  <1>0. m = 1 \/ Power(Half, m - 1) <= n
    BY <1>1, GroupsEnough
  <1>2. Half \in Nat /\ Half > 0
    BY HalfWidth
  <1>3. PICK d \in [1..m -> 0..(Half - 1)] : d = Digits(Half, n, m)
    BY <1>2, DigitsType
  <1>4. NumberOf(Half, d, m) = n
    <2>1. NumberOf(Half, d, m) = n % Power(Half, m)
      BY <1>2, <1>3, NumberOfDigits
    <2>2. PICK p \in Nat : p = Power(Half, m) /\ p > 0
      BY <1>2, PowerPositive
    <2>3. n % p = n
      BY <1>1, <2>2
    <2> QED BY <2>1, <2>2, <2>3
  <1>5. Varint(n) = [i \in 1..m |-> d[m + 1 - i] + (IF i < m THEN Half ELSE 0)]
    BY <1>1, <1>3 DEF Varint
  <1>6. ASSUME NEW i \in 1..m PROVE d[m + 1 - i] + (IF i < m THEN Half ELSE 0) \in Nat
    <2>1. m + 1 - i \in 1..m
      OBVIOUS
    <2>2. d[m + 1 - i] \in Nat
      BY <1>2, <2>1
    <2> QED BY <1>2, <2>2
  <1>7. Varint(n) \in Seq(Nat) /\ Len(Varint(n)) = m
    BY <1>5, <1>6
  <1>8. InGroups(n, m, d)
    BY <1>0, <1>1, <1>4, <1>5, <1>7 DEF InGroups
  <1> QED BY <1>7, <1>8

\* They are bytes for lengths of any size, and those of the groups below a word.
LEMMA VarintType ==
    ASSUME NEW n \in Nat
    PROVE  /\ VarintEncode(n) \in Seq(Nat) /\ Len(VarintEncode(n)) > 0
           /\ n < Word => VarintEncode(n) = Varint(n)
  <1>1. PICK h \in Nat, w \in Nat : h = Half /\ w = Word /\ h > 1 /\ w > 0
    BY HalfWidth, Widths
  <1>2. CASE n < Word
    <2>1. VarintEncode(n) = Varint(n)
      BY <1>2 DEF VarintEncode
    <2>2. Varint(n) \in Seq(Nat)
      BY VarintBytes
    <2>3. PICK m \in Nat : \E d \in [1..m -> 0..(Half - 1)] : InGroups(n, m, d)
      BY VarintBytes
    <2>4. Len(Varint(n)) = m /\ m > 0
      BY <2>3 DEF InGroups
    <2> QED BY <2>1, <2>2, <2>4
  <1>3. CASE ~(n < Word)
    <2>1. PICK k \in Nat : k = (n % w) \div h
      <3>1. PICK r \in Nat : r = n % w
        BY <1>1
      <3>2. r \div h \in Nat
        BY <1>1
      <3> QED BY <3>1, <3>2
    <2>2. PICK v \in Seq(Nat) : v = Varint(k)
      BY VarintBytes
    <2>3. PICK x \in Nat : x = (n % h) + h
      <3>1. PICK q \in Nat, r \in Nat : r = n % h
        BY <1>1, Division
      <3>2. r + h \in Nat
        OBVIOUS
      <3> QED BY <3>1, <3>2
    <2>4. VarintEncode(n) = <<x>> \o v
      BY <1>1, <1>3, <2>1, <2>2, <2>3 DEF VarintEncode
    <2>5. <<x>> \o v \in Seq(Nat) /\ Len(<<x>> \o v) = 1 + Len(v) /\ Len(v) \in Nat
      OBVIOUS
    <2> QED BY <1>3, <2>4, <2>5
  <1> QED BY <1>2, <1>3

\* repo/car.ts: where a length below half a word stands in a buffer, it is what is
\* read, and the next byte is the one behind it.
THEOREM VarintReadsBack ==
    ASSUME NEW n \in Nat, n < Word \div 2, NEW p \in Nat, p > 0, NEW buf, Len(buf) \in Nat,
           Placed(buf, p, VarintEncode(n)), p + Len(VarintEncode(n)) <= Len(buf) + 1
    PROVE  ReadVarint(buf, p) = [value |-> n, next |-> p + Len(VarintEncode(n))]
  <1>s. PICK w \in Nat, s \in Nat : w = Word /\ s = Word \div 2 /\ n < s /\ s <= w /\ w > 0
    BY Widths
  <1>v. VarintEncode(n) = Varint(n)
    BY <1>s, VarintType
  <1>0. PICK m \in Nat : \E d \in [1..m -> 0..(Half - 1)] : InGroups(n, m, d)
    BY VarintBytes
  <1>0a. PICK d \in [1..m -> 0..(Half - 1)] : InGroups(n, m, d)
    BY <1>0
  <1>1. /\ m > 0 /\ NumberOf(Half, d, m) = n
        /\ Len(VarintEncode(n)) = m
        /\ \A i \in 1..m :
              VarintEncode(n)[i] = d[m + 1 - i] + (IF i < m THEN Half ELSE 0)
    BY <1>0a, <1>v DEF InGroups
  <1>2. PICK h \in Nat, b \in Nat, z \in Nat :
               h = Half /\ h > 1 /\ b = Len(buf) /\ z = p + m - 1 /\ z <= b
    <2>1. p + m - 1 \in Nat /\ p + m - 1 <= Len(buf)
      BY <1>1
    <2> QED BY <2>1, HalfWidth
  <1>3. ASSUME NEW i \in 1..m
        PROVE  /\ d[m + 1 - i] \in Nat /\ d[m + 1 - i] < h
               /\ buf[p + i - 1] = d[m + 1 - i] + (IF i < m THEN h ELSE 0)
    <2>1. m + 1 - i \in 1..m
      OBVIOUS
    <2>2. d[m + 1 - i] \in 0..(h - 1)
      BY <1>2, <2>1
    <2>3. buf[p + i - 1] = VarintEncode(n)[i]
      BY <1>1 DEF Placed
    <2> QED BY <1>1, <1>2, <2>2, <2>3
  <1>4. buf[z] < h /\ z \in p..b
    <2>1. m \in 1..m /\ p + m - 1 = z /\ ~(m < m)
      BY <1>1, <1>2
    <2>2. buf[z] = d[m + 1 - m] + 0 /\ d[m + 1 - m] \in Nat /\ d[m + 1 - m] < h
      BY <1>3, <2>1
    <2> QED BY <1>1, <1>2, <2>2
  <1>5. ASSUME NEW q \in p..(z - 1) PROVE buf[q] >= h /\ ~(buf[q] < h)
    <2>1. PICK i \in 1..m : q = p + i - 1 /\ i < m
      <3>1. q - p + 1 \in 1..m /\ q = p + (q - p + 1) - 1 /\ q - p + 1 < m
        BY <1>2
      <3> QED BY <3>1
    <2>2. PICK x \in Nat : buf[q] = x + h
      BY <1>3, <2>1
    <2> QED BY <2>2
  <1> DEFINE IsEnd(q) == /\ q = Len(buf) \/ buf[q] < Half
                         /\ \A j \in p..(q - 1) : buf[j] >= Half
             last == CHOOSE q \in p..Len(buf) : IsEnd(q)
  <1>6. last = z
    <2>1. z \in p..Len(buf) /\ IsEnd(z)
      BY <1>2, <1>4, <1>5
    <2>2. ASSUME NEW q \in p..Len(buf), IsEnd(q) PROVE q = z
      <3>1. ~(q < z)
        <4>1. ASSUME q < z PROVE FALSE
          <5>1. q \in p..(z - 1) /\ q # Len(buf)
            BY <1>2, <4>1
          <5>2. ~(buf[q] < Half)
            BY <1>2, <1>5, <5>1
          <5> QED BY <2>2, <5>1, <5>2
        <4> QED BY <4>1
      <3>2. ~(q > z)
        <4>1. ASSUME q > z PROVE FALSE
          <5>1. z \in p..(q - 1)
            BY <1>4, <4>1
          <5>2. buf[z] >= h
            BY <1>2, <2>2, <5>1
          <5>3. buf[z] \in Nat
            <6>1. m \in 1..m /\ p + m - 1 = z /\ ~(m < m)
              BY <1>1, <1>2
            <6>2. buf[z] = d[m + 1 - m] + 0 /\ d[m + 1 - m] \in Nat
              BY <1>3, <6>1
            <6> QED BY <6>2
          <5> QED BY <1>4, <5>2, <5>3
        <4> QED BY <4>1
      <3> QED BY <1>2, <3>1, <3>2
    <2> HIDE DEF IsEnd
    <2> QED BY <2>1, <2>2
  <1> HIDE DEF last
  <1>7. last + 1 - p = m /\ last + 1 = p + m
    BY <1>2, <1>6
  <1>8. [i \in 1..m |-> buf[last + 1 - i] % Half] = d
    <2>1. ASSUME NEW i \in 1..m PROVE buf[last + 1 - i] % Half = d[i]
      <3>1. PICK j \in 1..m : j = m + 1 - i /\ m + 1 - j = i /\ last + 1 - i = p + j - 1
        <4>1. m + 1 - i \in 1..m /\ m + 1 - (m + 1 - i) = i
          OBVIOUS
        <4>2. last + 1 - i = p + (m + 1 - i) - 1
          BY <1>2, <1>6
        <4> QED BY <4>1, <4>2
      <3>2. PICK x \in Nat : x = d[i] /\ x < h /\ buf[last + 1 - i] = x + (IF j < m THEN h ELSE 0)
        BY <1>3, <3>1
      <3>3. (h * 0 + x) % h = x /\ (h * 1 + x) % h = x
        <4>1. x < h
          BY <3>2
        <4> QED BY <4>1, Remainder
      <3>4. h * 0 + x = x + 0 /\ h * 1 + x = x + h
        OBVIOUS
      <3> QED BY <1>2, <3>2, <3>3, <3>4
    <2> QED BY <2>1
  <1>9. Power(Half, m - 1) < Word /\ ~(Power(Half, m - 1) >= Word)
    <2>1. CASE m = 1
      <3>1. Power(Half, 0) = 1 /\ m - 1 = 0
        BY <1>2, <2>1, PowerUnfolds
      <3> QED BY <3>1, Widths
    <2>2. CASE m # 1
      <3>1. Power(Half, m - 1) <= n /\ Power(Half, m - 1) \in Nat
        <4>1. m - 1 \in Nat
          BY <1>1
        <4> QED BY <1>0a, <1>2, <2>2, <4>1, PowerPositive DEF InGroups
      <3> QED BY <1>s, <3>1
    <2> QED BY <2>1, <2>2
  <1>10. NumberOf(Half, d, m) % Word = n /\ Signed(n) = n
    <2>1. n % w = n
      BY <1>s
    <2>2. ~(n >= s)
      BY <1>s
    <2> QED BY <1>1, <1>s, <2>1, <2>2 DEF Signed
  <1>11. ReadVarint(buf, p) = [value |-> Signed(NumberOf(Half, d, m) % Word), next |-> p + m]
    BY <1>7, <1>8, <1>9 DEF ReadVarint, last
  <1> QED BY <1>1, <1>10, <1>11

-----------------------------------------------------------------------------
(* Archives                                                                *)

\* A part takes more bytes than it has, for its length.
LEMMA FramedType ==
    ASSUME NEW B, Nat \subseteq B, NEW bytes \in Seq(B)
    PROVE  /\ Framed(bytes) \in Seq(B) /\ VarintEncode(Len(bytes)) \in Seq(B)
           /\ Len(Framed(bytes)) = Len(VarintEncode(Len(bytes))) + Len(bytes)
           /\ Len(VarintEncode(Len(bytes))) \in Nat /\ Len(VarintEncode(Len(bytes))) > 0
  <1>1. PICK n \in Nat : n = Len(bytes)
    OBVIOUS
  <1>2. PICK v \in Seq(Nat) : v = VarintEncode(n) /\ Len(v) > 0 /\ Len(v) \in Nat
    <2>1. VarintEncode(n) \in Seq(Nat) /\ Len(VarintEncode(n)) > 0
      BY VarintType
    <2> QED BY <2>1
  <1>3. v \in Seq(B)
    OBVIOUS
  <1>4. v \o bytes \in Seq(B) /\ Len(v \o bytes) = Len(v) + Len(bytes)
    BY <1>3, ConcatProperties
  <1> QED BY <1>1, <1>2, <1>3, <1>4 DEF Framed

\* What is placed in a buffer is the stretch of it.
LEMMA StretchOf ==
    ASSUME NEW B, NEW bytes \in Seq(B), NEW p \in Nat, NEW buf, Placed(buf, p, bytes)
    PROVE  SubSeq(buf, p, p + Len(bytes) - 1) = bytes
  <1>1. PICK n \in Nat, z \in Int : n = Len(bytes) /\ z = p + n - 1
    <2>1. Len(bytes) \in Nat /\ p + Len(bytes) - 1 \in Int
      OBVIOUS
    <2> QED BY <2>1
  <1>2. ASSUME NEW i \in p..z PROVE buf[i] \in B
    <2>1. PICK j \in 1..n : i = p + j - 1
      <3>1. i - p + 1 \in 1..n /\ i = p + (i - p + 1) - 1
        BY <1>1
      <3> QED BY <3>1
    <2>2. buf[i] = bytes[j]
      BY <1>1, <2>1 DEF Placed
    <2> QED BY <1>1, <2>2
  <1>3. PICK s : s = SubSeq(buf, p, z)
    OBVIOUS
  <1>4. /\ s \in Seq(B) /\ Len(s) = IF p <= z THEN z - p + 1 ELSE 0
        /\ \A i \in 1..(z - p + 1) : s[i] = buf[p + i - 1]
    BY <1>2, <1>3, SubSeqProperties
  <1>5. Len(s) = n /\ z - p + 1 = n
    BY <1>1, <1>4
  <1>6. \A i \in 1..n : s[i] = bytes[i]
    BY <1>1, <1>4, <1>5 DEF Placed
  <1>7. s = bytes
    <2>1. s = [i \in 1..n |-> s[i]]
      BY <1>4, <1>5
    <2>2. bytes = [i \in 1..n |-> bytes[i]]
      BY <1>1
    <2> QED BY <1>6, <2>1, <2>2
  <1> QED BY <1>1, <1>3, <1>7

\* A part that is read: its bytes and what is behind it.
PartRead(buf, p, bytes) ==
    /\ ReadVarint(buf, p).value = Len(bytes)
    /\ ReadVarint(buf, p).next \in Nat
    /\ ReadVarint(buf, p).next + Len(bytes) = p + Len(Framed(bytes))
    /\ SubSeq(buf, ReadVarint(buf, p).next, ReadVarint(buf, p).next + Len(bytes) - 1) = bytes

\* A part of a buffer is read as it was framed, if it is shorter than half a word.
LEMMA FramedReadsBack ==
    ASSUME NEW B, Nat \subseteq B, NEW bytes \in Seq(B), Len(bytes) < Word \div 2,
           NEW p \in Nat, p > 0, NEW buf,
           Len(buf) \in Nat, Placed(buf, p, Framed(bytes)), p + Len(Framed(bytes)) <= Len(buf) + 1
    PROVE  PartRead(buf, p, bytes)
  <1>1. PICK n \in Nat, v \in Seq(B) :
             n = Len(bytes) /\ v = VarintEncode(n) /\ Len(v) \in Nat /\ Len(Framed(bytes)) = Len(v) + n
    <2>1. Len(bytes) \in Nat
      OBVIOUS
    <2> QED BY <2>1, FramedType
  <1>2. Placed(buf, p, v) /\ Placed(buf, p + Len(v), bytes)
    BY <1>1, PlacedParts DEF Framed
  <1>3. ReadVarint(buf, p) = [value |-> n, next |-> p + Len(v)]
    <2>1. p + Len(v) <= Len(buf) + 1
      BY <1>1
    <2> QED BY <1>1, <1>2, <2>1, VarintReadsBack
  <1>4. SubSeq(buf, p + Len(v), (p + Len(v)) + Len(bytes) - 1) = bytes
    <2>1. p + Len(v) \in Nat
      BY <1>1
    <2> QED BY <1>2, <2>1, StretchOf
  <1> QED BY <1>1, <1>3, <1>4 DEF PartRead

\* What stands for a block in an archive.
PartOf(block) == Base32Decode(block.cid) \o block.bytes

\* Blocks as they are kept, by the base32 of a digest with its header, and with it
\* shorter than half a word.
ArchivedBlocks(B) ==
    {[cid |-> Base32Encode(c), bytes |-> d] :
        c \in [1..CidLength -> 0..(Byte - 1)], d \in {d \in Seq(B) : CidLength + Len(d) < Word \div 2}}

\* A block is split where its CID ends.
LEMMA SplitsBack ==
    ASSUME NEW B, Nat \subseteq B, NEW block \in ArchivedBlocks(B)
    PROVE  /\ PartOf(block) \in Seq(B) /\ SplitBlock(PartOf(block)) = block
           /\ Len(PartOf(block)) > 0 /\ Len(PartOf(block)) >= CidLength
           /\ Len(PartOf(block)) < Word \div 2
  <1>1. PICK c \in [1..CidLength -> 0..(Byte - 1)], d \in Seq(B) :
            block = [cid |-> Base32Encode(c), bytes |-> d] /\ CidLength + Len(d) < Word \div 2
    BY DEF ArchivedBlocks
  <1>2. PICK l \in Nat : l = CidLength /\ l > 0
    BY BytesAssumption
  <1>3. PICK W : W = 0..(Byte - 1)
    OBVIOUS
  <1>4. W \subseteq B
    <2>1. W \subseteq Nat
      BY <1>3, Widths
    <2> QED BY <2>1
  <1>5. c \in [1..l -> W]
    BY <1>2, <1>3
  <1>6. c \in Seq(W) /\ Len(c) = l /\ c \in Seq(B)
    <2>1. c \in [1..l -> B]
      BY <1>4, <1>5
    <2> QED BY <1>5, <2>1
  <1>7. Base32Decode(block.cid) = c
    <2>1. c \in Seq(0..(Byte - 1))
      BY <1>3, <1>6
    <2>2. Base32Decode(Base32Encode(c)) = c
      BY <2>1, Base32ReadsBack
    <2> QED BY <1>1, <2>2
  <1>8. PICK t \in Seq(B) :
             t = c \o d /\ Len(t) = l + Len(d)
    <2>1. PICK e \in Seq(B) : e = c /\ Len(e) = l
      BY <1>6
    <2>2. e \o d \in Seq(B) /\ Len(e \o d) = Len(e) + Len(d)
      BY ConcatProperties
    <2> QED BY <2>1, <2>2
  <1>9. PartOf(block) = t
    BY <1>1, <1>7, <1>8 DEF PartOf
  <1>10. Placed(t, 1, t)
    BY DEF Placed
  <1>11. Placed(t, 1, c) /\ Placed(t, 1 + l, d)
    BY <1>6, <1>8, <1>10, PlacedParts
  <1>12. SubSeq(t, 1, 1 + l - 1) = c
    BY <1>6, <1>11, StretchOf
  <1>13. SubSeq(t, 1 + l, (1 + l) + Len(d) - 1) = d
    <2>1. 1 + l \in Nat
      OBVIOUS
    <2> QED BY <1>11, <2>1, StretchOf
  <1>14. /\ 1 + l - 1 = l /\ 1 + l = l + 1 /\ (1 + l) + Len(d) - 1 = Len(t)
         /\ Len(t) > 0 /\ Len(t) >= CidLength
    <2>1. Len(d) \in Nat
      OBVIOUS
    <2> QED BY <1>2, <1>8, <2>1
  <1>15. SplitBlock(t) = [cid |-> Base32Encode(c), bytes |-> d]
    BY <1>2, <1>12, <1>13, <1>14 DEF SplitBlock
  <1>16. Len(t) < Word \div 2
    BY <1>1, <1>2, <1>8
  <1> QED BY <1>1, <1>9, <1>14, <1>15, <1>16

\* f holds an archive from its header on, block by block.
ArchiveCourse(f, header, blocks) ==
    /\ f[0] = Framed(header)
    /\ \A k \in 1..Len(blocks) : f[k] = f[k - 1] \o Framed(PartOf(blocks[k]))

\* The recursion of Archive has a solution.
LEMMA ArchiveIsLast ==
    ASSUME NEW B, Nat \subseteq B, NEW header \in Seq(B), NEW blocks \in Seq(ArchivedBlocks(B))
    PROVE  \E f \in [0..Len(blocks) -> Seq(B)] :
               ArchiveCourse(f, header, blocks) /\ Archive(header, blocks) = f[Len(blocks)]
  <1>1. PICK n \in Nat : n = Len(blocks)
    OBVIOUS
  <1> DEFINE X == Seq(B)
             add(k) == Framed(PartOf(blocks[k]))
             F == [k \in 1..n |-> [x \in X |-> x \o add(k)]]
             body(f, k) == IF k = 0 THEN Framed(header) ELSE f[k - 1] \o add(k)
             up == CHOOSE f : f = [k \in 0..n |-> body(f, k)]
  <1>2. ASSUME NEW k \in 1..n PROVE add(k) \in X
    <2>1. blocks[k] \in ArchivedBlocks(B)
      BY <1>1
    <2>2. PartOf(blocks[k]) \in Seq(B)
      BY <2>1, SplitsBack
    <2> QED BY <2>2, FramedType
  <1>3. Framed(header) \in X
    BY FramedType
  <1>4. F \in [1..n -> [X -> X]]
    <2>1. ASSUME NEW k \in 1..n, NEW x \in X PROVE x \o add(k) \in X
      BY <1>2, ConcatProperties
    <2> HIDE DEF X, add
    <2> QED BY <2>1
  <1>5. PICK g \in [0..n -> X] : Course(g, Framed(header), F, n)
    <2> HIDE DEF F, X
    <2> QED BY <1>3, <1>4, LoopExists
  <1>6. \A k \in 1..n : g[k] = g[k - 1] \o add(k)
    <2>1. \A k \in 1..n : g[k - 1] \in X
      OBVIOUS
    <2> HIDE DEF X, add
    <2> QED BY <1>5, <2>1 DEF Course
  <1>7. g = [k \in 0..n |-> body(g, k)]
    <2>1. ASSUME NEW k \in 0..n PROVE g[k] = body(g, k)
      <3>1. CASE k = 0
        BY <1>5, <3>1 DEF Course
      <3>2. CASE k # 0
        <4>1. k \in 1..n
          BY <3>2
        <4>2. g[k] = g[k - 1] \o add(k)
          BY <1>6, <4>1
        <4> HIDE DEF X, add
        <4> QED BY <3>2, <4>2
      <3> QED BY <3>1, <3>2
    <2> HIDE DEF body, X
    <2> QED BY <2>1
  <1>8. up = [k \in 0..n |-> body(up, k)]
    <2> HIDE DEF body
    <2> QED BY <1>7
  <1>9. Archive(header, blocks) = up[n]
    BY <1>1 DEF Archive, PartOf
  <1> HIDE DEF up
  <1>10. up[0] = Framed(header) /\ \A k \in 1..n : up[k] = up[k - 1] \o add(k)
    <2>1. \A k \in 0..n : up[k] = body(up, k)
      <3> HIDE DEF body
      <3> QED BY <1>8
    <2>2. 0 \in 0..n /\ \A k \in 1..n : k \in 0..n /\ k # 0
      OBVIOUS
    <2>3. up[0] = Framed(header)
      <3>1. up[0] = body(up, 0)
        BY <2>1, <2>2
      <3> QED BY <3>1
    <2>4. ASSUME NEW k \in 1..n PROVE up[k] = up[k - 1] \o add(k)
      <3>1. up[k] = body(up, k) /\ k # 0
        <4> HIDE DEF body
        <4> QED BY <2>1, <2>2
      <3> HIDE DEF add
      <3> QED BY <3>1
    <2> HIDE DEF add
    <2> QED BY <2>3, <2>4
  <1>11. \A k \in 0..n : up[k] \in X
    <2> DEFINE S == {k \in Nat : k <= n => up[k] \in X}
    <2>1. 0 \in S
      <3> HIDE DEF X
      <3> QED BY <1>3, <1>10
    <2>2. ASSUME NEW k \in Nat, k \in S PROVE k + 1 \in S
      <3>1. SUFFICES ASSUME k + 1 <= n PROVE up[k + 1] \in X
        OBVIOUS
      <3>2. k + 1 \in 1..n /\ (k + 1) - 1 = k /\ up[k] \in X
        BY <2>2, <3>1
      <3>3. add(k + 1) \in X
        BY <1>2, <3>2
      <3>4. up[k + 1] = up[k] \o add(k + 1)
        <4> HIDE DEF X, add
        <4> QED BY <1>10, <3>2
      <3>5. up[k] \o add(k + 1) \in X
        BY <3>2, <3>3, ConcatProperties
      <3> QED BY <3>4, <3>5
    <2>3. Nat \subseteq S
      <3> HIDE DEF S
      <3> QED BY <2>1, <2>2, SetInduction
    <2> HIDE DEF X
    <2> QED BY <2>3
  <1>12. up \in [0..n -> Seq(B)]
    <2> HIDE DEF body
    <2> QED BY <1>8, <1>11
  <1>13. ArchiveCourse(up, header, blocks)
    BY <1>1, <1>10 DEF ArchiveCourse
  <1> QED BY <1>1, <1>9, <1>12, <1>13

\* One archive goes on where the other ends.
GoesOn(s, t) == Len(s) <= Len(t) /\ \A i \in 1..Len(s) : t[i] = s[i]

\* What is in an archive stays where it is.
LEMMA FramesGrow ==
    ASSUME NEW B, Nat \subseteq B, NEW header, NEW blocks, NEW n \in Nat,
           NEW f \in [0..n -> Seq(B)], n = Len(blocks), ArchiveCourse(f, header, blocks),
           NEW j \in 0..n, \A k \in 1..n : Framed(PartOf(blocks[k])) \in Seq(B)
    PROVE  GoesOn(f[j], f[n])
  <1> DEFINE S == {k \in Nat : j <= k /\ k <= n => GoesOn(f[j], f[k])}
  <1>1. ASSUME NEW k \in 0..n PROVE GoesOn(f[k], f[k])
    BY DEF GoesOn
  <1>2. 0 \in S
    <2>1. j <= 0 => j = 0 /\ 0 \in 0..n
      OBVIOUS
    <2> QED BY <1>1, <2>1
  <1>3. ASSUME NEW k \in Nat, k \in S PROVE k + 1 \in S
    <2>1. SUFFICES ASSUME j <= k + 1, k + 1 <= n PROVE GoesOn(f[j], f[k + 1])
      OBVIOUS
    <2>2. CASE j = k + 1
      BY <1>1, <2>2
    <2>3. CASE j # k + 1
      <3>1. j <= k /\ k + 1 \in 1..n /\ (k + 1) - 1 = k /\ k \in 0..n
        BY <2>1, <2>3
      <3>2. GoesOn(f[j], f[k])
        BY <1>3, <2>1, <3>1
      <3>3. PICK s \in Seq(B), x \in Seq(B), a \in Seq(B) :
                 /\ s = f[j] /\ x = f[k] /\ a = Framed(PartOf(blocks[k + 1])) /\ f[k + 1] = x \o a
        BY <3>1 DEF ArchiveCourse
      <3>4. PICK p \in Nat, q \in Nat, r \in Nat : p = Len(s) /\ q = Len(x) /\ r = Len(a)
        OBVIOUS
      <3>5. /\ Len(x \o a) = q + r
            /\ \A i \in 1..(q + r) : (x \o a)[i] = IF i <= q THEN x[i] ELSE a[i - q]
        BY <3>4, ConcatProperties
      <3>6. p <= q /\ \A i \in 1..p : x[i] = s[i]
        BY <3>2, <3>3, <3>4 DEF GoesOn
      <3>7. \A i \in 1..p : i \in 1..(q + r) /\ i <= q
        BY <3>6
      <3>8. p <= q + r /\ \A i \in 1..p : (x \o a)[i] = s[i]
        BY <3>5, <3>6, <3>7
      <3> QED BY <3>3, <3>4, <3>5, <3>8 DEF GoesOn
    <2> QED BY <2>2, <2>3
  <1>4. Nat \subseteq S
    <2> HIDE DEF S
    <2> QED BY <1>2, <1>3, SetInduction
  <1>5. n \in S /\ j <= n /\ n <= n
    BY <1>4
  <1> QED BY <1>5

\* repo/car.ts: importCar finds the header and the blocks that exportCar wrote,
\* in their order, each with its CID, and nothing else, as long as the header and
\* every block with its CID are shorter than half a word, 2 GiB.
THEOREM ArchiveReadsBack ==
    ASSUME NEW B, Nat \subseteq B, NEW header \in Seq(B), Len(header) < Word \div 2, NEW blocks \in Seq(ArchivedBlocks(B))
    PROVE  ReadArchive(Archive(header, blocks)) = [header |-> header, blocks |-> blocks]
  <1>1. PICK n \in Nat : n = Len(blocks)
    OBVIOUS
  <1>2. PICK f \in [0..n -> Seq(B)] : ArchiveCourse(f, header, blocks) /\ Archive(header, blocks) = f[n]
    BY <1>1, ArchiveIsLast
  <1>3. PICK buf \in Seq(B) : buf = f[n]
    OBVIOUS
  <1>4. PICK b \in Nat : b = Len(buf)
    OBVIOUS
  <1>5. ASSUME NEW k \in 0..n PROVE Len(f[k]) \in Nat /\ f[k] \in Seq(B)
    OBVIOUS
  <1>6. ASSUME NEW k \in 1..n
        PROVE  /\ PartOf(blocks[k]) \in Seq(B) /\ Len(PartOf(blocks[k])) > 0
               /\ Len(PartOf(blocks[k])) >= CidLength /\ Len(PartOf(blocks[k])) < Word \div 2
               /\ SplitBlock(PartOf(blocks[k])) = blocks[k]
               /\ Framed(PartOf(blocks[k])) \in Seq(B)
    <2>1. blocks[k] \in ArchivedBlocks(B)
      BY <1>1
    <2>2. /\ PartOf(blocks[k]) \in Seq(B) /\ Len(PartOf(blocks[k])) > 0
          /\ Len(PartOf(blocks[k])) >= CidLength /\ Len(PartOf(blocks[k])) < Word \div 2
          /\ SplitBlock(PartOf(blocks[k])) = blocks[k]
      BY <2>1, SplitsBack
    <2> QED BY <2>2, FramedType
  <1>7. ASSUME NEW k \in 0..n PROVE Len(f[k]) <= b /\ \A i \in 1..Len(f[k]) : buf[i] = f[k][i]
    <2>1. GoesOn(f[k], f[n])
      BY <1>1, <1>2, <1>6, FramesGrow
    <2> QED BY <1>3, <1>4, <2>1 DEF GoesOn
  \* The header.
  <1>8. PICK h \in Seq(B) : h = Framed(header) /\ h = f[0] /\ Len(h) \in Nat /\ Len(h) > 0
    <2>1. /\ Framed(header) \in Seq(B)
          /\ Len(Framed(header)) = Len(VarintEncode(Len(header))) + Len(header)
          /\ Len(VarintEncode(Len(header))) \in Nat /\ Len(VarintEncode(Len(header))) > 0
      BY FramedType
    <2>2. Len(header) \in Nat /\ f[0] = Framed(header)
      BY <1>2 DEF ArchiveCourse
    <2> QED BY <2>1, <2>2
  <1>9. PartRead(buf, 1, header)
    <2>1. 0 \in 0..n
      OBVIOUS
    <2>2. \A i \in 1..Len(h) : buf[1 + i - 1] = h[i]
      <3>1. \A i \in 1..Len(h) : buf[i] = h[i]
        BY <1>7, <1>8, <2>1
      <3>2. \A i \in 1..Len(h) : 1 + i - 1 = i
        OBVIOUS
      <3> QED BY <3>1, <3>2
    <2>3. 1 + Len(h) <= b + 1
      <3>1. Len(h) <= b
        BY <1>7, <1>8, <2>1
      <3> QED BY <1>8, <3>1
    <2>4. Placed(buf, 1, Framed(header)) /\ 1 + Len(Framed(header)) <= Len(buf) + 1
      BY <1>4, <1>8, <2>2, <2>3 DEF Placed
    <2> QED BY <1>4, <2>4, FramedReadsBack
  <1> DEFINE At(k) == [offset |-> Len(f[k]) + 1, blocks |-> SubSeq(blocks, 1, k)]
  \* A turn for each block.
  <1>10. ASSUME NEW k \in 1..n
         PROVE  ReadBlock(buf, At(k - 1)) = At(k) /\ Len(f[k - 1]) < Len(f[k])
    <2>1. k - 1 \in 0..n /\ k \in 0..n
      OBVIOUS
    <2>2. PICK x \in Seq(B), a \in Seq(B), t \in Seq(B) :
               /\ x = f[k - 1] /\ t = PartOf(blocks[k]) /\ a = Framed(t) /\ f[k] = x \o a
      BY <1>2, <1>1, <1>6, <2>1 DEF ArchiveCourse
    <2>3. PICK p \in Nat, r \in Nat, l \in Nat : p = Len(x) /\ r = Len(a) /\ l = Len(t) /\ l > 0
      BY <1>6, <2>2
    <2>4. r > 0
      <3>1. Len(a) = Len(VarintEncode(Len(t))) + Len(t) /\ Len(VarintEncode(Len(t))) \in Nat
        BY <2>2, FramedType
      <3> QED BY <2>3, <3>1
    <2>5. Len(f[k]) = p + r
      <3>1. Len(x \o a) = Len(x) + Len(a)
        BY ConcatProperties
      <3> QED BY <2>2, <2>3, <3>1
    <2>6. p + r <= b
      BY <1>7, <2>1, <2>5
    <2>7. Placed(buf, p + 1, a)
      <3>1. \A i \in 1..(p + r) : buf[i] = (x \o a)[i]
        BY <1>7, <2>1, <2>2, <2>5
      <3>2. ASSUME NEW i \in 1..r PROVE buf[(p + 1) + i - 1] = a[i]
        <4>1. p + i \in 1..(p + r) /\ ~(p + i <= p) /\ (p + i) - p = i /\ (p + 1) + i - 1 = p + i
          OBVIOUS
        <4>2. \A z \in 1..(Len(x) + Len(a)) : (x \o a)[z] = IF z <= Len(x) THEN x[z] ELSE a[z - Len(x)]
          BY ConcatProperties
        <4>3. (x \o a)[p + i] = a[i]
          BY <2>3, <4>1, <4>2
        <4> QED BY <3>1, <4>1, <4>3
      <3> QED BY <2>3, <3>2 DEF Placed
    <2>8. PartRead(buf, p + 1, t)
      <3>1. p + 1 \in Nat /\ p + 1 > 0 /\ (p + 1) + r <= b + 1
        BY <2>6
      <3>2. Placed(buf, p + 1, Framed(t)) /\ (p + 1) + Len(Framed(t)) <= Len(buf) + 1
        BY <1>4, <2>2, <2>3, <2>7, <3>1
      <3>3. Len(t) < Word \div 2
        BY <1>6, <2>2
      <3> QED BY <1>4, <3>1, <3>2, <3>3, FramedReadsBack
    <2>9. PICK y \in Nat :
               /\ ReadVarint(buf, p + 1).next = y /\ ReadVarint(buf, p + 1).value = l
               /\ y + l = (p + 1) + r /\ SubSeq(buf, y, y + l - 1) = t
      BY <2>2, <2>3, <2>8 DEF PartRead
    <2>10. At(k - 1).offset = p + 1 /\ At(k - 1).blocks = SubSeq(blocks, 1, k - 1)
      BY <2>2, <2>3
    <2>11. Append(SubSeq(blocks, 1, k - 1), blocks[k]) = SubSeq(blocks, 1, k)
      <3>1. PICK A : A = ArchivedBlocks(B)
        OBVIOUS
      <3>2. blocks \in Seq(A) /\ k \in 1..Len(blocks)
        BY <1>1, <3>1
      <3> QED BY <3>2
    <2>12. ReadBlock(buf, At(k - 1)) =
               [offset |-> y + l, blocks |-> Append(SubSeq(blocks, 1, k - 1), SplitBlock(t))]
      <3>1. ~(p + 1 > Len(buf)) /\ p + 1 <= Len(buf) /\ l # 0
        BY <1>4, <2>3, <2>4, <2>6
      <3>2. Len(t) >= CidLength
        BY <1>6, <2>2
      <3> HIDE DEF At
      <3> QED BY <2>9, <2>10, <3>1, <3>2 DEF ReadBlock
    <2>13. SplitBlock(t) = blocks[k] /\ y + l = Len(f[k]) + 1
      <3>1. y + l = (p + r) + 1
        BY <2>9
      <3> QED BY <1>6, <2>2, <2>5, <3>1
    <2>14. Len(f[k - 1]) < Len(f[k])
      <3>1. Len(f[k - 1]) = p
        BY <2>2, <2>3
      <3>2. p < p + r
        BY <2>4
      <3> QED BY <2>5, <3>1, <3>2
    <2> QED BY <2>11, <2>12, <2>13, <2>14
  \* There are turns enough.
  <1>11. n <= b
    <2> DEFINE S == {k \in Nat : k <= n => k <= Len(f[k])}
    <2>1. 0 \in S
      <3>1. 0 \in 0..n
        OBVIOUS
      <3> QED BY <1>5, <3>1
    <2>2. ASSUME NEW k \in Nat, k \in S PROVE k + 1 \in S
      <3>1. SUFFICES ASSUME k + 1 <= n PROVE k + 1 <= Len(f[k + 1])
        OBVIOUS
      <3>2. k + 1 \in 1..n /\ (k + 1) - 1 = k /\ k \in 0..n /\ k + 1 \in 0..n
        BY <3>1
      <3>3. Len(f[k]) < Len(f[k + 1])
        BY <1>10, <3>2
      <3>4. k <= Len(f[k]) /\ Len(f[k]) \in Nat /\ Len(f[k + 1]) \in Nat
        BY <1>5, <2>2, <3>1, <3>2
      <3> QED BY <3>3, <3>4
    <2>3. Nat \subseteq S
      <3> HIDE DEF S
      <3> QED BY <2>1, <2>2, SetInduction
    <2>4. n \in S /\ n <= n /\ Len(f[n]) = b
      BY <1>3, <1>4, <2>3
    <2> QED BY <2>4
  \* The turns of importCar, and how it stands at its end.
  <1> DEFINE body(g, k) == IF k = 0 THEN [offset |-> Len(h) + 1, blocks |-> <<>>]
                           ELSE ReadBlock(buf, g[k - 1])
             turn == CHOOSE g : g = [k \in 0..b |-> body(g, k)]
             Stops(k) == IF k < n THEN At(k) ELSE At(n)
  <1>12. At(0) = [offset |-> Len(h) + 1, blocks |-> <<>>]
    <2>1. SubSeq(blocks, 1, 0) = <<>>
      BY SubSeqEmpty
    <2> QED BY <1>8, <2>1
  <1>13. ReadBlock(buf, At(n)) = At(n)
    <2>1. At(n).offset = b + 1 /\ b + 1 > Len(buf) /\ ~(b + 1 <= Len(buf))
      BY <1>3, <1>4
    <2> HIDE DEF At
    <2> QED BY <2>1 DEF ReadBlock
  <1>14. ASSUME NEW k \in 1..b PROVE Stops(k) = ReadBlock(buf, Stops(k - 1))
    <2>1. CASE k <= n
      <3>1. k \in 1..n /\ Stops(k) = At(k) /\ Stops(k - 1) = At(k - 1)
        <4>1. k \in 1..n /\ k - 1 < n /\ (k < n \/ k = n)
          BY <2>1
        <4> HIDE DEF At
        <4> QED BY <4>1
      <3> HIDE DEF At, Stops
      <3> QED BY <1>10, <3>1
    <2>2. CASE ~(k <= n)
      <3>1. Stops(k) = At(n) /\ Stops(k - 1) = At(n)
        <4>1. ~(k < n) /\ ~(k - 1 < n)
          BY <2>2
        <4> HIDE DEF At
        <4> QED BY <4>1
      <3> HIDE DEF At, Stops
      <3> QED BY <1>13, <3>1
    <2> QED BY <2>1, <2>2
  <1>15. Stops(0) = [offset |-> Len(h) + 1, blocks |-> <<>>] /\ Stops(b) = At(n)
    <2>1. (n = 0 \/ 0 < n) /\ ~(b < n)
      BY <1>11
    <2> HIDE DEF At
    <2> QED BY <1>12, <2>1
  <1> HIDE DEF Stops, At
  <1>16. turn = [k \in 0..b |-> body(turn, k)]
    <2>1. PICK g : g = [k \in 0..b |-> Stops(k)]
      OBVIOUS
    <2>2. ASSUME NEW k \in 0..b PROVE g[k] = body(g, k)
      <3>1. CASE k = 0
        BY <1>15, <2>1, <3>1
      <3>2. CASE k # 0
        <4>1. k \in 1..b /\ k - 1 \in 0..b
          BY <3>2
        <4> QED BY <1>14, <2>1, <3>2, <4>1
      <3> QED BY <3>1, <3>2
    <2>3. g = [k \in 0..b |-> body(g, k)]
      <3> HIDE DEF body
      <3> QED BY <2>1, <2>2
    <2> HIDE DEF body
    <2> QED BY <2>3
  <1>17. PICK last : last = turn
    OBVIOUS
  <1>18. \A k \in 0..b : last[k] = body(last, k)
    <2> HIDE DEF body, turn
    <2> QED BY <1>16, <1>17
  <1>19. \A k \in 0..b : last[k] = Stops(k)
    <2> DEFINE S == {k \in Nat : k <= b => last[k] = Stops(k)}
    <2>1. 0 \in S
      <3>1. last[0] = body(last, 0)
        <4>1. 0 \in 0..b
          OBVIOUS
        <4> HIDE DEF body
        <4> QED BY <1>18, <4>1
      <3> QED BY <1>15, <3>1
    <2>2. ASSUME NEW k \in Nat, k \in S PROVE k + 1 \in S
      <3>1. SUFFICES ASSUME k + 1 <= b PROVE last[k + 1] = Stops(k + 1)
        OBVIOUS
      <3>2. k + 1 \in 1..b /\ k + 1 \in 0..b /\ (k + 1) - 1 = k /\ k + 1 # 0
        BY <3>1
      <3>3. last[k + 1] = ReadBlock(buf, last[k])
        <4>1. last[k + 1] = body(last, k + 1)
          <5> HIDE DEF body
          <5> QED BY <1>18, <3>2
        <4> QED BY <3>2, <4>1
      <3>4. last[k] = Stops(k)
        BY <2>2, <3>1
      <3> QED BY <1>14, <3>2, <3>3, <3>4
    <2>3. Nat \subseteq S
      <3> HIDE DEF S
      <3> QED BY <2>1, <2>2, SetInduction
    <2> QED BY <2>3
  <1>20. ReadBlocks(buf, Len(h) + 1) = last[b].blocks
    BY <1>4, <1>17 DEF ReadBlocks
  <1>21. last[b].blocks = blocks
    <2>1. last[b] = At(n)
      <3>1. b \in 0..b
        OBVIOUS
      <3> QED BY <1>15, <1>19, <3>1
    <2>2. SubSeq(blocks, 1, n) = blocks
      <3>1. PICK A : A = ArchivedBlocks(B)
        OBVIOUS
      <3>2. blocks \in Seq(A) /\ n = Len(blocks)
        BY <1>1, <3>1
      <3> QED BY <3>2
    <2> QED BY <2>1, <2>2 DEF At
  <1>22. PICK y \in Nat, l \in Nat :
              /\ ReadVarint(buf, 1).next = y /\ ReadVarint(buf, 1).value = l
              /\ y + l = Len(h) + 1 /\ SubSeq(buf, y, y + l - 1) = header
    <2>1. Len(header) \in Nat
      OBVIOUS
    <2>2. 1 + Len(h) = Len(h) + 1
      BY <1>8
    <2> QED BY <1>8, <1>9, <2>1, <2>2 DEF PartRead
  <1> HIDE DEF turn
  <1>23. ReadArchive(buf) = [header |-> header, blocks |-> blocks]
    BY <1>20, <1>21, <1>22 DEF ReadArchive
  <1> QED BY <1>2, <1>3, <1>23

-----------------------------------------------------------------------------
(* Items that hold no others                                               *)

\* The bytes of heads.
HeadBytes == Nat \cup [major : Nat, ai : Nat]

\* The numbers that are read as they were written, by IntegersSurvive.
Survives(v) ==
    /\ v < Word * Word /\ v % Word < Word \div 2 /\ v \div Word < Word \div 2
    /\ v <= MaxSafe

\* A head is bytes.
LEMMA HeadType ==
    ASSUME NEW B, HeadBytes \subseteq B, NEW major \in Nat, NEW v \in Nat
    PROVE  WriteHeader(major, v) \in Seq(B)
  <1>1. PICK im \in Nat, b \in Nat, y \in Nat, w \in Nat :
             /\ im = Immediate /\ b = Byte /\ y = Power(Byte, 2) /\ w = Word /\ w > 0
    <2>1. Immediate \in Nat
      BY Widths, BytesAssumption
    <2> QED BY <2>1, Widths
  <1>2. \A k \in Nat : [major |-> major, ai |-> k] \in B
    <2>1. \A k \in Nat : [major |-> major, ai |-> k] \in HeadBytes
      BY DEF HeadBytes
    <2> QED BY <2>1
  <1>3. \A k \in Nat : <<[major |-> major, ai |-> k]>> \in Seq(B)
    BY <1>2
  <1>4. ASSUME NEW u \in Nat, NEW n \in Nat PROVE Digits(Byte, u, n) \in Seq(B)
    <2>1. PICK d \in Seq(Nat) : d = Digits(Byte, u, n)
      BY DigitsLength
    <2>2. Nat \subseteq B
      BY DEF HeadBytes
    <2>3. d \in Seq(B)
      BY <2>2
    <2> QED BY <2>1, <2>3
  <1> DEFINE first(k) == <<[major |-> major, ai |-> k]>>
  <1>5. ASSUME NEW k \in Nat, NEW u \in Nat, NEW n \in Nat
        PROVE  first(k) \o Digits(Byte, u, n) \in Seq(B)
    BY <1>3, <1>4, ConcatProperties
  <1>6. im + 1 \in Nat /\ im + 2 \in Nat /\ im + 3 \in Nat
    OBVIOUS
  <1>7. im <= b /\ b <= y /\ y <= w
    <2>1. Word \div 2 <= Word
      BY Widths
    <2> QED BY <1>1, <2>1, Widths, BytesAssumption
  <1>8. CASE v < Immediate
    <2>1. v < im /\ ~(v >= im) /\ ~(v >= b) /\ ~(v >= y) /\ v < w
      BY <1>1, <1>7, <1>8
    <2>2. WriteHeader(major, v) = first(v)
      BY <1>1, <2>1 DEF WriteHeader
    <2> QED BY <1>3, <2>2
  <1>9. CASE v >= Immediate /\ v < Byte
    <2>1. ~(v < im) /\ v >= im /\ v < b /\ ~(v >= b) /\ ~(v >= y) /\ v < w
      BY <1>1, <1>7, <1>9
    <2>2. WriteHeader(major, v) = first(im) \o Digits(Byte, v, 1)
      BY <1>1, <2>1 DEF WriteHeader
    <2> QED BY <1>5, <2>2
  <1>10. CASE v >= Byte /\ v < Power(Byte, 2)
    <2>1. ~(v < im) /\ ~(v < b) /\ v >= b /\ v < y /\ ~(v >= y) /\ v < w
      BY <1>1, <1>7, <1>10
    <2>2. WriteHeader(major, v) = first(im + 1) \o Digits(Byte, v, 2)
      BY <1>1, <2>1 DEF WriteHeader
    <2> QED BY <1>5, <1>6, <2>2
  <1>11. CASE v >= Power(Byte, 2) /\ v < Word
    <2>1. ~(v < im) /\ ~(v < b) /\ ~(v < y) /\ v >= y /\ v < w
      BY <1>1, <1>7, <1>11
    <2>2. WriteHeader(major, v) = first(im + 2) \o Digits(Byte, v, 4)
      BY <1>1, <2>1 DEF WriteHeader
    <2> QED BY <1>5, <1>6, <2>2
  <1>12. CASE v >= Word
    <2>1. ~(v < im) /\ ~(v < b) /\ ~(v < y) /\ ~(v < w)
      BY <1>1, <1>7, <1>12
    <2>2. WriteHeader(major, v) =
              first(im + 3) \o Digits(Byte, v \div Word, 4) \o Digits(Byte, v % Word, 4)
      BY <1>1, <2>1 DEF WriteHeader
    <2>3. PICK q \in Nat, r \in Nat : q = v \div Word /\ r = v % Word
      <3>1. v \div w \in Nat /\ v % w \in Nat
        BY <1>1
      <3> QED BY <1>1, <3>1
    <2>4. PICK s \in Seq(B), d \in Seq(B) :
               s = first(im + 3) \o Digits(Byte, q, 4) /\ d = Digits(Byte, r, 4)
      BY <1>4, <1>5, <1>6
    <2>5. s \o d \in Seq(B)
      BY ConcatProperties
    <2> QED BY <2>2, <2>3, <2>4, <2>5
  <1>13. \/ v < Immediate
         \/ v >= Immediate /\ v < Byte
         \/ v >= Byte /\ v < Power(Byte, 2)
         \/ v >= Power(Byte, 2) /\ v < Word
         \/ v >= Word
    BY <1>1
  <1> QED BY <1>8, <1>9, <1>10, <1>11, <1>12, <1>13

\* What a reader of the head of v finds at p, where the head is from.
HeadRead(buf, p, major, v) ==
    ReadHeader(buf, p) =
        [major |-> major, value |-> v, next |-> p + Len(WriteHeader(major, v))]

\* A number that survives is read from its head.
LEMMA SurvivorIsRead ==
    ASSUME NEW major \in Nat, NEW v \in Nat, Survives(v), NEW p \in Nat, NEW buf,
           Placed(buf, p, WriteHeader(major, v))
    PROVE  HeadRead(buf, p, major, v)
  <1>1. v < Word * Word /\ ReadsAs(v) = v /\ v \in -MaxSafe..MaxSafe
    <2>1. v < Word * Word /\ ReadsAs(v) = v
      BY IntegersSurvive DEF Survives
    <2>2. v \in -MaxSafe..MaxSafe
      BY BytesAssumption DEF Survives
    <2> QED BY <2>1, <2>2
  <1> QED BY <1>1, HeaderReadsBack DEF HeadRead

\* Numbers below half a word survive.
LEMMA SmallSurvive ==
    ASSUME NEW v \in Nat, v < Word \div 2
    PROVE  Survives(v)
  <1>1. PICK w \in Nat, h \in Nat : w = Word /\ h = w \div 2 /\ h > 0 /\ h <= w /\ w > 0
    <2>1. Word \in Nat /\ Word > 1
      BY Widths
    <2>2. Word \div 2 \in Nat /\ Word \div 2 > 0 /\ Word \div 2 <= Word
      BY <2>1
    <2> QED BY <2>1, <2>2
  <1>2. v < w
    BY <1>1
  <1>3. (w * 0 + v) \div w = 0 /\ (w * 0 + v) % w = v
    BY <1>2, Remainder
  <1>4. w * 0 + v = v
    OBVIOUS
  <1>5. w * w >= w
    BY <1>1
  <1>6. v <= MaxSafe
    BY <1>1, <1>2, BytesAssumption
  <1> QED BY <1>1, <1>2, <1>3, <1>4, <1>5, <1>6 DEF Survives

\* Texts that UTF-8 keeps: without lone surrogates, and without a byte order mark
\* at their front.
PlainText(s) ==
    /\ \A i \in 1..Len(s) : s[i] # LoneSurrogate
    /\ s # <<>> => s[1] # ByteOrderMark

\* They do leave and arrive as they are.
LEMMA PlainIsKept ==
    ASSUME NEW B, NEW s \in Seq(B), PlainText(s)
    PROVE  Utf8(s) = s /\ FromUtf8(s) = s
  <1>1. DOMAIN s = 1..Len(s) /\ s = [i \in DOMAIN s |-> s[i]]
    OBVIOUS
  <1>2. \A i \in DOMAIN s : s[i] # LoneSurrogate
    BY <1>1 DEF PlainText
  <1>3. Utf8(s) = [i \in DOMAIN s |-> s[i]]
    BY <1>2 DEF Utf8
  <1>4. FromUtf8(s) = s
    BY DEF FromUtf8, PlainText
  <1> QED BY <1>1, <1>3, <1>4

\* The values that hold no others: integers whose argument survives, plain texts
\* and bytes shorter than half a word, links and simple values.
Flat(B) ==
    [t : {"int"}, n : {n \in Int : Survives(IF n >= 0 THEN n ELSE -1 - n)}]
        \cup [t : {"bytes"}, s : {s \in Seq(B) : Len(s) < Word \div 2}]
        \cup [t : {"text"}, s : {s \in Seq(B) : Len(s) < Word \div 2 /\ PlainText(s)}]
        \cup [t : {"link"}, c : {Base32Encode(c) : c \in [1..CidLength -> 0..(Byte - 1)]}]
        \cup [t : {"simple"}, n : {n \in Nat : n < Word \div 2}]

\* A string or bytes s, read behind their head.
StringRead(buf, p, major, s) ==
    LET front == WriteHeader(major, Len(s)) IN
    /\ ReadHeader(buf, p) = [major |-> major, value |-> Len(s), next |-> p + Len(front)]
    /\ Len(front) \in Nat /\ Len(front \o s) = Len(front) + Len(s)
    /\ SubSeq(buf, p + Len(front), p + Len(front) + Len(s) - 1) = s

\* They are, wherever they stand.
LEMMA StringIsRead ==
    ASSUME NEW B, HeadBytes \subseteq B, NEW s \in Seq(B), Len(s) < Word \div 2,
           NEW major \in Nat, NEW p \in Nat, NEW buf,
           Placed(buf, p, WriteHeader(major, Len(s)) \o s)
    PROVE  StringRead(buf, p, major, s)
  <1>1. PICK n \in Nat, front \in Seq(B) : n = Len(s) /\ front = WriteHeader(major, n)
    <2>1. Len(s) \in Nat
      OBVIOUS
    <2> QED BY <2>1, HeadType
  <1>2. Placed(buf, p, front) /\ Placed(buf, p + Len(front), s)
    BY <1>1, PlacedParts
  <1>3. HeadRead(buf, p, major, n)
    BY <1>1, <1>2, SmallSurvive, SurvivorIsRead
  <1>4. Len(front) \in Nat /\ Len(front \o s) = Len(front) + Len(s)
    BY ConcatProperties
  <1>5. SubSeq(buf, p + Len(front), (p + Len(front)) + Len(s) - 1) = s
    <2>1. p + Len(front) \in Nat
      BY <1>4
    <2> QED BY <1>2, <2>1, StretchOf
  <1> QED BY <1>1, <1>3, <1>4, <1>5 DEF StringRead, HeadRead

\* dag-cbor.ts: wherever a value of Flat stands, decode finds it again and goes on
\* right behind it.
THEOREM ItemsReadBack ==
    ASSUME NEW B, HeadBytes \subseteq B, NEW v \in Flat(B), NEW p \in Nat, NEW buf,
           Placed(buf, p, WriteItem(v))
    PROVE  ReadItem(buf, p) = [value |-> v, next |-> p + Len(WriteItem(v))]
  <1>1. CASE v.t = "int"
    <2>1. PICK n \in Int : v = [t |-> "int", n |-> n] /\ Survives(IF n >= 0 THEN n ELSE -1 - n)
      BY <1>1 DEF Flat
    <2>2. CASE n >= 0
      <3>1. WriteItem(v) = WriteHeader(0, n)
        BY <2>1, <2>2 DEF WriteItem
      <3>2. HeadRead(buf, p, 0, n)
        <4>1. n \in Nat /\ Survives(n) /\ Placed(buf, p, WriteHeader(0, n))
          BY <2>1, <2>2, <3>1
        <4> QED BY <4>1, SurvivorIsRead
      <3> QED BY <2>1, <3>1, <3>2 DEF HeadRead, ReadItem
    <2>3. CASE ~(n >= 0)
      <3>1. PICK m \in Nat : m = -1 - n /\ -1 - m = n
        <4>1. -1 - n \in Nat /\ -1 - (-1 - n) = n
          BY <2>3
        <4> QED BY <4>1
      <3>2. WriteItem(v) = WriteHeader(1, m)
        BY <2>1, <2>3, <3>1 DEF WriteItem
      <3>3. HeadRead(buf, p, 1, m)
        <4>1. Survives(m) /\ Placed(buf, p, WriteHeader(1, m))
          BY <2>1, <2>3, <3>1, <3>2
        <4> QED BY <4>1, SurvivorIsRead
      <3> QED BY <2>1, <3>1, <3>2, <3>3 DEF HeadRead, ReadItem
    <2> QED BY <2>2, <2>3
  <1>2. CASE v.t = "simple"
    <2>1. PICK n \in Nat : v = [t |-> "simple", n |-> n] /\ n < Word \div 2
      BY <1>2 DEF Flat
    <2>2. WriteItem(v) = WriteHeader(7, n)
      BY <2>1 DEF WriteItem
    <2>3. HeadRead(buf, p, 7, n)
      BY <2>1, <2>2, SmallSurvive, SurvivorIsRead
    <2> QED BY <2>1, <2>2, <2>3 DEF HeadRead, ReadItem
  <1>3. CASE v.t = "text"
    <2>1. PICK s \in Seq(B) : v = [t |-> "text", s |-> s] /\ Len(s) < Word \div 2 /\ PlainText(s)
      BY <1>3 DEF Flat
    <2>0. Utf8(s) = s /\ FromUtf8(s) = s
      BY <2>1, PlainIsKept
    <2>2. WriteItem(v) = WriteHeader(3, Len(s)) \o s
      BY <2>0, <2>1 DEF WriteItem
    <2>3. StringRead(buf, p, 3, s)
      BY <2>1, <2>2, StringIsRead
    <2>4. PICK k \in Nat, q \in Nat, l \in Nat :
               /\ l = Len(s) /\ q = p + k /\ Len(WriteItem(v)) = k + l
               /\ ReadHeader(buf, p) = [major |-> 3, value |-> l, next |-> q]
               /\ SubSeq(buf, q, q + l - 1) = s
      <3>1. PICK k \in Nat : k = Len(WriteHeader(3, Len(s)))
        BY <2>3 DEF StringRead
      <3>2. p + k \in Nat /\ Len(s) \in Nat
        OBVIOUS
      <3> QED BY <2>2, <2>3, <3>1, <3>2 DEF StringRead
    <2>5. ReadItem(buf, p) = [value |-> [t |-> "text", s |-> s], next |-> q + l]
      <3>1. PICK h : h = ReadHeader(buf, p)
        OBVIOUS
      <3>2. h.major = 3 /\ h.value = l /\ h.next = q
        BY <2>4, <3>1
      <3>3. PICK raw : raw = SubSeq(buf, h.next, h.next + h.value - 1)
        OBVIOUS
      <3>4. raw = s
        BY <2>4, <3>2, <3>3
      <3>5. ReadItem(buf, p) = [value |-> [t |-> "text", s |-> FromUtf8(raw)], next |-> h.next + h.value]
        BY <3>1, <3>2, <3>3 DEF ReadItem
      <3> QED BY <2>0, <3>2, <3>4, <3>5
    <2>6. q + l = p + (k + l)
      BY <2>4
    <2> QED BY <2>1, <2>4, <2>5, <2>6
  <1>6. CASE v.t = "bytes"
    <2>1. PICK s \in Seq(B) : v = [t |-> "bytes", s |-> s] /\ Len(s) < Word \div 2
      BY <1>6 DEF Flat
    <2>2. WriteItem(v) = WriteHeader(2, Len(s)) \o s
      BY <2>1 DEF WriteItem
    <2>3. StringRead(buf, p, 2, s)
      BY <2>1, <2>2, StringIsRead
    <2>4. PICK k \in Nat, q \in Nat, l \in Nat :
               /\ l = Len(s) /\ q = p + k /\ Len(WriteItem(v)) = k + l
               /\ ReadHeader(buf, p) = [major |-> 2, value |-> l, next |-> q]
               /\ SubSeq(buf, q, q + l - 1) = s
      <3>1. PICK k \in Nat : k = Len(WriteHeader(2, Len(s)))
        BY <2>3 DEF StringRead
      <3>2. p + k \in Nat /\ Len(s) \in Nat
        OBVIOUS
      <3> QED BY <2>2, <2>3, <3>1, <3>2 DEF StringRead
    <2>5. ReadItem(buf, p) = [value |-> [t |-> "bytes", s |-> s], next |-> q + l]
      <3>1. PICK h : h = ReadHeader(buf, p)
        OBVIOUS
      <3>2. h.major = 2 /\ h.value = l /\ h.next = q
        BY <2>4, <3>1
      <3>3. PICK raw : raw = SubSeq(buf, h.next, h.next + h.value - 1)
        OBVIOUS
      <3>4. raw = s
        BY <2>4, <3>2, <3>3
      <3>5. ReadItem(buf, p) = [value |-> [t |-> "bytes", s |-> raw], next |-> h.next + h.value]
        BY <3>1, <3>2, <3>3 DEF ReadItem
      <3> QED BY <3>2, <3>4, <3>5
    <2>6. q + l = p + (k + l)
      BY <2>4
    <2> QED BY <2>1, <2>4, <2>5, <2>6
  <1>4. CASE v.t = "link"
    <2>1. PICK c \in [1..CidLength -> 0..(Byte - 1)] : v = [t |-> "link", c |-> Base32Encode(c)]
      BY <1>4 DEF Flat
    <2>2. PICK l \in Nat : l = CidLength /\ l + 1 < Word \div 2
      BY BytesAssumption
    <2>3. c \in Seq(B) /\ Len(c) = l /\ Base32Decode(v.c) = c
      <3>1. PICK W : W = 0..(Byte - 1)
        OBVIOUS
      <3>2. W \subseteq B
        <4>1. W \subseteq Nat
          BY <3>1, Widths
        <4> QED BY <4>1 DEF HeadBytes
      <3>3. c \in [1..l -> W]
        BY <2>2, <3>1
      <3>4. c \in Seq(W) /\ Len(c) = l /\ c \in Seq(B)
        <4>1. c \in [1..l -> B]
          BY <3>2, <3>3
        <4> QED BY <3>3, <4>1
      <3>5. c \in Seq(0..(Byte - 1))
        BY <3>1, <3>4
      <3> QED BY <2>1, <3>4, <3>5, Base32ReadsBack
    <2>4. PICK x \in Seq(B) :
              /\ x = <<0>> \o c /\ Len(x) = l + 1 /\ x # <<>> /\ x[1] = 0 /\ Tail(x) = c
      <3>1. 0 \in B
        BY DEF HeadBytes
      <3>2. PICK e \in Seq(B) : e = c /\ Len(e) = l
        BY <2>3
      <3>3. <<0>> \o e \in Seq(B) /\ Len(<<0>> \o e) = l + 1 /\ <<0>> \o e # <<>>
        BY <3>1, <3>2
      <3>4. (<<0>> \o e)[1] = 0
        BY <3>1, <3>2
      <3>5. Tail(<<0>> \o e) = e
        BY <3>1, <3>2
      <3> QED BY <3>2, <3>3, <3>4, <3>5
    <2>5. PICK a \in Seq(B), b \in Seq(B), tag \in Nat :
               /\ tag = TagCid /\ tag < Word \div 2
               /\ a = WriteHeader(6, tag) /\ b = WriteHeader(2, l + 1)
      <3>1. TagCid \in Nat /\ TagCid < Word \div 2
        BY Widths, BytesAssumption DEF TagCid
      <3>2. l + 1 \in Nat /\ 6 \in Nat /\ 2 \in Nat
        OBVIOUS
      <3> QED BY <3>1, <3>2, HeadType
    <2>6. WriteItem(v) = a \o (b \o x)
      <3>1. <<0>> \o Base32Decode(v.c) = x /\ Len(x) = l + 1
        BY <2>3, <2>4
      <3>2. WriteHeader(2, Len(x)) = b
        BY <2>5, <3>1
      <3> QED BY <2>1, <2>5, <3>1, <3>2 DEF WriteItem
    <2>7. PICK d \in Seq(B) : d = b \o x /\ Len(d) = Len(b) + (l + 1)
      <3>1. b \o x \in Seq(B) /\ Len(b \o x) = Len(b) + Len(x)
        BY ConcatProperties
      <3> QED BY <2>4, <3>1
    <2>8. Placed(buf, p, a) /\ Placed(buf, p + Len(a), d) /\ Len(a \o d) = Len(a) + Len(d)
      BY <2>6, <2>7, PlacedParts, ConcatProperties
    <2>9. HeadRead(buf, p, 6, tag)
      BY <2>5, <2>8, SmallSurvive, SurvivorIsRead
    <2>10. PICK q \in Nat, k \in Nat, z \in Nat : q = p + Len(a) /\ k = Len(b) /\ z = q + k
      <3>1. Len(a) \in Nat /\ Len(b) \in Nat
        OBVIOUS
      <3>2. p + Len(a) \in Nat /\ (p + Len(a)) + Len(b) \in Nat
        BY <3>1
      <3> QED BY <3>1, <3>2
    <2>11. StringRead(buf, q, 2, x)
      <3>1. Placed(buf, q, WriteHeader(2, Len(x)) \o x)
        BY <2>4, <2>5, <2>7, <2>8, <2>10
      <3>2. Len(x) < Word \div 2 /\ 2 \in Nat
        BY <2>2, <2>4
      <3> QED BY <3>1, <3>2, StringIsRead
    <2>12. /\ ReadHeader(buf, p) = [major |-> 6, value |-> tag, next |-> q]
           /\ ReadHeader(buf, q) = [major |-> 2, value |-> l + 1, next |-> z]
           /\ SubSeq(buf, z, z + (l + 1) - 1) = x
      <3>1. ReadHeader(buf, p) = [major |-> 6, value |-> tag, next |-> q]
        BY <2>5, <2>9, <2>10 DEF HeadRead
      <3>2. Len(x) = l + 1 /\ WriteHeader(2, Len(x)) = b
        BY <2>4, <2>5
      <3> QED BY <2>10, <2>11, <3>1, <3>2 DEF StringRead
    <2>13. ReadItem(buf, p) =
               [value |-> [t |-> "link", c |-> Base32Encode(c)], next |-> z + (l + 1)]
      <3>1. PICK h : h = ReadHeader(buf, p)
        OBVIOUS
      <3>2. h.major = 6 /\ h.next = q
        BY <2>12, <3>1
      <3>3. PICK inner : inner = ReadHeader(buf, h.next)
        OBVIOUS
      <3>4. inner.next = z /\ inner.value = l + 1
        BY <2>12, <3>2, <3>3
      <3>5. PICK cid : cid = SubSeq(buf, inner.next, inner.next + inner.value - 1)
        OBVIOUS
      <3>6. cid = x
        BY <2>12, <3>4, <3>5
      <3>7. ReadItem(buf, p) = [value |-> [t |-> "link", c |-> CidIn(cid)],
                                 next |-> inner.next + inner.value]
        BY <3>1, <3>2, <3>3, <3>5 DEF ReadItem
      <3>8. CidIn(x) = Base32Encode(c)
        BY <2>4 DEF CidIn
      <3> QED BY <3>4, <3>6, <3>7, <3>8
    <2>14. z + (l + 1) = p + Len(WriteItem(v))
      <3>1. Len(WriteItem(v)) = Len(a) + (k + (l + 1)) /\ Len(a) \in Nat
        BY <2>6, <2>7, <2>8, <2>10
      <3> QED BY <2>10, <3>1
    <2> QED BY <2>1, <2>13, <2>14
  <1>5. v.t \in {"int", "text", "bytes", "link", "simple"}
    BY DEF Flat
  <1> QED BY <1>1, <1>2, <1>3, <1>4, <1>5, <1>6
=============================================================================
