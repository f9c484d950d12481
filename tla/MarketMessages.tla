--------------------------- MODULE MarketMessages ---------------------------
(***************************************************************************)
(* Market submissions (lib/market): a producer's MarketClient signs a      *)
(* record, writes it to the producer's repository and forwards it; the     *)
(* receiver's handler authorises the token, resolves the record from the   *)
(* producer's PDS (a bid comes inline), verifies its signature and         *)
(* dispatches it.  The signer of a client is made on first use.  Between   *)
(* client and receiver a relay may replay a request to the receiver's next *)
(* socket, so that a submission is delivered again; the client takes the   *)
(* first answer.  The receiver caches locations of PDSs, and each of its   *)
(* handlers, one per kind, the keys of DID documents, after a lookup that  *)
(* others may overtake.                                                    *)
(***************************************************************************)
EXTENDS Naturals, FiniteSets, Sequences

CONSTANTS
    Producers,
    Submissions,   \* [id, by, kind]
    MaxDeliveries, \* bound on deliveries to the receiver
    MaxMoves       \* bound on moves of a producer to another PDS

SubmissionKinds == {"bid", "event", "rfp", "accept"}

ASSUME MessagesAssumption ==
    /\ MaxDeliveries \in Nat /\ MaxMoves \in Nat
    /\ \A c \in Submissions : c.by \in Producers /\ c.kind \in SubmissionKinds

VARIABLES
    bindKeys,    \* option of the receiver, fixed per behaviour
    routed,      \* submissions with a callback in its tables, fixed per behaviour
    stable,      \* producers with a privateKeyHex that their DID document publishes
    signer,      \* #signer of each client, 0 before there is one
    lastKey,     \* keys generated so far
    sub,         \* where the call of each submission is
    subKey,      \* the key it is signed with
    written,     \* submissions whose record is in the producer's repository
    delivery,    \* requests at the receiver, [of, at, pds] in the order of arrival
    dispatched,  \* how often the callback was started
    pdsOf,       \* where each producer's repository is
    pdsCache,    \* pdsForDid of the receiver, 0 without an entry
    keyCache,    \* keysForDid of each handler: none, keys, or empty after a failure
    lookupFailed, \* history: handler and producer of lookups that failed
    moves

messageVars == <<bindKeys, routed, stable, signer, lastKey, sub, subKey, written, delivery, dispatched,
                 pdsOf, pdsCache, keyCache, lookupFailed, moves>>
clientVars == <<signer, lastKey, subKey, written>>
serverVars == <<delivery, dispatched, pdsCache, keyCache, lookupFailed>>
worldVars  == <<bindKeys, routed, stable, pdsOf, moves>>

HexKey == 1   \* the key of a privateKeyHex; generated ones have larger numbers

MessagesInit ==
    /\ bindKeys \in BOOLEAN
    /\ routed \in {R \in SUBSET Submissions :
                      \A c \in Submissions : c.kind \in {"bid", "accept"} => c \in R}
    /\ stable \in SUBSET Producers
    /\ signer = [p \in Producers |-> 0]
    /\ lastKey = HexKey
    /\ sub = [c \in Submissions |-> "none"]
    /\ subKey = [c \in Submissions |-> 0]
    /\ written = {} /\ delivery = <<>>
    /\ dispatched = [c \in Submissions |-> 0]
    /\ pdsOf = [p \in Producers |-> 1]
    /\ pdsCache = [p \in Producers |-> 0]
    /\ keyCache = [k \in SubmissionKinds |-> [p \in Producers |-> "none"]]
    /\ lookupFailed = {}
    /\ moves = 0

Answers == {"unauthorized", "unresolved", "badsig", "ok", "failed"}

Goto(c, from, to) == sub[c] = from /\ sub' = [sub EXCEPT ![c] = to]

-----------------------------------------------------------------------------
(* MarketClient                                                            *)

\* create: ensureSigner uses the signer there is, or awaits a keypair.
EnsureSigner(c) ==
    /\ Goto(c, "none", IF signer[c.by] # 0 THEN "signing" ELSE "keying")
    /\ subKey' = [subKey EXCEPT ![c] = signer[c.by]]
    /\ UNCHANGED <<signer, lastKey, written, serverVars, worldVars>>

\* Mutation: the configured key is ignored.
LoadOrGenerateAlways(c) ==
    /\ lastKey' = lastKey + 1
    /\ subKey' = [subKey EXCEPT ![c] = lastKey']

\* A configured key, or a new one.
LoadOrGenerateKeypair(c) ==
    /\ lastKey' = IF c.by \in stable THEN lastKey ELSE lastKey + 1
    /\ subKey' = [subKey EXCEPT ![c] = IF c.by \in stable THEN HexKey ELSE lastKey']

\* The keypair is there: it becomes the signer, also if another call was faster.
KeypairReady(c) ==
    /\ Goto(c, "keying", "signing")
    /\ LoadOrGenerateKeypair(c)
    /\ signer' = [signer EXCEPT ![c.by] = subKey'[c]]
    /\ UNCHANGED <<written, serverVars, worldVars>>

\* Mutation: the record is forwarded while it is being written.
CreateSignedRecordLater(c) ==
    /\ Goto(c, "signing", "sending")
    /\ UNCHANGED <<signer, lastKey, subKey, written, serverVars, worldVars>>

\* createSignedRecord signs and writes; if the write fails the call throws.
CreateSignedRecord(c) ==
    /\ \/ Goto(c, "signing", "sending") /\ written' = written \cup {c}
       \/ Goto(c, "signing", "thrown") /\ UNCHANGED written
    /\ UNCHANGED <<signer, lastKey, subKey, serverVars, worldVars>>

\* Mutation: the answer of a request that was not dispatched counts as success.
ForwardedAnyhow(i) ==
    /\ delivery[i].at \in Answers
    /\ Goto(delivery[i].of, "sending", "ok")
    /\ UNCHANGED <<clientVars, serverVars, worldVars>>

\* #forward: the first answer ends the call, with ok unless it is an error, ...
Forwarded(i) ==
    /\ delivery[i].at \in Answers
    /\ Goto(delivery[i].of, "sending", IF delivery[i].at = "ok" THEN "ok" ELSE "failed")
    /\ UNCHANGED <<clientVars, serverVars, worldVars>>

\* ... or it fails without one.
Unanswered(c) ==
    /\ Goto(c, "sending", "failed")
    /\ UNCHANGED <<clientVars, serverVars, worldVars>>

-----------------------------------------------------------------------------
(* The receiver                                                            *)

\* A request that waits for its answer reaches the receiver, for the first time
\* or replayed to another socket.
Deliver(c) ==
    /\ sub[c] = "sending" /\ Len(delivery) < MaxDeliveries
    /\ delivery' = Append(delivery, [of |-> c, at |-> "arrived", pds |-> 0])
    /\ UNCHANGED <<clientVars, sub, dispatched, pdsCache, keyCache, lookupFailed, worldVars>>

Advance(i, from, to) ==
    delivery[i].at = from /\ delivery' = [delivery EXCEPT ![i].at = to]

\* authorize: the token is valid and its issuer is the author, or it is too
\* old or cannot be checked.
Authorize(i) ==
    /\ \/ Advance(i, "arrived", IF delivery[i].of.kind = "bid" THEN "verifying" ELSE "resolving")
       \/ Advance(i, "arrived", "unauthorized")
    /\ UNCHANGED <<clientVars, sub, dispatched, pdsCache, keyCache, lookupFailed, worldVars>>

\* pdsForDid: the cached location, or a lookup, ...
PdsForDid(i) ==
    LET cached == pdsCache[delivery[i].of.by] IN
    /\ IF cached = 0 THEN Advance(i, "resolving", "locating")
       ELSE /\ delivery[i].at = "resolving"
            /\ delivery' = [delivery EXCEPT ![i] = [@ EXCEPT !.at = "reading", !.pds = cached]]
    /\ UNCHANGED <<clientVars, sub, dispatched, pdsCache, keyCache, lookupFailed, worldVars>>

\* ... whose result is kept for good, unless it fails.
PdsLocated(i) ==
    LET by == delivery[i].of.by IN
    /\ delivery[i].at = "locating"
    /\ \/ /\ pdsCache' = [pdsCache EXCEPT ![by] = pdsOf[by]]
          /\ delivery' = [delivery EXCEPT ![i] = [@ EXCEPT !.at = "reading", !.pds = pdsOf[by]]]
       \/ Advance(i, "locating", "unresolved") /\ UNCHANGED pdsCache
    /\ UNCHANGED <<clientVars, sub, dispatched, keyCache, lookupFailed, worldVars>>

\* getRecord, which may fail; after a move the record is not where it was.
Resolve(i) ==
    LET c == delivery[i].of IN
    /\ \/ delivery[i].pds = pdsOf[c.by] /\ c \in written /\ Advance(i, "reading", "verifying")
       \/ Advance(i, "reading", "unresolved")
    /\ UNCHANGED <<clientVars, sub, dispatched, pdsCache, keyCache, lookupFailed, worldVars>>

\* The signature is by the key it names; with bindKeys the key has to be one of
\* those published as well.
Verdict(i, keys) ==
    LET c == delivery[i].of
        ok == bindKeys => keys = "published" /\ c.by \in stable /\ subKey[c] = HexKey
    IN  Advance(i, delivery[i].at, IF ~ok THEN "badsig" ELSE IF c \in routed THEN "dispatching" ELSE "ok")

\* verifyAuthored: at once, with the keys cached in this handler, or after ...
VerifyAuthored(i) ==
    LET c == delivery[i].of
        cached == keyCache[c.kind][c.by]
    IN  /\ delivery[i].at = "verifying"
        /\ IF bindKeys /\ cached = "none" THEN Advance(i, "verifying", "fetching")
           ELSE Verdict(i, cached)
        /\ UNCHANGED <<clientVars, sub, dispatched, pdsCache, keyCache, lookupFailed, worldVars>>

\* ... keysForDid has fetched the document: what it gave, or nothing after a
\* failure, is verified against and replaces what is in the cache.
KeysForDid(i) ==
    LET c == delivery[i].of IN
    /\ delivery[i].at = "fetching"
    /\ \E keys \in {"published", "empty"} :
           /\ Verdict(i, keys)
           /\ keyCache' = [keyCache EXCEPT ![c.kind][c.by] = keys]
           /\ lookupFailed' = IF keys = "empty" THEN lookupFailed \cup {<<c.kind, c.by>>}
                              ELSE lookupFailed
    /\ UNCHANGED <<clientVars, sub, dispatched, pdsCache, worldVars>>

\* The callback runs, and may throw; an event may be dispatched in the
\* background, then the answer does not wait for it.
Dispatch(i) ==
    /\ Advance(i, "dispatching", "ok") \/ Advance(i, "dispatching", "failed")
    /\ dispatched' = [dispatched EXCEPT ![delivery[i].of] = @ + 1]
    /\ UNCHANGED <<clientVars, sub, pdsCache, keyCache, lookupFailed, worldVars>>

-----------------------------------------------------------------------------

\* A producer moves to another PDS, with its records.
MovePds(p) ==
    /\ moves < MaxMoves
    /\ moves' = moves + 1
    /\ pdsOf' = [pdsOf EXCEPT ![p] = @ + 1]
    /\ UNCHANGED <<bindKeys, routed, stable, clientVars, sub, serverVars>>

SubmissionFlow(c) ==
    \/ EnsureSigner(c) \/ KeypairReady(c) \/ CreateSignedRecord(c)
    \/ Deliver(c) \/ Unanswered(c)

ReceiverStep(i) ==
    \/ Authorize(i) \/ PdsForDid(i) \/ PdsLocated(i) \/ Resolve(i)
    \/ VerifyAuthored(i) \/ KeysForDid(i) \/ Dispatch(i) \/ Forwarded(i)

MessagesNext ==
    \/ \E c \in Submissions : SubmissionFlow(c)
    \/ \E i \in DOMAIN delivery : ReceiverStep(i)
    \/ \E p \in Producers : MovePds(p)

MessagesSpec == MessagesInit /\ [][MessagesNext]_messageVars

-----------------------------------------------------------------------------
(* Properties                                                              *)

\* What a receiver acts upon is in the repository of its author; a submission
\* reported ok was acted upon if anybody listens for it, although the record, its
\* forwarding and its answer can each be lost; and whatever is replayed, the
\* callback starts once at most for each request that arrived.
SubmissionIsHonest ==
    \A c \in Submissions :
        /\ dispatched[c] > 0 => c \in written
        /\ sub[c] = "ok" /\ c \in routed => dispatched[c] > 0
        /\ dispatched[c] <=
               Cardinality({i \in DOMAIN delivery : delivery[i].of = c /\ delivery[i].at \in {"ok", "failed"}})

\* A submission of an honest producer is refused for its signature only by a
\* receiver that binds keys, and that of a producer with a published key only if
\* a lookup by the handler of this very kind failed, at this or an earlier
\* request: what other handlers looked up does not matter.
RefusedForCause ==
    \A i \in DOMAIN delivery : delivery[i].at = "badsig" =>
        LET c == delivery[i].of
        IN  bindKeys /\ (c.by \notin stable \/ <<c.kind, c.by>> \in lookupFailed)

\* What a receiver acts upon was written by its author, once per request and at
\* least once when reported ok; an honest message is refused only for want of its
\* author's key.
MessagesAreSound == SubmissionIsHonest /\ RefusedForCause
=============================================================================
