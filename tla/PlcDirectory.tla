---------------------------- MODULE PlcDirectory ----------------------------
(***************************************************************************)
(* The did:plc directory (hono-factory-did-plc-directory) and the paged    *)
(* export its client (did-plc/client.ts) reads.  An operation names the    *)
(* one it follows by CID; a handler checks it against the log, awaits      *)
(* signatures and hashes, nullifies what a recovery overrides and appends, *)
(* with other handlers in between.  One DID; the CID of an operation is    *)
(* its id.                                                                 *)
(***************************************************************************)
EXTENDS Naturals, Sequences, FiniteSets, SeqFilter

CONSTANTS
    PlcOps,      \* operations [id, type, prev, signer, keys]; prev = 0 is null
    PageSize,    \* exportPages
    MaxPlcTime   \* bound on the clock

ASSUME PlcAssumption ==
    /\ \A o, p \in PlcOps : o.id = p.id => o = p
    /\ PageSize \in Nat \ {0} /\ MaxPlcTime \in Nat

VARIABLES
    plcLog,      \* entries [op, nullified, at], in the order they were inserted
    plcCall,     \* where each submission is, with the current chain it read
    plcOverlap,  \* history: two submissions were handled at once
    plcTime,
    page         \* the export: [after, seen, ends, done]; ends: the times at which pages ended

plcVars == <<plcLog, plcCall, plcOverlap, plcTime, page>>

PlcInit ==
    /\ plcLog = <<>>
    /\ plcCall = [o \in PlcOps |-> [at |-> "none"]]
    /\ plcOverlap = FALSE
    /\ plcTime = 0
    /\ page = [after |-> 0, seen |-> <<>>, ends |-> {}, done |-> FALSE]

-----------------------------------------------------------------------------
(* The store                                                               *)

CurrentIn(log) == {i \in DOMAIN log : ~log[i].nullified}
CurrentOps(log) == AtIndices(log, CurrentIn(log))

\* exportLogs: entries of the log later than after, at most count.
ExportLogs(log, after, count) ==
    LET later == AtIndices(log, {i \in DOMAIN log : log[i].at > after})
    IN  SubSeq(later, 1, IF Len(later) < count THEN Len(later) ELSE count)

-----------------------------------------------------------------------------
(* POST /:did                                                              *)

\* Mutation: a nullified operation is as good as any.
ValidatePrevChainAny(o, log) ==
    IF o.prev = 0 THEN log = <<>> ELSE \E i \in DOMAIN log : log[i].op.id = o.prev

\* validatePrevChain: a genesis needs an empty log, other operations a
\* predecessor in the current chain.
ValidatePrevChain(o, log) ==
    IF o.prev = 0 THEN log = <<>>
    ELSE \E i \in DOMAIN log : log[i].op.id = o.prev /\ ~log[i].nullified

\* An update has to be signed by a rotation key of the LAST operation of the
\* current chain, when that is a plc_operation.
ValidSignature(o, current) ==
    LET last == current[Len(current)].op IN
    (o.prev # 0 /\ current # <<>> /\ last.type = "plc_operation") => o.signer \in last.keys

PlcUnderway(o) == plcCall[o].at \in {"checked", "nullified"}

\* handleCreateOp up to its first slow await; a refused submission changes
\* nothing and may come again.  The legacy "create" is checked for its structure
\* alone.
CheckOp(o) ==
    LET current == CurrentOps(plcLog) IN
    /\ plcCall[o].at = "none"
    /\ o.type = "create" \/ (ValidatePrevChain(o, plcLog) /\ ValidSignature(o, current))
    /\ plcCall' = [plcCall EXCEPT ![o] =
           [at |-> "checked",
            after |-> {current[j].op.id : j \in
                          {j \in DOMAIN current : \E i \in 1..(j - 1) : current[i].op.id = o.prev}}]]
    /\ plcOverlap' = (plcOverlap \/ \E p \in PlcOps : PlcUnderway(p))
    /\ UNCHANGED <<plcLog, plcTime, page>>

\* Recovery: what follows prev in the chain read before is nullified.  A
\* tombstone nullifies nothing.
NullifyOps(o) ==
    LET gone == IF o.type = "plc_operation" /\ o.prev # 0 THEN plcCall[o].after ELSE {} IN
    /\ plcCall[o].at = "checked"
    /\ plcLog' = [i \in DOMAIN plcLog |->
                     IF plcLog[i].op.id \in gone THEN [plcLog[i] EXCEPT !.nullified = TRUE]
                     ELSE plcLog[i]]
    /\ plcCall' = [plcCall EXCEPT ![o] = [at |-> "nullified"]]
    /\ UNCHANGED <<plcOverlap, plcTime, page>>

InsertOp(o) ==
    /\ plcCall[o].at = "nullified"
    /\ plcLog' = Append(plcLog, [op |-> o, nullified |-> FALSE, at |-> plcTime + 1])
    /\ plcCall' = [plcCall EXCEPT ![o] = [at |-> "done"]]
    /\ UNCHANGED <<plcOverlap, plcTime, page>>

PlcTick ==
    /\ plcTime < MaxPlcTime
    /\ plcTime' = plcTime + 1
    /\ UNCHANGED <<plcLog, plcCall, plcOverlap, page>>

-----------------------------------------------------------------------------
(* exportPages                                                             *)

\* Mutation: an entry at the cursor is sent again.
NextPageFrom(log, after) == ExportLogs(log, IF after = 0 THEN 0 ELSE after - 1, PageSize)

\* One request of exportPages; the next page starts after the time of the last
\* entry of this one.
NextPage(log, after) == ExportLogs(log, after, PageSize)

ExportPage ==
    LET p == NextPage(plcLog, page.after) IN
    /\ ~page.done
    /\ page' = [after |-> IF p = <<>> THEN page.after ELSE p[Len(p)].at,
                seen |-> page.seen \o p,
                ends |-> page.ends \cup (IF p = <<>> THEN {} ELSE {p[Len(p)].at}),
                done |-> Len(p) < PageSize]
    /\ UNCHANGED <<plcLog, plcCall, plcOverlap, plcTime>>

PlcNext ==
    \/ \E o \in PlcOps : CheckOp(o) \/ NullifyOps(o) \/ InsertOp(o)
    \/ PlcTick \/ ExportPage

PlcSpec == PlcInit /\ [][PlcNext]_plcVars

-----------------------------------------------------------------------------
(* Properties                                                              *)

IsUpdate(o) == o.type = "plc_operation" /\ o.prev # 0

\* As long as no two submissions overlap: every update of the current chain
\* comes right behind the operation it names, every genesis is the first entry
\* and every tombstone has its predecessor somewhere before it.  So only what
\* overrides nothing can stand beside the chain: a tombstone of an operation
\* that has successors, and the legacy "create", which names no predecessor and
\* is taken at any time.
SerialChainIsConnected ==
    ~plcOverlap =>
        LET chain == CurrentOps(plcLog) IN
        \A j \in DOMAIN chain : chain[j].op.type # "create" =>
            IF chain[j].op.prev = 0 THEN j = 1
            ELSE \E i \in 1..(j - 1) : /\ chain[i].op.id = chain[j].op.prev
                                       /\ IsUpdate(chain[j].op) => i = j - 1

\* The pages of an export never repeat an entry, keep the order of the log, and
\* leave out an entry up to the cursor only if it has the time of the last
\* entry of a page.
ExportLosesOnlyTies ==
    LET seen == page.seen IN
    /\ \A i, j \in DOMAIN seen : i < j => seen[i].op # seen[j].op /\ seen[i].at <= seen[j].at
    /\ \A i \in DOMAIN plcLog : plcLog[i].at <= page.after =>
           plcLog[i].at \in page.ends \/ \E j \in DOMAIN seen : seen[j].op = plcLog[i].op

\* Through updates, recoveries, tombstones and legacy creates that do not
\* overlap, the updates of a DID form one chain from its first operation, and a
\* reader of the paged export misses only operations with the time stamp at
\* which a page ended.
DirectoryIsSound == SerialChainIsConnected /\ ExportLosesOnlyTies
=============================================================================
