---------------------------- MODULE Attestations ----------------------------
(***************************************************************************)
(* Attestations on records (lib/atproto-attestation-port/src), through     *)
(* both interfaces of the library.                                         *)
(*                                                                         *)
(* The class (compat.ts): a signer adds an inline signature or, through an *)
(* agent, a proof record in its own repository; records are edited and     *)
(* copied between repositories with their signatures, and every entry can  *)
(* be verified.                                                            *)
(*                                                                         *)
(* The functions (attestation.ts, cid.ts, input.ts, signature.ts): inline  *)
(* and remote attestations are created, checked and appended to a record,  *)
(* the record is edited in between, and verifyRecord checks the whole.     *)
(*                                                                         *)
(* A content identifier is the value it was computed from, a signature the *)
(* pair of key and signed identifier.  The two share no state.             *)
(***************************************************************************)
EXTENDS Naturals, Sequences

CONSTANTS
    Attesters,      \* signers
    WithAgent,      \* those that write proofs
    Contents, Repositories,
    Metadata,       \* sets of optional fields: issuer, role, status, issuedAt
    MaxAttested     \* bound on signing

ASSUME AttestAssumption == WithAgent \subseteq Attesters /\ MaxAttested \in Nat

VARIABLES
    record,     \* [content, repository, signatures]
    proofs,     \* proof records, each with the uri it is found under
    attested    \* history: <<signer, content, repository>> that was signed

attestVars == <<record, proofs, attested>>

AttestInit ==
    /\ record \in [content : Contents, repository : Repositories, signatures : {<<>>}]
    /\ proofs = {} /\ attested = <<>>

\* Mutation: the repository is not part of what is signed.
AttestationCidAnywhere(content, meta, repository) == <<content, meta>>

\* createAttestationCid: the record without its signatures, the metadata without
\* cid and signature, and the repository.
AttestationCid(content, meta, repository) == <<content, meta, repository>>

\* The metadata that is signed; an inline entry names its key.
Meta(key, fields) == [key |-> key, fields |-> fields]
NoKey == "none"

SignBytes(key, cid) == <<key, cid>>
VerifyBytes(key, cid, signature) == signature = <<key, cid>>

\* writeProof keeps these fields of the metadata.
ProofFields == {"issuer", "role", "status"}

Sign(a, fields) ==
    LET remote == a \in WithAgent
        meta == Meta(IF remote THEN NoKey ELSE a, fields)
        cid == AttestationCid(record.content, meta, record.repository)
    IN  IF remote THEN [ref |-> TRUE, by |-> a, uri |-> <<a, Len(attested)>>, fields |-> {}, cid |-> <<>>, signature |-> <<>>]
        ELSE [ref |-> FALSE, by |-> a, uri |-> <<>>, fields |-> fields, cid |-> cid, signature |-> SignBytes(a, cid)]

WriteProof(a, fields) ==
    IF a \in WithAgent
    THEN proofs \cup {[uri |-> <<a, Len(attested)>>, fields |-> fields \cap ProofFields,
                       cid |-> AttestationCid(record.content, Meta(NoKey, fields), record.repository)]}
    ELSE proofs

\* Mutation: an entry is always appended.
FindOwnNever(a) == {}

\* findOwnIndex: an entry with the signer's key, or a reference into its repository.
FindOwn(a) == {i \in 1..Len(record.signatures) : record.signatures[i].by = a}

SignAndAppend(a, fields) ==
    /\ Len(attested) < MaxAttested
    /\ LET entry == Sign(a, fields)
           own == FindOwn(a)
       IN record' = [record EXCEPT !.signatures =
              IF own = {} THEN Append(@, entry)
              ELSE [@ EXCEPT ![CHOOSE i \in own : \A j \in own : i <= j] = entry]]
    /\ proofs' = WriteProof(a, fields)
    /\ attested' = Append(attested, <<a, record.content, record.repository>>)

\* External: the record's owner edits it, or it is copied to another repository.
Edit ==
    /\ \E c \in Contents, r \in Repositories : record' = [record EXCEPT !.content = c, !.repository = r]
    /\ UNCHANGED <<proofs, attested>>

\* verify, of one entry.
VerifyEntry(entry) ==
    IF entry.ref
    THEN \E p \in proofs : p.uri = entry.uri
             /\ p.cid = AttestationCid(record.content, Meta(NoKey, p.fields), record.repository)
    ELSE LET cid == AttestationCid(record.content, Meta(entry.by, entry.fields), record.repository)
         IN  entry.cid = cid /\ VerifyBytes(entry.by, cid, entry.signature)

AttestNext ==
    \/ Edit
    \/ \E a \in Attesters, fields \in Metadata : SignAndAppend(a, fields)

AttestSpec == AttestInit /\ [][AttestNext]_attestVars

-----------------------------------------------------------------------------
(* Properties                                                              *)

\* An entry verifies exactly when its signer last attested what the record now
\* says, for the repository it is now in: edits and copies void it, undoing
\* them restores it, and a later entry of the signer replaces the earlier one.
VerifiesIffAttested ==
    \A i \in 1..Len(record.signatures) :
        LET e == record.signatures[i]
            mine == {n \in 1..Len(attested) : attested[n][1] = e.by}
            last == CHOOSE n \in mine : \A k \in mine : k <= n
        IN  VerifyEntry(e) <=> attested[last] = <<e.by, record.content, record.repository>>

-----------------------------------------------------------------------------
(* The functions                                                           *)

CONSTANTS
    P256, K256,     \* keys by curve
    Texts,          \* what a record says, besides its signatures
    Labels,         \* extra fields of the metadata
    Hosts,          \* repositories
    MaxApiCalls     \* bound on the calls

ASSUME AttestApiAssumption == MaxApiCalls \in Nat /\ P256 \cap K256 = {}

VARIABLES
    doc,        \* the record: [text, signatures]
    made,       \* proof records that createRemoteAttestation returned
    published,  \* proof records found under the uri of a repository
    handed,     \* signature metadata a caller holds for appendInlineAttestation
    appended,   \* history: [entry, of, at], what the last append was given
    freshProof,      \* history: the doc is the answer of createInlineAttestation on an unsigned record
    calls

attestApiVars == <<doc, made, published, handed, appended, freshProof, calls>>

SigningKeys == P256 \cup K256
NoValue == <<>>

AttestApiInit ==
    /\ doc \in [text : Texts, signatures : {<<>>}]
    /\ made = {} /\ published = {} /\ handed = {} /\ appended = {}
    /\ freshProof = FALSE /\ calls = 0

Call == calls < MaxApiCalls /\ calls' = calls + 1

\* unwrapToObject: an input that is no JSON object is refused before anything
\* happens; the records here are objects.
Unwrap(r) == r

\* createAttestationCid: the record as it is, its signatures included.
ComputeCid(r, metadata, repository) == <<Unwrap(r), metadata, repository>>

\* Metadata as it is signed, and as an entry of the signatures.
SignedMetadata(label) == [label |-> label, key |-> NoValue, sig |-> NoValue, cid |-> NoValue]
SigMetadata(key, cid, sig) == [label |-> NoValue, key |-> <<key>>, sig |-> sig, cid |-> cid]

\* signBytes: P-256 only; the caller of the API sees the error.  A signature is
\* the key and what it signed.
Signs(key) == key \in P256
SignPayload(key, cid) == <<key, cid>>

\* verifySignature after decoding, the length check and normalizeSignature.
VerifySignature(key, cid, sig) == key \in P256 /\ sig = <<key, cid>>

AddEntry(entry) == doc' = [doc EXCEPT !.signatures = Append(@, entry)]

-----------------------------------------------------------------------------
(* Creating                                                                *)

\* createInlineAttestation: the entry names type, key, signature and cid; the
\* other fields of the metadata are not kept.
CreateInline(key, label, repository) ==
    LET cid == ComputeCid(doc, SignedMetadata(label), repository) IN
    /\ Call /\ Signs(key)
    /\ AddEntry([inline |-> TRUE, meta |-> SigMetadata(key, cid, SignPayload(key, cid)), uri |-> NoValue])
    /\ freshProof' = (doc.signatures = <<>>)
    /\ UNCHANGED <<made, published, handed, appended>>

\* createRemoteAttestation: the cid is computed for the attesting repository,
\* and the entry's uri names that repository.
CreateRemote(label, attestor) ==
    LET cid == ComputeCid(doc, SignedMetadata(label), attestor) IN
    /\ Call
    /\ made' = made \cup {[label |-> label, cid |-> cid]}
    /\ AddEntry([inline |-> FALSE, meta |-> [label |-> label, cid |-> cid], uri |-> attestor])
    /\ freshProof' = FALSE
    /\ UNCHANGED <<published, handed, appended>>

\* createSignature, and the metadata its caller makes of the answer.
CreateSignature(key, label, repository) ==
    LET cid == ComputeCid(doc, SignedMetadata(label), repository) IN
    /\ Call /\ Signs(key)
    /\ handed' = handed \cup {SigMetadata(key, cid, SignPayload(key, cid))}
    /\ UNCHANGED <<doc, made, published, appended, freshProof>>

\* External: the attestor stores a proof record in its repository.
PublishProof(p, attestor) ==
    /\ Call
    /\ published' = {q \in published : q.uri # attestor} \cup {[uri |-> attestor, proof |-> p]}
    /\ UNCHANGED <<doc, made, handed, appended, freshProof>>

\* External: the author edits the record, or drops its signatures.
EditDoc(text, keep) ==
    /\ Call
    /\ doc' = [text |-> text, signatures |-> IF keep THEN doc.signatures ELSE <<>>]
    /\ freshProof' = FALSE
    /\ UNCHANGED <<made, published, handed, appended>>

-----------------------------------------------------------------------------
(* Appending                                                               *)

\* appendInlineAttestation: the cid is recomputed over the entry itself; a
\* mismatch, or a signature that does not verify, leaves the record as it was.
AppendInline(s, repository) ==
    LET cid == ComputeCid(doc, s, repository)
        fits == cid = s.cid /\ VerifySignature(s.key[1], cid, s.sig)
    IN  /\ Call
        /\ handed' = handed \ {s}
        /\ IF fits THEN AddEntry([inline |-> TRUE, meta |-> s, uri |-> NoValue]) ELSE UNCHANGED doc
        /\ freshProof' = (freshProof /\ ~fits)
        /\ UNCHANGED <<made, published, appended>>

\* Mutation: the recomputed cid is not compared.
ProofFitsAlways(p, repository) == TRUE

\* The proof's cid is taken out of its fields and recomputed.
ProofFits(p, repository) == ComputeCid(doc, SignedMetadata(p.label), repository) = p.cid

\* appendRemoteAttestation.
AppendRemote(p, repository, uri) ==
    /\ Call /\ ProofFits(p, repository)
    /\ AddEntry([inline |-> FALSE, meta |-> p, uri |-> uri])
    /\ appended' = appended \cup {[cid |-> p.cid, of |-> doc, at |-> repository]}
    /\ freshProof' = FALSE
    /\ UNCHANGED <<made, published, handed>>

-----------------------------------------------------------------------------
(* verifyRecord                                                            *)

VerifyInlineSignature(e, repository) ==
    /\ ComputeCid(doc, e.meta, repository) = e.meta.cid
    /\ VerifySignature(e.meta.key[1], e.meta.cid, e.meta.sig)

\* The proof record is fetched and its cid compared with the entry's.
VerifyRemoteSignature(e) ==
    \E q \in published : q.uri = e.uri /\ q.proof.cid = e.meta.cid

\* Every entry is checked, whatever failed before.
VerifyRecord(repository) ==
    \A i \in 1..Len(doc.signatures) :
        LET e == doc.signatures[i] IN
        IF e.inline THEN VerifyInlineSignature(e, repository) ELSE VerifyRemoteSignature(e)

AttestApiNext ==
    \/ \E l \in Labels, h \in Hosts :
           \/ \E k \in SigningKeys : CreateInline(k, l, h) \/ CreateSignature(k, l, h)
           \/ CreateRemote(l, h)
    \/ \E p \in made, h \in Hosts : PublishProof(p, h)
    \/ \E t \in Texts, keep \in BOOLEAN : EditDoc(t, keep)
    \/ \E s \in handed, h \in Hosts : AppendInline(s, h)
    \/ \E p \in made, h, u \in Hosts : AppendRemote(p, h, u)

AttestApiSpec == AttestApiInit /\ [][AttestApiNext]_attestApiVars

-----------------------------------------------------------------------------
(* Properties                                                              *)

\* appendRemoteAttestation attaches a proof only to the record it was made for:
\* the same text, the same signatures before it, the same repository, whatever
\* was edited or attested between the two calls.
AppendedProofFits ==
    \A a \in appended : \E p \in made : p.cid = a.cid /\ a.cid[1] = a.of /\ a.cid[3] = a.at

\* A record that createInlineAttestation signed verifies in its repository
\* (attestation.ts:953, "recompute the attestation CID, resolve the signing
\* key from the DID, and verify the signature").
InlineRoundTrips ==
    freshProof => \E h \in Hosts : VerifyRecord(h)
=============================================================================
