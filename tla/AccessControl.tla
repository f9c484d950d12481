---------------------------- MODULE AccessControl ----------------------------
(***************************************************************************)
(* Who may do what: the issuer's signing key (lib/oidc-helper/mod.ts, its  *)
(* warm-up in qemu/main.ts and compute-provider-local), the RBAC records   *)
(* that let a guest ask /v1/oidc/issue for a token, and the operator's     *)
(* allowlist (lib/rbac-helper/mod.ts, qemu/allow-access.ts).  Guests come  *)
(* and go with their records while requests page through the repository,   *)
(* and the issuer's URL changes whenever the relay names it.               *)
(***************************************************************************)
EXTENDS Naturals, FiniteSets

CONSTANTS
    Guests,        \* guest subjects: one RBAC record each while they live
    Callers,       \* DIDs the operator allows
    Reqs,          \* requests: [id, kind, who]; prove, jwks, issue or account
    Urls,          \* issuer URLs
    LocalUrl,      \* the one a process starts with, from its environment
    ListLimit,     \* records per page of listRecords
    MaxRkeys,      \* bound on records written
    MaxBoots,      \* bound on starts
    DurableKeys    \* the key store is the database, not memory

ASSUME AccessAssumption ==
    /\ ListLimit \in Nat \ {0} /\ {MaxRkeys, MaxBoots} \subseteq Nat
    /\ DurableKeys \in BOOLEAN /\ LocalUrl \in Urls
    /\ \A r \in Reqs : r.kind \in {"prove", "jwks", "issue", "account"}

VARIABLES
    signingKey,   \* _signingKey: 0, or the number of a key pair
    publicJwk,    \* _publicJwk: 0, or the key it was computed from
    pem,          \* the key store
    keysMade, boots,
    issuer,       \* _getIssuerUrl(), ISSUER_URL
    thread,       \* boot or request -> [at, key] of its key lookup
    req,          \* request -> [at, cursor, listed, service, held, fault, base]
    roleRecs,     \* com.fedproxy.rbac: [rkey, who, service]
    allowRecs,    \* allowlist: [rkey, dids, service]
    rkeys,        \* last record key
    tokens        \* tokens signed: [key, kid, boot, iss, who]

keyVars == <<signingKey, publicJwk, pem, keysMade, tokens>>
listVars == <<roleRecs, allowRecs, rkeys>>
accessVars == <<signingKey, publicJwk, pem, keysMade, boots, issuer, thread, req,
                roleRecs, allowRecs, rkeys, tokens>>

Boot == [id |-> 0, kind |-> "boot", who |-> "issuer"]
Threads == {Boot} \cup Reqs
NoToken == [key |-> 0, kid |-> 0, boot |-> 0, iss |-> LocalUrl, who |-> "nobody"]
NoRequest == [at |-> "none", cursor |-> 0, listed |-> {}, service |-> LocalUrl, held |-> NoToken,
              fault |-> FALSE, base |-> {}]
NoThread == [at |-> "idle", key |-> 0]

AccessInit ==
    /\ signingKey = 0 /\ publicJwk = 0 /\ pem = 0 /\ keysMade = 0 /\ boots = 1 /\ issuer = LocalUrl
    /\ thread = [t \in Threads |-> IF t = Boot THEN [at |-> "key", key |-> 0] ELSE NoThread]
    /\ req = [r \in Reqs |-> NoRequest]
    /\ roleRecs = {} /\ allowRecs = {} /\ rkeys = 0
    /\ tokens = {}

-----------------------------------------------------------------------------
(* getSigningKey and getPublicJwk                                          *)

Step(t, at, key) == thread' = [thread EXCEPT ![t] = [at |-> at, key |-> key]]

\* The cached key, the stored one, or a new one.
GetSigningKey(t) ==
    /\ thread[t].at = "key"
    /\ \/ signingKey # 0 /\ Step(t, "jwk", signingKey)
       \/ signingKey = 0 /\ pem # 0 /\ Step(t, "importing", pem)
       \/ signingKey = 0 /\ pem = 0 /\ Step(t, "generating", 0)
    /\ UNCHANGED <<keyVars, boots, issuer, req, listVars>>

KeyImported(t) ==
    /\ thread[t].at = "importing"
    /\ signingKey' = thread[t].key
    /\ Step(t, "jwk", thread[t].key)
    /\ UNCHANGED <<publicJwk, pem, keysMade, tokens, boots, issuer, req, listVars>>

KeyGenerated(t) ==
    /\ thread[t].at = "generating"
    /\ keysMade' = keysMade + 1 /\ signingKey' = keysMade + 1
    /\ Step(t, "exporting", keysMade + 1)
    /\ UNCHANGED <<publicJwk, pem, tokens, boots, issuer, req, listVars>>

\* Mutation: the generated key is not stored.
KeySavedNot(t) ==
    /\ thread[t].at = "exporting"
    /\ Step(t, "jwk", signingKey)
    /\ UNCHANGED <<keyVars, boots, issuer, req, listVars>>

\* The exported key is stored; what is returned is the cached key of now.
KeySaved(t) ==
    /\ thread[t].at = "exporting"
    /\ pem' = thread[t].key
    /\ Step(t, "jwk", signingKey)
    /\ UNCHANGED <<signingKey, publicJwk, keysMade, tokens, boots, issuer, req, listVars>>

\* getPublicJwk, with the key a moment ago; the boot is over with it.
GetPublicJwk(t) ==
    /\ thread[t].at = "jwk"
    /\ publicJwk' = IF publicJwk = 0 THEN thread[t].key ELSE publicJwk
    /\ Step(t, "ready", thread[t].key)
    /\ UNCHANGED <<signingKey, pem, keysMade, tokens, boots, issuer, req, listVars>>

KeyStep(t) == GetSigningKey(t) \/ KeyImported(t) \/ KeyGenerated(t) \/ KeySaved(t) \/ GetPublicJwk(t)

\* The warm-up comes first: requests are served once the boot has the key.
Serving == thread[Boot].at = "ready"

\* OIDCToken.create: the key, the kid of the published one, and the URL of now.
CreateToken(r) ==
    tokens' = tokens \cup {[key |-> thread[r].key, kid |-> publicJwk, boot |-> boots,
                            iss |-> issuer, who |-> r.who]}

\* onRegistered: the relay names the service by its key pair, and that is the
\* issuer from now on.
OnRegistered(url) ==
    /\ Serving /\ issuer = LocalUrl /\ url # LocalUrl
    /\ issuer' = url
    /\ UNCHANGED <<keyVars, boots, thread, req, listVars>>

\* The process starts anew, under its own URL; its requests are gone.
Restart ==
    /\ boots < MaxBoots
    /\ boots' = boots + 1 /\ issuer' = LocalUrl
    /\ signingKey' = 0 /\ publicJwk' = 0
    /\ pem' = IF DurableKeys THEN pem ELSE 0
    /\ thread' = [t \in Threads |-> IF t = Boot THEN [at |-> "key", key |-> 0] ELSE NoThread]
    /\ req' = [r \in Reqs |-> NoRequest]
    /\ UNCHANGED <<keysMade, tokens, listVars>>

-----------------------------------------------------------------------------
(* Records                                                                 *)

\* configureRbac of a guest, for the issuer of now; the records have growing
\* keys.
ConfigureRbac(g) ==
    /\ rkeys < MaxRkeys /\ \A x \in roleRecs : x.who # g
    /\ rkeys' = rkeys + 1
    /\ roleRecs' = roleRecs \cup {[rkey |-> rkeys + 1, who |-> g, service |-> issuer]}
    /\ UNCHANGED <<keyVars, boots, issuer, thread, req, allowRecs>>

DeleteRbacRecord(g) ==
    /\ \E x \in roleRecs : x.who = g
    /\ roleRecs' = {x \in roleRecs : x.who # g}
    /\ req' = [r \in Reqs |-> [req[r] EXCEPT !.base = @ \ {g}]]
    /\ UNCHANGED <<keyVars, boots, issuer, thread, allowRecs, rkeys>>

\* alreadyAllowedDids: every record that protects the service counts.
AlreadyAllowed(url) == UNION {x.dids : x \in {y \in allowRecs : y.service = url}}

\* allow-access for a set of DIDs, by the URL the service has: unless all are
\* allowed already, a new record, whose entry is named after service and scope.
AllowAccess(dids) ==
    /\ ~dids \subseteq AlreadyAllowed(issuer) /\ rkeys < MaxRkeys
    /\ rkeys' = rkeys + 1
    /\ allowRecs' = allowRecs \cup {[rkey |-> rkeys + 1, dids |-> dids, service |-> issuer]}
    /\ UNCHANGED <<keyVars, boots, issuer, thread, req, roleRecs>>

-----------------------------------------------------------------------------
(* Requests                                                                *)

\* Guests with a record for a service.
Granted(url) == {x.who : x \in {y \in roleRecs : y.service = url}}

\* A request starts its key lookup: prove and jwks need nothing else, issue
\* verifies the token it comes with and then asks the RBAC records for the
\* service by its URL of now, as account asks the allowlist.
RequestStart(r) ==
    /\ Serving /\ req[r].at = "none"
    /\ \E t \in IF r.kind = "issue" THEN {u \in tokens : u.who = r.who} ELSE {NoToken} :
           req' = [req EXCEPT ![r] =
                      [at |-> CASE r.kind = "issue" -> "verifying"
                                [] r.kind = "account" -> "listing"
                                [] OTHER -> "keyed",
                       cursor |-> 1, listed |-> {}, service |-> issuer, held |-> t,
                       fault |-> FALSE, base |-> Granted(issuer)]]
    /\ thread' = IF r.kind = "account" THEN thread ELSE [thread EXCEPT ![r] = [at |-> "key", key |-> 0]]
    /\ UNCHANGED <<keyVars, boots, issuer, listVars>>

\* OIDCToken.validate: signed by this key, under the issuer's URL.
Validate(r) ==
    /\ req[r].at = "verifying" /\ thread[r].at = "ready"
    /\ req' = [req EXCEPT ![r].at =
                   IF req[r].held.iss = req[r].service /\ req[r].held.key = thread[r].key
                   THEN "listing" ELSE "refused"]
    /\ UNCHANGED <<keyVars, boots, issuer, thread, listVars>>

RecsOf(r) == IF r.kind = "account" THEN allowRecs ELSE roleRecs

\* listRecords: up to ListLimit records from the cursor on, and the next key.
Rest(r) == {x \in RecsOf(r) : x.rkey >= req[r].cursor}
Page(r) == {x \in Rest(r) : Cardinality({y \in Rest(r) : y.rkey < x.rkey}) < ListLimit}
Left(r) == {x.rkey : x \in Rest(r) \ Page(r)}

\* Mutation: the next page begins after its cursor.
NextCursorAfter(r) == {k + 1 : k \in {l \in Left(r) : \A j \in Left(r) : l <= j}}

NextCursor(r) == {k \in Left(r) : \A j \in Left(r) : k <= j}

\* One page of getRBACRecord or getServiceAllowlist.
ListPage(r) ==
    /\ req[r].at = "listing"
    /\ \/ /\ Left(r) = {}
          /\ req' = [req EXCEPT ![r].listed = @ \cup Page(r), ![r].at = "checking", ![r].cursor = 0]
       \/ \E k \in NextCursor(r) : req' = [req EXCEPT ![r].listed = @ \cup Page(r), ![r].cursor = k]
    /\ UNCHANGED <<keyVars, boots, issuer, thread, listVars>>

\* resolvePDS or a page fails: the request is refused.
ListFails(r) ==
    /\ req[r].at = "listing"
    /\ req' = [req EXCEPT ![r].at = "refused", ![r].fault = TRUE]
    /\ UNCHANGED <<keyVars, boots, issuer, thread, listVars>>

\* Of what was listed, the records that protect the service.
Protecting(r) == {x \in req[r].listed : x.service = req[r].service}

\* checkRBACPolicy: a role whose subject is the caller's; the policies of the
\* provider's records permit what they are written for.
CheckRBACPolicy(r) == \E x \in Protecting(r) : x.who = r.who

\* The join of the allowlists is by name, and all entries have the same name.
CheckAllowed(r) ==
    \E x \in Protecting(r) : r.who \in x.dids /\ \A y \in Protecting(r) : y.rkey <= x.rkey

Check(r) ==
    /\ req[r].at = "checking"
    /\ LET ok == IF r.kind = "account" THEN CheckAllowed(r) ELSE CheckRBACPolicy(r) IN
       req' = [req EXCEPT ![r].at = IF ~ok THEN "refused" ELSE IF r.kind = "issue" THEN "keyed" ELSE "done"]
    /\ UNCHANGED <<keyVars, boots, issuer, thread, listVars>>

\* The token is signed, or the key set answered.
Answer(r) ==
    /\ req[r].at = "keyed" /\ thread[r].at = "ready"
    /\ req' = [req EXCEPT ![r].at = "done"]
    /\ IF r.kind = "jwks" THEN UNCHANGED tokens ELSE CreateToken(r)
    /\ UNCHANGED <<signingKey, publicJwk, pem, keysMade, boots, issuer, thread, listVars>>

RequestStep(r) ==
    RequestStart(r) \/ Validate(r) \/ ListPage(r) \/ ListFails(r) \/ Check(r) \/ Answer(r)

AccessNext ==
    \/ \E t \in Threads : KeyStep(t)
    \/ \E r \in Reqs : RequestStep(r)
    \/ \E g \in Guests : ConfigureRbac(g) \/ DeleteRbacRecord(g)
    \/ \E dids \in SUBSET Callers : dids # {} /\ AllowAccess(dids)
    \/ \E url \in Urls : OnRegistered(url)
    \/ Restart

AccessSpec == AccessInit /\ [][AccessNext]_accessVars

-----------------------------------------------------------------------------
(* Properties                                                              *)

\* Every token verifies with the key the issuer signs with and publishes now,
\* under the kid it was given: overlapping first requests, and restarts when
\* the key store is durable, do not leave two keys in use.
TokensVerify ==
    \A t \in tokens :
        /\ t.key = t.kid
        /\ (DurableKeys \/ t.boot = boots) =>
               signingKey \in {0, t.key} /\ publicJwk \in {0, t.key} /\ pem = t.key

\* A guest is refused only if its record was not there, for the URL the issuer
\* had when the request came, all the time until the answer, if its token was
\* issued under another URL or with a key lost in a restart, or if the lookup of
\* the records failed; records added and deleted between the pages do not
\* matter.
GrantedGuestIsServed ==
    \A r \in Reqs : r.kind = "issue" /\ req[r].at = "refused" =>
        \/ r.who \notin req[r].base
        \/ req[r].held.iss # req[r].service
        \/ ~DurableKeys /\ req[r].held.boot # boots
        \/ req[r].fault

\* Across restarts, changes of the issuer's URL and paged listings: a token keeps
\* the key it verifies with, and a guest with a token and a grant for the URL of
\* now is turned away only by a failing lookup.
GuestsAreServed == TokensVerify /\ GrantedGuestIsServed
=============================================================================
