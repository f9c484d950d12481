----------------------------- MODULE NonceStore -----------------------------
(***************************************************************************)
(* createNonceStore (lib/xrpc-relay/auth.ts): the relay hands out a random *)
(* nonce per registration and verifies the signed nonce when a subscriber  *)
(* connects.  verify looks the nonce up, awaits the signature check and    *)
(* deletes the nonce afterwards; other calls run during the await.         *)
(***************************************************************************)
EXTENDS Naturals

CONSTANTS
    Nonces,     \* random values; one is never issued twice
    Keys,       \* did:keys
    Calls,      \* calls of verify, one per connection attempt
    TtlMs,      \* life time of a nonce
    MaxTime,    \* bound on the clock
    NoEntry     \* "no entry" in the Map issued

ASSUME NonceAssumption ==
    /\ TtlMs \in Nat
    /\ MaxTime \in Nat
    /\ NoEntry \notin [key : Keys, expiresAt : Nat]

VARIABLES
    now,        \* Date.now()
    issued,     \* the Map issued
    issuedTo,   \* history: whom a nonce was issued to, with its expiry
    call        \* the calls of verify: their arguments and how far they are

nonceVars == <<now, issued, issuedTo, call>>

Entries == [key : Keys, expiresAt : Nat]

\* reg.key, reg.nonce, when the look-up was made, and the state of the call.
CallStates == {"idle", "checking", "ok", "refused"}
CallRecords == [state : CallStates, key : Keys, nonce : Nonces, at : Nat]

NonceInit ==
    /\ now = 0
    /\ issued   = [n \in Nonces |-> NoEntry]
    /\ issuedTo = [n \in Nonces |-> NoEntry]
    /\ call \in [Calls -> [state : {"idle"}, key : Keys, nonce : Nonces, at : {0}]]

Expired(n) == issued[n] # NoEntry /\ issued[n].expiresAt < now

\* issue: purge what has expired, then store a fresh nonce.
Issue(n, k) ==
    /\ issuedTo[n] = NoEntry
    /\ LET e == [key |-> k, expiresAt |-> now + TtlMs] IN
       /\ issued' = [m \in Nonces |-> IF m = n THEN e
                                      ELSE IF Expired(m) THEN NoEntry ELSE issued[m]]
       /\ issuedTo' = [issuedTo EXCEPT ![n] = e]
    /\ UNCHANGED <<now, call>>

SetState(c, st) == call' = [call EXCEPT ![c].state = st]

\* verify of a registration without key, nonce or signatures.
VerifyMalformed(c) ==
    /\ call[c].state = "idle"
    /\ SetState(c, "refused")
    /\ UNCHANGED <<now, issued, issuedTo>>

\* Mutation of VerifyStart: the key is not compared with the issuance.
VerifyStartAnyKey(c) ==
    /\ call[c].state = "idle"
    /\ LET n == call[c].nonce IN
       IF issued[n] = NoEntry \/ Expired(n)
         THEN SetState(c, "refused") /\ UNCHANGED issued
         ELSE /\ call' = [call EXCEPT ![c].state = "checking", ![c].at = now]
              /\ UNCHANGED issued
    /\ UNCHANGED <<now, issuedTo>>

\* verify up to the await of verifySignature.
VerifyStart(c) ==
    /\ call[c].state = "idle"
    /\ LET n == call[c].nonce IN
       \/ /\ issued[n] = NoEntry
          /\ SetState(c, "refused")
          /\ UNCHANGED issued
       \/ /\ Expired(n)
          /\ issued' = [issued EXCEPT ![n] = NoEntry]
          /\ SetState(c, "refused")
       \/ /\ issued[n] # NoEntry
          /\ ~Expired(n)
          /\ issued[n].key # call[c].key
          /\ SetState(c, "refused")
          /\ UNCHANGED issued
       \/ /\ issued[n] # NoEntry
          /\ ~Expired(n)
          /\ issued[n].key = call[c].key
          /\ call' = [call EXCEPT ![c].state = "checking", ![c].at = now]
          /\ UNCHANGED issued
    /\ UNCHANGED <<now, issuedTo>>

\* Mutation of VerifyOk: the nonce stays in the map.
VerifyOkKeeps(c) ==
    /\ call[c].state = "checking"
    /\ SetState(c, "ok")
    /\ UNCHANGED <<now, issued, issuedTo>>

\* A signature verified: the nonce is spent.  The map is not read again.
VerifyOk(c) ==
    /\ call[c].state = "checking"
    /\ SetState(c, "ok")
    /\ issued' = [issued EXCEPT ![call[c].nonce] = NoEntry]
    /\ UNCHANGED <<now, issuedTo>>

\* No signature verified: the nonce may be tried again.
VerifyBad(c) ==
    /\ call[c].state = "checking"
    /\ SetState(c, "refused")
    /\ UNCHANGED <<now, issued, issuedTo>>

Tick ==
    /\ now < MaxTime
    /\ now' = now + 1
    /\ UNCHANGED <<issued, issuedTo, call>>

NonceNext ==
    \/ \E n \in Nonces, k \in Keys : Issue(n, k)
    \/ \E c \in Calls : VerifyMalformed(c) \/ VerifyStart(c) \/ VerifyOk(c) \/ VerifyBad(c)
    \/ Tick

NonceSpec == NonceInit /\ [][NonceNext]_nonceVars

-----------------------------------------------------------------------------
(* Correctness                                                             *)

\* An issued nonce maps to a key and an expiry (the Map issued of auth.ts).
NonceTypeOK ==
    /\ now \in Nat
    /\ issued   \in [Nonces -> Entries \cup {NoEntry}]
    /\ issuedTo \in [Nonces -> Entries \cup {NoEntry}]
    /\ call \in [Calls -> CallRecords]

\* A nonce that admitted a registration is not accepted by any call that
\* begins later, whatever was issued or refused in between.
SpentForGood ==
    \A c \in Calls : call[c].state = "ok" => issued[call[c].nonce] = NoEntry

\* A registration is admitted only for the key the nonce was issued to, and
\* only if it was presented within the life time of the nonce.
AdmitsTheIssuedKey ==
    \A c \in Calls : call[c].state \in {"checking", "ok"} =>
        /\ issuedTo[call[c].nonce] # NoEntry
        /\ issuedTo[call[c].nonce].key = call[c].key
        /\ call[c].at <= issuedTo[call[c].nonce].expiresAt

\* What createNonceStore promises the relay, however many calls of verify
\* overlap: a spent nonce is spent for good, and a nonce admits only the key it
\* was issued to, within its life time.
NoncePromise == SpentForGood /\ AdmitsTheIssuedKey
=============================================================================
