---------------------------- MODULE OidcVerifier ----------------------------
(***************************************************************************)
(* oidcverifier.Verifier (oidcverifier/oidcverifier.go): a lifecycle that  *)
(* calls out for discovery between its two critical sections, and          *)
(* concurrent calls of Verify that share a key cache and refill it while   *)
(* the provider rotates its keys.                                          *)
(*                                                                         *)
(* External: the provider, HTTP, and go-oidc, which decodes a token and    *)
(* checks its issuer, expiry and algorithm before it asks remoteKeySet     *)
(* about the signature.  A key stands for what it signs; 0 is a key the    *)
(* provider never had.  In a token, azp is a client or the way the claim   *)
(* is unusable.  A Verify that finds no verifier returns ErrNotReady and   *)
(* leaves no trace, so it is not a step.                                   *)
(***************************************************************************)
EXTENDS Integers, Sequences, FiniteSets

CONSTANTS
    Starts,   \* calls of Start
    Calls,    \* calls of Verify
    Clients,  \* client identifiers, which aud and azp name
    Configs,  \* the audiences and authorized parties New may be given
    Tokens,   \* what a token claims
    NoToken,
    MaxKeys   \* bound: keys the provider ever publishes

Unusable == {"absent", "malformed"}

(* New insists on an audience and on non-empty names.                      *)
ASSUME ConfigsAssumption ==
    /\ Clients \cap Unusable = {}
    /\ Configs \subseteq [audiences : (SUBSET Clients) \ {{}}, parties : SUBSET Clients]

(* valid: what go-oidc checks by itself; subject: sub and iat are present. *)
ASSUME TokensAssumption ==
    Tokens \subseteq [valid : BOOLEAN, subject : BOOLEAN,
                      aud : Seq(Clients), azp : Clients \cup Unusable]
ASSUME NoTokenAssumption == NoToken \notin Tokens
ASSUME KeysAssumption == MaxKeys \in Nat \ {0}

Keys == 1 .. MaxKeys

VARIABLES
    config,            \* v.cfg
    started, stopped,  \* v.started and v.stopped
    ready,             \* v.verifier # nil (and v.metadata with it)
    start,             \* where each Start is
    newest,            \* the provider's newest key
    published,         \* the keys it publishes
    cache,             \* remoteKeySet.keys
    pc,                \* where each Verify is
    token, key,        \* its token, and what signed it
    fetched,           \* the keys of its own JWKS response
    steady             \* calls whose key has been published all along and
                       \* whose fetch, if any, has not failed

lifeVars == <<config, started, stopped, ready, start>>
provider == <<newest, published>>
callVars == <<pc, token, key, fetched, steady>>
verifierVars == <<lifeVars, provider, cache, callVars>>

Pending == {"signature", "request", "response", "store", "match", "claims"}
Verdicts == {"accepted", "invalid", "audience", "party"}

VerifierTypeOK ==
    /\ config \in Configs
    /\ {started, stopped, ready} \subseteq BOOLEAN
    /\ start \in [Starts -> {"idle", "discover", "decode", "publish", "returned"}]
    /\ newest \in Keys
    /\ published \subseteq Keys
    /\ cache \subseteq Keys
    /\ pc \in [Calls -> {"idle"} \cup Pending \cup Verdicts]
    /\ token \in [Calls -> Tokens \cup {NoToken}]
    /\ key \in [Calls -> Keys \cup {0}]
    /\ fetched \in [Calls -> SUBSET Keys]
    /\ steady \subseteq Calls

VerifierInit ==
    /\ config \in Configs
    /\ started = FALSE
    /\ stopped = FALSE
    /\ ready = FALSE
    /\ start = [c \in Starts |-> "idle"]
    /\ newest = 1
    /\ published = {1}
    /\ cache = {}
    /\ pc = [c \in Calls |-> "idle"]
    /\ token = [c \in Calls |-> NoToken]
    /\ key = [c \in Calls |-> 0]
    /\ fetched = [c \in Calls |-> {}]
    /\ steady = {}

-----------------------------------------------------------------------------
(* Start: refused if started before (ErrAlreadyStarted) or stopped.        *)
StartBegin(c) ==
    /\ start[c] = "idle"
    /\ start' = [start EXCEPT ![c] = IF started \/ stopped THEN "returned"
                                                           ELSE "discover"]
    /\ started' = (started \/ ~stopped)
    /\ UNCHANGED <<config, stopped, ready, provider, cache, callVars>>

(* Discover: the document's request is answered with JSON, or it fails;    *)
(* whatever fails here or later, the verifier stays started.               *)
StartDiscover(c) ==
    /\ start[c] = "discover"
    /\ \E next \in {"decode", "returned"} : start' = [start EXCEPT ![c] = next]
    /\ UNCHANGED <<config, started, stopped, ready, provider, cache, callVars>>

(* The document has been decoded or not; one that says the wrong things is *)
(* refused all the same.                                                   *)
StartDecoded(c, decoded) ==
    /\ start[c] = "decode"
    /\ \E next \in {"returned"} \cup (IF decoded THEN {"publish"} ELSE {}) :
          start' = [start EXCEPT ![c] = next]
    /\ UNCHANGED <<config, started, stopped, ready, provider, cache, callVars>>

(* mutant: Stop is not noticed after discovery.                            *)
StartPublishAnyway(c) ==
    /\ start[c] = "publish"
    /\ start' = [start EXCEPT ![c] = "returned"]
    /\ ready' = TRUE
    /\ UNCHANGED <<config, started, stopped, provider, cache, callVars>>

StartPublish(c) ==
    /\ start[c] = "publish"
    /\ start' = [start EXCEPT ![c] = "returned"]
    /\ ready' = ~stopped
    /\ UNCHANGED <<config, started, stopped, provider, cache, callVars>>

Stop ==
    /\ stopped' = TRUE
    /\ ready' = FALSE
    /\ UNCHANGED <<config, started, start, provider, cache, callVars>>

-----------------------------------------------------------------------------
Goes(c, place) == pc' = [pc EXCEPT ![c] = place]

(* Verify takes the verifier under the read lock; what go-oidc rejects     *)
(* before the signature, and an oversized token, goes no further.          *)
VerifyBegin(c) ==
    /\ pc[c] = "idle" /\ ready
    /\ \E t \in Tokens, k \in 0 .. newest :
          /\ token' = [token EXCEPT ![c] = t]
          /\ key' = [key EXCEPT ![c] = k]
          /\ steady' = IF k \in published THEN steady \cup {c} ELSE steady
          /\ Goes(c, IF t.valid THEN "signature" ELSE "invalid")
    /\ UNCHANGED <<lifeVars, provider, cache, fetched>>

(* VerifySignature: the cached keys first.                                 *)
TryCache(c) ==
    /\ pc[c] = "signature"
    /\ Goes(c, IF key[c] \in cache THEN "claims" ELSE "request")
    /\ UNCHANGED <<lifeVars, provider, cache, token, key, fetched, steady>>

(* fetch: the provider answers with what it publishes when it is asked, or *)
(* the request fails.                                                      *)
FetchAnswer(c) ==
    /\ pc[c] = "request"
    /\ fetched' = [fetched EXCEPT ![c] = published]
    /\ Goes(c, "response")
    /\ UNCHANGED <<lifeVars, provider, cache, token, key, steady>>

FetchFails(c) ==
    /\ pc[c] \in {"request", "response"}
    /\ Goes(c, "invalid")
    /\ steady' = steady \ {c}
    /\ UNCHANGED <<lifeVars, provider, cache, token, key, fetched>>

(* The response has arrived and replaces the cache.                        *)
StoreKeys(c) ==
    /\ pc[c] = "response"
    /\ cache' = fetched[c]
    /\ Goes(c, "match")
    /\ UNCHANGED <<lifeVars, provider, token, key, fetched, steady>>

(* mutant: the cache is read again, which another call may have replaced.  *)
TryCacheAgain(c) ==
    /\ pc[c] = "match"
    /\ Goes(c, IF key[c] \in cache THEN "claims" ELSE "invalid")
    /\ UNCHANGED <<lifeVars, provider, cache, token, key, fetched, steady>>

(* ... and the response's own keys decide.                                 *)
TryFetched(c) ==
    /\ pc[c] = "match"
    /\ Goes(c, IF key[c] \in fetched[c] THEN "claims" ELSE "invalid")
    /\ UNCHANGED <<lifeVars, provider, cache, token, key, fetched, steady>>

(* New: without authorized parties the audiences are these, too.           *)
AuthorizedParties ==
    IF config.parties = {} THEN config.audiences ELSE config.parties

MatchesAny(aud) == \E i \in DOMAIN aud : aud[i] \in config.audiences

(* mutant: a token for several audiences may omit azp.                     *)
VerdictLenient(t) ==
    IF ~t.subject THEN "invalid"
    ELSE IF ~MatchesAny(t.aud) THEN "audience"
    ELSE IF t.azp = "malformed" THEN "invalid"
    ELSE IF t.azp \notin AuthorizedParties \cup {"absent"} THEN "party"
    ELSE "accepted"

(* Verify's own checks, in the code's order.                               *)
Verdict(t) ==
    IF ~t.subject THEN "invalid"
    ELSE IF ~MatchesAny(t.aud) THEN "audience"
    ELSE IF t.azp = "malformed" THEN "invalid"
    ELSE IF Len(t.aud) > 1 /\ t.azp = "absent" THEN "party"
    ELSE IF t.azp \notin AuthorizedParties \cup {"absent"} THEN "party"
    ELSE "accepted"

CheckClaims(c) ==
    /\ pc[c] = "claims"
    /\ Goes(c, Verdict(token[c]))
    /\ UNCHANGED <<lifeVars, provider, cache, token, key, fetched, steady>>

-----------------------------------------------------------------------------
(* The provider publishes a new key, with or without the ones before it.   *)
Rotate ==
    /\ newest < MaxKeys
    /\ newest' = newest + 1
    /\ published' \in {{newest + 1}, published \cup {newest + 1}}
    /\ steady' = {c \in steady : key[c] \in published' \/ pc[c] \notin Pending}
    /\ UNCHANGED <<lifeVars, cache, pc, token, key, fetched>>

VerifyStep(c) ==
    \/ VerifyBegin(c) \/ TryCache(c) \/ FetchAnswer(c) \/ FetchFails(c)
    \/ StoreKeys(c) \/ TryFetched(c) \/ CheckClaims(c)

-----------------------------------------------------------------------------
(* What the package promises to accept: a valid token for one of the       *)
(* audiences, whose authorized party, if it names one, is among the        *)
(* configured ones ("defaults to Audiences"), and which names one if it is *)
(* for more than one audience.                                             *)
Policy(t) ==
    /\ t.valid /\ t.subject
    /\ {t.aud[i] : i \in DOMAIN t.aud} \cap config.audiences # {}
    /\ \/ t.azp \in config.parties
       \/ config.parties = {} /\ t.azp \in config.audiences
       \/ Len(t.aud) = 1 /\ t.azp = "absent"

(* Once Stop has returned, the verifier is never ready again, also if a    *)
(* Start was waiting for discovery at the time.                            *)
StoppedForGood == stopped => ~ready

(* Only tokens within the policy and signed by the provider are accepted.  *)
AcceptedMeetsPolicy ==
    \A c \in Calls : pc[c] = "accepted" => Policy(token[c]) /\ key[c] \in Keys

(* No good token is turned away because of other calls or a rotation: if   *)
(* its key is published all through the call and the call's own fetch does *)
(* not fail, it is accepted, whatever older response is stored meanwhile   *)
(* (oidcverifier_test.go, TestVerifyRefreshesJWKSAfterRotation and         *)
(* TestVerifyIsConcurrent).                                                *)
CurrentKeyAccepted ==
    \A c \in steady :
       pc[c] \in Verdicts /\ Policy(token[c]) => pc[c] = "accepted"
=============================================================================
