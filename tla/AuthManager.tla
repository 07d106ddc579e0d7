------------------------------ MODULE AuthManager ------------------------------
(***************************************************************************)
(* The authentication manager (auth): requests that are judged, while what *)
(* they are judged by changes.  That is the list of internal users, or the *)
(* key set of an external server, which is kept for an hour unless the     *)
(* control API asks for a refresh; either is a version here, the one of a  *)
(* credential that it accepts.                                             *)
(***************************************************************************)
EXTENDS Naturals

CONSTANTS
    Requests,
    RefreshPeriod,             \* jwksRefreshPeriod
    MaxKeys, MaxClock          \* bounds

(* The zero time is longer ago than the keys are kept.                     *)
AuthAssumption ==
    MaxKeys \in Nat /\ MaxClock \in Nat /\ RefreshPeriod \in 0 .. MaxClock /\ "free" \notin Requests

VARIABLES
    method,           \* internal, http, jwt
    mutex,            \* free, or the request that holds Manager.mutex
    keys,             \* InternalUsers, or jwtKeyFunc
    lastRefresh,      \* jwksLastRefresh; the zero time is 0
    jwks,             \* the version of the external server
    clock,
    promised,         \* the version when a refresh or a reload has returned
    request           \* of each request: how far it is, its credential, its time, its promise

authVars == <<method, mutex, keys, lastRefresh, jwks, clock, promised, request>>

NoRequest == [at |-> "none", credential |-> 0, now |-> 0, promised |-> 0, keys |-> 0]
Goes(r, at) == request' = [request EXCEPT ![r].at = at]

AuthInit ==
    /\ method \in {"internal", "http", "jwt"}
    /\ mutex = "free" /\ keys = 0 /\ lastRefresh = 0 /\ jwks = 0 /\ clock = RefreshPeriod /\ promised = 0
    /\ request = [r \in Requests |-> NoRequest]

(* Authenticate, of a request that the exclusions do not let through.      *)
Authenticate(r, credential) ==
    /\ request[r].at = "none"
    /\ request' = [request EXCEPT ![r] = [at |-> IF method = "http" THEN "asking" ELSE "locking",
                       credential |-> credential, now |-> clock, promised |-> promised, keys |-> 0]]
    /\ UNCHANGED <<method, mutex, keys, lastRefresh, jwks, clock, promised>>

(* authenticateHTTP: the server decides, or fails.                         *)
AuthenticateHTTP(r) ==
    /\ request[r].at = "asking"
    /\ Goes(r, IF request[r].credential = jwks THEN "granted" ELSE "denied") \/ Goes(r, "denied")
    /\ UNCHANGED <<method, mutex, keys, lastRefresh, jwks, clock, promised>>

(* authenticateInternal, under the read lock.                              *)
AuthenticateInternal(r) ==
    /\ method = "internal" /\ request[r].at = "locking" /\ mutex = "free"
    /\ Goes(r, IF request[r].credential = keys THEN "granted" ELSE "denied")
    /\ UNCHANGED <<method, mutex, keys, lastRefresh, jwks, clock, promised>>

(* pullJWTJWKS, whose time was taken before the lock.                      *)
StillFresh(r) == request[r].now < lastRefresh + RefreshPeriod
Cached(r) ==
    /\ method = "jwt" /\ request[r].at = "locking" /\ mutex = "free" /\ StillFresh(r)
    /\ request' = [request EXCEPT ![r].at = "verifying", ![r].keys = keys]
    /\ UNCHANGED <<method, mutex, keys, lastRefresh, jwks, clock, promised>>
Get(r) ==
    /\ method = "jwt" /\ request[r].at = "locking" /\ mutex = "free" /\ ~StillFresh(r)
    /\ mutex' = r /\ Goes(r, "getting")
    /\ UNCHANGED <<method, keys, lastRefresh, jwks, clock, promised>>
ServerAnswers(r) ==
    /\ request[r].at = "getting"
    /\ request' = [request EXCEPT ![r].at = "got", ![r].keys = jwks]
    /\ UNCHANGED <<method, mutex, keys, lastRefresh, jwks, clock, promised>>
GetFails(r) ==
    /\ request[r].at \in {"getting", "got"}
    /\ mutex' = "free" /\ Goes(r, "denied")
    /\ UNCHANGED <<method, keys, lastRefresh, jwks, clock, promised>>
Got(r) ==
    /\ request[r].at = "got"
    /\ mutex' = "free" /\ Goes(r, "verifying")
    /\ keys' = request[r].keys /\ lastRefresh' = request[r].now
    /\ UNCHANGED <<method, jwks, clock, promised>>

(* authenticateJWT                                                         *)
Verify(r) ==
    /\ request[r].at = "verifying"
    /\ Goes(r, IF request[r].credential = request[r].keys THEN "granted" ELSE "denied")
    /\ UNCHANGED <<method, mutex, keys, lastRefresh, jwks, clock, promised>>

(* Mutant: the mutex is not taken.                                         *)
RefreshJWTJWKS_NoLock ==
    /\ method = "jwt" /\ lastRefresh' = 0 /\ promised' = jwks
    /\ UNCHANGED <<method, mutex, keys, jwks, clock, request>>

RefreshJWTJWKS ==
    /\ method = "jwt" /\ mutex = "free"
    /\ lastRefresh' = 0 /\ promised' = jwks
    /\ UNCHANGED <<method, mutex, keys, jwks, clock, request>>

ReloadInternalUsers ==
    /\ method = "internal" /\ mutex = "free" /\ keys < MaxKeys
    /\ keys' = keys + 1 /\ promised' = keys + 1
    /\ UNCHANGED <<method, mutex, lastRefresh, jwks, clock, request>>

(* The external server, and the clock.                                     *)
KeysRotate ==
    /\ method # "internal" /\ jwks < MaxKeys /\ jwks' = jwks + 1
    /\ UNCHANGED <<method, mutex, keys, lastRefresh, clock, promised, request>>
TimePasses ==
    /\ method = "jwt" /\ clock < MaxClock /\ clock' = clock + 1
    /\ UNCHANGED <<method, mutex, keys, lastRefresh, jwks, promised, request>>

RequestGoesOn(r) ==
    \/ AuthenticateHTTP(r) \/ AuthenticateInternal(r)
    \/ Cached(r) \/ Get(r) \/ ServerAnswers(r) \/ GetFails(r) \/ Got(r) \/ Verify(r)
AuthNext ==
    \/ \E r \in Requests : RequestGoesOn(r) \/ \E c \in 0 .. MaxKeys : Authenticate(r, c)
    \/ RefreshJWTJWKS \/ ReloadInternalUsers \/ KeysRotate \/ TimePasses

AuthTypeOK ==
    /\ method \in {"internal", "http", "jwt"} /\ mutex \in Requests \cup {"free"}
    /\ keys \in 0 .. MaxKeys /\ jwks \in 0 .. MaxKeys /\ promised \in 0 .. MaxKeys
    /\ lastRefresh \in 0 .. MaxClock /\ clock \in 0 .. MaxClock
    /\ \A r \in Requests :
        /\ request[r].at \in {"none", "asking", "locking", "getting", "got", "verifying", "granted", "denied"}
        /\ (mutex = r) = (request[r].at \in {"getting", "got"})

(* What a refresh of the keys, or a reload of the users, has taken back is *)
(* refused to every request that comes after it has returned, although     *)
(* others were fetching keys then.                                         *)
NothingRevoked == \A r \in Requests : request[r].at = "granted" => request[r].credential >= request[r].promised
=============================================================================
