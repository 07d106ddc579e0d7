------------------------------ MODULE MediaProofs ------------------------------
(***************************************************************************)
(* What the parts that work on their own promise when they have ended      *)
(* (EndedForGood), for any number of tracks, readers, formats, commands,   *)
(* candidates and requests, and any times: each of the five parts has an   *)
(* inductive invariant of its own.                                         *)
(***************************************************************************)
EXTENDS MCMedia, WellFoundedInduction, TLAPS

-----------------------------------------------------------------------------
(* Commands.                                                               *)

(* Only a command that waits for its process has one.                      *)
CommandInv ==
    /\ Cmd!CommandTypeOK
    /\ \A c \in Commands : process[c] # "none" => command[c].at \in {"running", "killing"}
    /\ poolClosing = "returned" => \A c \in Commands : Cmd!Over(c)

LEMMA CommandFirst == Cmd!CommandInit => CommandInv
  BY DEF CommandInv, Cmd!CommandInit, Cmd!CommandTypeOK

(* A command moves, and has a process only where it waits for it.          *)
LEMMA CommandMoves ==
    ASSUME CommandInv, NEW c \in Commands, NEW at \in {"starting", "running", "killing", "pausing", "ended"},
           Cmd!Becomes(c, at), Cmd!Over(c) => poolClosing = "no", poolClosing' = poolClosing,
           \/ process' = process /\ (process[c] # "none" => at \in {"running", "killing"})
           \/ process' = [process EXCEPT ![c] = "running"] /\ at \in {"running", "killing"}
           \/ process' = [process EXCEPT ![c] = "none"]
    PROVE  CommandInv'
<1> DEFINE States == {"new", "starting", "running", "killing", "pausing", "ended"}
           q == [command[c] EXCEPT !.at = at]
<1>1. command \in [Commands -> [at : States, restart : BOOLEAN, terminate : BOOLEAN]]
  BY DEF CommandInv, Cmd!CommandTypeOK
<1>2. q \in [at : States, restart : BOOLEAN, terminate : BOOLEAN] /\ q.at = at
  BY <1>1
<1>3. command' = [command EXCEPT ![c] = q]
  BY DEF Cmd!Becomes
<1> HIDE DEF q
<1>4. /\ command' \in [Commands -> [at : States, restart : BOOLEAN, terminate : BOOLEAN]]
      /\ command'[c].at = at /\ \A d \in Commands \ {c} : command'[d] = command[d]
  BY <1>1, <1>2, <1>3
<1>5. process \in [Commands -> {"none", "running", "exited"}] /\ poolClosing \in {"no", "waiting", "returned"}
  BY DEF CommandInv, Cmd!CommandTypeOK
<1>6. /\ process' \in [Commands -> {"none", "running", "exited"}]
      /\ \A d \in Commands \ {c} : process'[d] = process[d]
      /\ process'[c] # "none" => at \in {"running", "killing"}
  BY <1>5
<1>7. poolClosing # "returned"
  BY DEF CommandInv
<1>8. Cmd!CommandTypeOK'
  BY <1>4, <1>5, <1>6 DEF Cmd!CommandTypeOK
<1>9. \A d \in Commands : process'[d] # "none" => command'[d].at \in {"running", "killing"}
  BY <1>4, <1>6 DEF CommandInv
<1> QED BY <1>7, <1>8, <1>9 DEF CommandInv

LEMMA CommandStep ==
    ASSUME CommandInv, Cmd!CommandNext
    PROVE  CommandInv'
<1> USE DEF CommandInv, Cmd!CommandTypeOK, Cmd!Over
<1>1. ASSUME NEW c \in Commands, Cmd!NewCmd(c) \/ Cmd!Close(c) \/ Cmd!CommandGoesOn(c) \/ Cmd!PauseTerminated(c) \/ Cmd!ProcessExits(c)
      PROVE  CommandInv'
  <2>1. CASE Cmd!NewCmd(c)
    BY <2>1, CommandMoves DEF Cmd!NewCmd
  <2>2. CASE Cmd!Close(c)
    <3> DEFINE b == command[c]  q == [b EXCEPT !.terminate = TRUE]
    <3>1. command' = [command EXCEPT ![c] = q] /\ UNCHANGED <<process, poolClosing>>
      BY <2>2 DEF Cmd!Close
    <3>2. b \in [at : {"new", "starting", "running", "killing", "pausing", "ended"}, restart : BOOLEAN, terminate : BOOLEAN]
      BY DEF b
    <3>3. /\ q \in [at : {"new", "starting", "running", "killing", "pausing", "ended"}, restart : BOOLEAN, terminate : BOOLEAN]
          /\ q.at = b.at
      <4> HIDE DEF b, CommandInv
      <4> QED BY <3>2
    <3> HIDE DEF q
    <3> QED BY <3>1, <3>3
  <2>3. CASE Cmd!StartFails(c) \/ Cmd!Exited(c)
    <3>1. PICK at \in {"pausing", "ended"} : Cmd!Becomes(c, at)
      BY <2>3 DEF Cmd!StartFails, Cmd!Exited, Cmd!AfterExit
    <3> QED BY <2>3, <3>1, CommandMoves DEF Cmd!StartFails, Cmd!Exited
  <2>4. CASE Cmd!Starts(c)
    BY <2>4, CommandMoves DEF Cmd!Starts
  <2>5. CASE Cmd!Terminated(c)
    BY <2>5, CommandMoves DEF Cmd!Terminated
  <2>6. CASE Cmd!Killed(c)
    BY <2>6, CommandMoves DEF Cmd!Killed
  <2>7. CASE Cmd!PauseOver(c) \/ Cmd!PauseTerminated(c)
    BY <2>7, CommandMoves DEF Cmd!PauseOver, Cmd!PauseTerminated
  <2>8. CASE Cmd!ProcessExits(c)
    BY <2>8 DEF Cmd!ProcessExits
  <2> QED BY <1>1, <2>1, <2>2, <2>3, <2>4, <2>5, <2>6, <2>7, <2>8 DEF Cmd!CommandGoesOn
<1>2. CASE Cmd!PoolClose \/ Cmd!PoolCloseReturns
  BY <1>2 DEF Cmd!PoolClose, Cmd!PoolCloseReturns
<1> QED BY <1>1, <1>2 DEF Cmd!CommandNext

-----------------------------------------------------------------------------
(* The authentication manager.                                             *)

RequestTypes ==
    [at : {"none", "asking", "locking", "getting", "got", "verifying", "granted", "denied"},
     credential : 0 .. MaxKeys, now : 0 .. MaxClock, promised : 0 .. MaxKeys, keys : 0 .. MaxKeys]

(* What was promised is what the external server has, at most, or what is  *)
(* cached, unless that is older than anybody takes.                        *)
PromiseInv ==
    /\ method = "internal" => promised <= keys
    /\ method = "http" => promised = 0
    /\ method = "jwt" => promised <= jwks /\ (lastRefresh # 0 => promised <= keys)
    /\ RefreshPeriod <= authClock

(* Whoever fetches keys has the mutex, and so nothing is promised before   *)
(* they are there.                                                         *)
RequestInv(r) ==
    LET q == request[r] IN
    /\ authMutex = r <=> q.at \in {"getting", "got"}
    /\ q.promised <= promised
    /\ q.at = "asking" => method = "http"
    /\ q.at = "locking" => method # "http" /\ RefreshPeriod <= q.now
    /\ q.at \in {"getting", "got", "verifying"} => method = "jwt" /\ RefreshPeriod <= q.now
    /\ q.at = "got" => promised <= q.keys
    /\ q.at = "verifying" => q.promised <= q.keys
    /\ q.at = "granted" => q.promised <= q.credential

AuthInv ==
    /\ method \in {"internal", "http", "jwt"} /\ authMutex \in Requests \cup {"free"}
    /\ keys \in 0 .. MaxKeys /\ jwks \in 0 .. MaxKeys /\ promised \in 0 .. MaxKeys
    /\ lastRefresh \in 0 .. MaxClock /\ authClock \in 0 .. MaxClock
    /\ request \in [Requests -> RequestTypes]
    /\ PromiseInv
    /\ \A r \in Requests : RequestInv(r)

LEMMA AuthFirst == Aut!AuthInit => AuthInv
  BY MediaAssumption DEF AuthInv, PromiseInv, RequestInv, RequestTypes, Aut!AuthInit, Aut!NoRequest, Aut!AuthAssumption

(* A step that changes one request.                                        *)
LEMMA RequestStep ==
    ASSUME AuthInv, NEW r \in Requests, NEW q \in RequestTypes, request' = [request EXCEPT ![r] = q],
           UNCHANGED <<method, jwks, authClock, promised>>,
           authMutex' = authMutex \/ (authMutex \in {r, "free"} /\ authMutex' \in {r, "free"}),
           keys' \in 0 .. MaxKeys, lastRefresh' \in 0 .. MaxClock, PromiseInv', RequestInv(r)'
    PROVE  AuthInv'
<1>0. "free" \notin Requests
  BY MediaAssumption DEF Aut!AuthAssumption
<1>1. ASSUME NEW o \in Requests \ {r}
      PROVE  RequestInv(o)'
  <2>1. request'[o] = request[o] /\ RequestInv(o) /\ (authMutex' = o <=> authMutex = o)
    BY <1>0 DEF AuthInv
  <2> QED BY <2>1 DEF RequestInv
<1>2. request' \in [Requests -> RequestTypes]
  BY DEF AuthInv
<1> QED BY <1>1, <1>2 DEF AuthInv

(* A request is judged.                                                    *)
LEMMA Judged ==
    ASSUME AuthInv, NEW r \in Requests, NEW v \in {"granted", "denied"}, Aut!Goes(r, v),
           request[r].at \notin {"getting", "got"},
           v = "granted" => request[r].promised <= request[r].credential,
           UNCHANGED <<method, authMutex, keys, lastRefresh, jwks, authClock, promised>>
    PROVE  AuthInv'
<1> DEFINE q == [request[r] EXCEPT !.at = v]
<1>1. request[r] \in RequestTypes /\ RequestInv(r) /\ request' = [request EXCEPT ![r] = q] /\ q \in RequestTypes
  BY DEF AuthInv, Aut!Goes, RequestTypes
<1>2. q.at = v /\ q.promised = request[r].promised /\ q.credential = request[r].credential /\ request'[r] = q
  BY <1>1 DEF AuthInv, RequestTypes
<1>3. PromiseInv' /\ RequestInv(r)'
  BY <1>1, <1>2 DEF AuthInv, PromiseInv, RequestInv
<1>4. keys' \in 0 .. MaxKeys /\ lastRefresh' \in 0 .. MaxClock
  BY DEF AuthInv
<1> HIDE DEF q
<1> QED BY <1>1, <1>3, <1>4, RequestStep

LEMMA AuthStep ==
    ASSUME AuthInv, Aut!AuthNext
    PROVE  AuthInv'
<1>0. MaxKeys \in Nat /\ MaxClock \in Nat /\ RefreshPeriod \in 0 .. MaxClock /\ "free" \notin Requests
  BY MediaAssumption DEF Aut!AuthAssumption
<1>1. ASSUME NEW r \in Requests, NEW c \in 0 .. MaxKeys, Aut!Authenticate(r, c)
      PROVE  AuthInv'
  <2> DEFINE q == [at |-> IF method = "http" THEN "asking" ELSE "locking",
                   credential |-> c, now |-> authClock, promised |-> promised, keys |-> 0]
  <2>1. q \in RequestTypes
    BY <1>0 DEF AuthInv, RequestTypes
  <2>2. /\ request' = [request EXCEPT ![r] = q] /\ request[r].at = "none"
        /\ UNCHANGED <<method, authMutex, keys, lastRefresh, jwks, authClock, promised>>
    BY <1>1 DEF Aut!Authenticate
  <2>3. PromiseInv' /\ RequestInv(r)'
    BY <2>1, <2>2 DEF AuthInv, PromiseInv, RequestInv
  <2>4. keys' \in 0 .. MaxKeys /\ lastRefresh' \in 0 .. MaxClock
    BY <2>2 DEF AuthInv
  <2> HIDE DEF q
  <2> QED BY <2>1, <2>2, <2>3, <2>4, RequestStep
<1>2. ASSUME NEW r \in Requests, Aut!RequestGoesOn(r)
      PROVE  AuthInv'
  <2>0. /\ request[r] \in RequestTypes /\ RequestInv(r) /\ request \in [Requests -> RequestTypes]
        /\ keys \in 0 .. MaxKeys /\ lastRefresh \in 0 .. MaxClock
    BY DEF AuthInv
  <2>1. CASE Aut!AuthenticateHTTP(r) \/ Aut!AuthenticateInternal(r) \/ Aut!Verify(r)
    <3>1. UNCHANGED <<method, authMutex, keys, lastRefresh, jwks, authClock, promised>>
      BY <2>1 DEF Aut!AuthenticateHTTP, Aut!AuthenticateInternal, Aut!Verify
    <3>2. request[r].at \notin {"getting", "got"}
      BY <2>1 DEF Aut!AuthenticateHTTP, Aut!AuthenticateInternal, Aut!Verify
    <3>3. CASE Aut!Goes(r, "denied")
      BY <3>1, <3>2, <3>3, Judged
    <3>4. CASE Aut!AuthenticateHTTP(r) /\ Aut!Goes(r, "granted")
      <4>1. method = "http"
        BY <2>0, <3>4 DEF Aut!AuthenticateHTTP, RequestInv
      <4>2. request[r].promised <= request[r].credential
        BY <1>0, <2>0, <4>1 DEF AuthInv, PromiseInv, RequestInv, RequestTypes
      <4> QED BY <3>1, <3>2, <3>4, <4>2, Judged
    <3>5. CASE Aut!AuthenticateInternal(r) /\ request[r].credential = keys
      <4>1. method = "internal" /\ Aut!Goes(r, "granted")
        BY <3>5 DEF Aut!AuthenticateInternal
      <4>2. request[r].promised <= request[r].credential
        BY <1>0, <2>0, <3>5, <4>1 DEF AuthInv, PromiseInv, RequestInv, RequestTypes
      <4> QED BY <3>1, <3>2, <4>1, <4>2, Judged
    <3>6. CASE Aut!AuthenticateInternal(r) /\ request[r].credential # keys
      <4>1. Aut!Goes(r, "denied")
        BY <3>6 DEF Aut!AuthenticateInternal
      <4> QED BY <3>3, <4>1
    <3>7. CASE Aut!Verify(r) /\ request[r].credential = request[r].keys
      <4>1. request[r].at = "verifying" /\ Aut!Goes(r, "granted")
        BY <3>7 DEF Aut!Verify
      <4>2. request[r].promised <= request[r].credential
        BY <2>0, <3>7, <4>1 DEF RequestInv
      <4> QED BY <3>1, <3>2, <4>1, <4>2, Judged
    <3>8. CASE Aut!Verify(r) /\ request[r].credential # request[r].keys
      <4>1. Aut!Goes(r, "denied")
        BY <3>8 DEF Aut!Verify
      <4> QED BY <3>3, <4>1
    <3>9. Aut!AuthenticateHTTP(r) => Aut!Goes(r, "granted") \/ Aut!Goes(r, "denied")
      BY DEF Aut!AuthenticateHTTP
    <3> QED BY <2>1, <3>3, <3>4, <3>5, <3>6, <3>7, <3>8, <3>9
  <2>2. CASE Aut!Cached(r)
    <3> DEFINE q == [request[r] EXCEPT !.at = "verifying", !.keys = keys]
    <3>1. /\ request' = [request EXCEPT ![r] = q] /\ request[r].at = "locking" /\ method = "jwt"
          /\ request[r].now < lastRefresh + RefreshPeriod
          /\ UNCHANGED <<method, authMutex, keys, lastRefresh, jwks, authClock, promised>>
      BY <2>2 DEF Aut!Cached, Aut!StillFresh
    <3>2. q \in RequestTypes
      BY <2>0 DEF RequestTypes, AuthInv
    <3>3. lastRefresh # 0 /\ request[r].promised <= keys
      BY <1>0, <2>0, <3>1 DEF RequestInv, AuthInv, PromiseInv, RequestTypes
    <3>4. PromiseInv' /\ RequestInv(r)'
      BY <2>0, <3>1, <3>3 DEF AuthInv, PromiseInv, RequestInv, RequestTypes
    <3> HIDE DEF q
    <3> QED BY <2>0, <3>1, <3>2, <3>4, RequestStep
  <2>3. CASE Aut!Get(r) \/ Aut!ServerAnswers(r)
    <3>1. PICK q \in {[request[r] EXCEPT !.at = "getting"], [request[r] EXCEPT !.at = "got", !.keys = jwks]} :
            /\ request' = [request EXCEPT ![r] = q]
            /\ method = "jwt" /\ RefreshPeriod <= request[r].now
            /\ authMutex' = r /\ authMutex \in {r, "free"}
            /\ UNCHANGED <<method, keys, lastRefresh, jwks, authClock, promised>>
      BY <2>0, <2>3 DEF Aut!Get, Aut!ServerAnswers, Aut!Goes, RequestInv
    <3>2. q \in RequestTypes
      BY <2>0 DEF RequestTypes, AuthInv
    <3>3. PromiseInv' /\ RequestInv(r)'
      BY <2>0, <3>1 DEF AuthInv, PromiseInv, RequestInv, RequestTypes
    <3> QED BY <2>0, <3>1, <3>2, <3>3, RequestStep
  <2>4. CASE Aut!GetFails(r)
    <3> DEFINE q == [request[r] EXCEPT !.at = "denied"]
    <3>1. /\ request' = [request EXCEPT ![r] = q] /\ authMutex' = "free" /\ authMutex = r
          /\ UNCHANGED <<method, keys, lastRefresh, jwks, authClock, promised>>
      BY <2>0, <2>4 DEF Aut!GetFails, Aut!Goes, RequestInv
    <3>2. q \in RequestTypes
      BY <2>0 DEF RequestTypes
    <3>3. PromiseInv' /\ RequestInv(r)'
      BY <1>0, <2>0, <3>1 DEF AuthInv, PromiseInv, RequestInv, RequestTypes
    <3> HIDE DEF q
    <3> QED BY <2>0, <3>1, <3>2, <3>3, RequestStep
  <2>5. CASE Aut!Got(r)
    <3> DEFINE q == [request[r] EXCEPT !.at = "verifying"]
    <3>1. /\ request' = [request EXCEPT ![r] = q] /\ authMutex' = "free" /\ authMutex = r
          /\ keys' = request[r].keys /\ lastRefresh' = request[r].now /\ request[r].at = "got"
          /\ UNCHANGED <<method, jwks, authClock, promised>>
      BY <2>0, <2>5 DEF Aut!Got, Aut!Goes, RequestInv
    <3>2. q \in RequestTypes
      BY <2>0 DEF RequestTypes
    <3>3. PromiseInv' /\ RequestInv(r)' /\ keys' \in 0 .. MaxKeys /\ lastRefresh' \in 0 .. MaxClock
      BY <1>0, <2>0, <3>1 DEF AuthInv, PromiseInv, RequestInv, RequestTypes
    <3> HIDE DEF q
    <3> QED BY <3>1, <3>2, <3>3, RequestStep
  <2> QED BY <1>2, <2>1, <2>2, <2>3, <2>4, <2>5 DEF Aut!RequestGoesOn
<1>3. CASE Aut!RefreshJWTJWKS
  <2>1. /\ method = "jwt" /\ authMutex = "free" /\ lastRefresh' = 0 /\ promised' = jwks
        /\ UNCHANGED <<method, authMutex, keys, jwks, authClock, request>>
    BY <1>3 DEF Aut!RefreshJWTJWKS
  <2>2. \A r \in Requests : RequestInv(r)'
    BY <1>0, <2>1 DEF AuthInv, PromiseInv, RequestInv, RequestTypes
  <2> QED BY <1>0, <2>1, <2>2 DEF AuthInv, PromiseInv
<1>4. CASE Aut!ReloadInternalUsers
  <2>1. /\ method = "internal" /\ keys < MaxKeys /\ keys' = keys + 1 /\ promised' = keys + 1
        /\ UNCHANGED <<method, authMutex, lastRefresh, jwks, authClock, request>>
    BY <1>4 DEF Aut!ReloadInternalUsers
  <2>2. \A r \in Requests : RequestInv(r)'
    BY <1>0, <2>1 DEF AuthInv, PromiseInv, RequestInv, RequestTypes
  <2> QED BY <1>0, <2>1, <2>2 DEF AuthInv, PromiseInv
<1>5. CASE Aut!KeysRotate \/ Aut!TimePasses
  <2>1. /\ jwks' \in {jwks, jwks + 1} /\ jwks' \in 0 .. MaxKeys
        /\ authClock' \in {authClock, authClock + 1} /\ authClock' \in 0 .. MaxClock
        /\ UNCHANGED <<method, authMutex, keys, lastRefresh, promised, request>>
    BY <1>0, <1>5 DEF Aut!KeysRotate, Aut!TimePasses, AuthInv
  <2>2. \A r \in Requests : RequestInv(r)'
    BY <2>1 DEF AuthInv, RequestInv
  <2> QED BY <1>0, <2>1, <2>2 DEF AuthInv, PromiseInv
<1> QED BY <1>1, <1>2, <1>3, <1>4, <1>5 DEF Aut!AuthNext

-----------------------------------------------------------------------------
(* The stream.                                                             *)

(* The formats whose writers are writing hold the mutex for reading, and   *)
(* have readers left only then.                                            *)
WriterInv(f) ==
    /\ writer[f].at = "writing" <=> f \in mutex.reading
    /\ writer[f].at # "writing" => writer[f].todo = {}
    /\ \A r \in writer[f].todo : reader[r] \in {"in", "failed", "removing"}

(* Who stops a reader holds the mutex, alone.                              *)
ReaderInv(r) ==
    /\ r \in mutex.held <=> reader[r] = "stopping"
    /\ r \in mutex.held => mutex.held = {r}
    /\ reader[r] \in {"out", "adding"} => routine[r] = "none"
    /\ reader[r] \in {"failed", "gone"} => routine[r] = "ended"
    /\ reader[r] \in {"in", "removing", "stopping"} => routine[r] # "none"

StreamTypes ==
    /\ mutex \in [reading : SUBSET Formats, pending : SUBSET Readers, held : SUBSET Readers]
    /\ writer \in [Formats -> [at : {"idle", "waiting", "writing"}, unit : Nat, todo : SUBSET Readers]]
    /\ reader \in [Readers -> {"out", "adding", "in", "failed", "removing", "stopping", "gone"}]
    /\ routine \in [Readers -> {"none", "pulling", "calling", "failing", "ended"}]

StreamInv ==
    /\ StreamTypes
    /\ mutex.held # {} => mutex.reading = {}
    /\ \A f \in Formats : WriterInv(f)
    /\ \A r \in Readers : ReaderInv(r)

LEMMA StreamFirst == Str!StreamInit => StreamInv
  BY DEF StreamInv, StreamTypes, WriterInv, ReaderInv, Str!StreamInit

LEMMA StreamStep ==
    ASSUME StreamInv, Str!StreamNext
    PROVE  StreamInv'
<1> USE DEF StreamInv
<1>1. ASSUME NEW f \in Formats, Str!WriteBegins(f) \/ Str!WriterGoesOn(f)
      PROVE  StreamInv'
  <2>0. /\ UNCHANGED <<reader, routine>> /\ mutex'.held = mutex.held /\ mutex'.pending = mutex.pending
        /\ StreamTypes' /\ mutex'.reading \ {f} = mutex.reading \ {f} /\ \A g \in Formats \ {f} : writer'[g] = writer[g]
    <3> USE DEF StreamTypes
    <3>1. CASE Str!WriteBegins(f)
      <4>1. /\ writer' = [writer EXCEPT ![f] = [at |-> "waiting", unit |-> @.unit + 1, todo |-> {}]]
            /\ UNCHANGED <<mutex, reader, routine>>
        BY <3>1 DEF Str!WriteBegins
      <4> QED BY <4>1
    <3>2. CASE Str!WriteLocked(f)
      <4>1. PICK given \in {Str!OnData, {}} : writer' = [writer EXCEPT ![f].at = "writing", ![f].todo = given]
        BY <3>2 DEF Str!WriteLocked
      <4>2. given \in SUBSET Readers
        BY DEF Str!OnData
      <4>3. writer' \in [Formats -> [at : {"idle", "waiting", "writing"}, unit : Nat, todo : SUBSET Readers]]
        <5>1. writer[f] \in [at : {"idle", "waiting", "writing"}, unit : Nat, todo : SUBSET Readers]
          OBVIOUS
        <5>2. /\ writer'[f] = [at |-> "writing", unit |-> writer[f].unit, todo |-> given]
              /\ DOMAIN writer' = Formats /\ \A g \in Formats \ {f} : writer'[g] = writer[g]
              /\ writer' = [g \in Formats |-> writer'[g]]
          BY <4>1, <5>1
        <5> QED BY <4>2, <5>1, <5>2
      <4>4. /\ mutex' = [mutex EXCEPT !.reading = @ \cup {f}] /\ f \in Formats
            /\ UNCHANGED <<reader, routine>>
        BY <3>2 DEF Str!WriteLocked
      <4>5. \A g \in Formats \ {f} : writer'[g] = writer[g]
        BY <4>1
      <4> QED BY <4>3, <4>4, <4>5
    <3>3. ASSUME NEW r \in Readers, Str!Push(f, r) PROVE <2>0!:
      BY <3>3 DEF Str!Push
    <3>4. CASE Str!WriteReturns(f)
      BY <3>4 DEF Str!WriteReturns
    <3> QED BY <1>1, <3>1, <3>2, <3>3, <3>4 DEF Str!WriterGoesOn
  <2>1. WriterInv(f)' /\ (mutex.held # {} => mutex'.reading = {})
    <3> USE DEF StreamTypes, WriterInv
    <3>1. CASE Str!WriteBegins(f)
      BY <3>1 DEF Str!WriteBegins
    <3>2. CASE Str!WriteLocked(f)
      <4>1. \A r \in Str!OnData : reader[r] \in {"in", "failed", "removing"}
        BY <3>2 DEF Str!WriteLocked, Str!CanRLock, Str!OnData, ReaderInv
      <4> QED BY <3>2, <4>1 DEF Str!WriteLocked, Str!CanRLock
    <3>3. ASSUME NEW r \in Readers, Str!Push(f, r) PROVE <2>1!:
      BY <3>3 DEF Str!Push
    <3>4. CASE Str!WriteReturns(f)
      BY <3>4 DEF Str!WriteReturns
    <3> QED BY <1>1, <3>1, <3>2, <3>3, <3>4 DEF Str!WriterGoesOn
  <2>2. \A g \in Formats \ {f} : WriterInv(g)'
    BY <2>0 DEF WriterInv
  <2>3. \A r \in Readers : ReaderInv(r)'
    BY <2>0 DEF ReaderInv
  <2> QED BY <2>0, <2>1, <2>2, <2>3
<1>2. CASE Str!BytesSent \/ Str!BytesSentReturns
  BY <1>2 DEF Str!BytesSent, Str!BytesSentReturns, StreamTypes, WriterInv, ReaderInv
<1>3. ASSUME NEW r \in Readers, Str!AddReader(r) \/ Str!OwnerGoesOn(r) \/ Str!RemoveReader(r) \/ Str!RoutineGoesOn(r)
      PROVE  StreamInv'
  <2>0. /\ UNCHANGED writer /\ mutex'.reading = mutex.reading /\ StreamTypes'
        /\ \A q \in Readers \ {r} : reader'[q] = reader[q] /\ routine'[q] = routine[q] /\ (q \in mutex'.held => q \in mutex.held)
    <3> USE DEF StreamTypes
    <3>1. CASE Str!AddReader(r) \/ Str!AddReaderReturns(r) \/ Str!ErrorTaken(r)
      BY <3>1 DEF Str!AddReader, Str!AddReaderReturns, Str!ErrorTaken, Str!Locks
    <3>2. CASE Str!RemoveReader(r) \/ Str!RemoveReaderReturns(r)
      BY <3>2 DEF Str!RemoveReader, Str!RemoveReaderReturns, Str!Locks
    <3>3. CASE Str!Stop(r)
      BY <3>3 DEF Str!Stop
    <3>4. CASE Str!RoutineGoesOn(r)
      BY <3>4 DEF Str!RoutineGoesOn, Str!PullUnit, Str!PullClosed, Str!CallbackReturns
    <3> QED BY <1>3, <3>1, <3>2, <3>3, <3>4 DEF Str!OwnerGoesOn
  <2>1. /\ ReaderInv(r)' /\ (mutex'.held # {} => mutex'.reading = {})
        /\ (mutex.reading # {} /\ reader[r] \in {"in", "failed", "removing"} => reader'[r] \in {"in", "failed", "removing"})
        /\ mutex'.held \in {mutex.held, {r}, {}} /\ (mutex'.held # mutex.held => mutex.held \subseteq {r})
    <3> USE <2>0 DEF StreamTypes, ReaderInv
    <3>1. CASE Str!AddReader(r) \/ Str!AddReaderReturns(r) \/ Str!ErrorTaken(r)
      BY <3>1 DEF Str!AddReader, Str!AddReaderReturns, Str!ErrorTaken, Str!Locks
    <3>2. CASE Str!RemoveReader(r)
      BY <3>2 DEF Str!RemoveReader, Str!Locks
    <3>3. CASE Str!Stop(r)
      BY <3>3 DEF Str!Stop, Str!CanLock
    <3>4. CASE Str!RemoveReaderReturns(r)
      BY <3>4 DEF Str!RemoveReaderReturns
    <3>5. CASE Str!RoutineGoesOn(r)
      BY <3>5 DEF Str!RoutineGoesOn, Str!PullUnit, Str!PullClosed, Str!CallbackReturns
    <3> QED BY <1>3, <3>1, <3>2, <3>3, <3>4, <3>5 DEF Str!OwnerGoesOn
  <2>2. \A q \in Readers \ {r} : ReaderInv(q)'
    BY <2>0, <2>1 DEF ReaderInv
  <2>3. \A f \in Formats : WriterInv(f)'
    BY <2>0, <2>1 DEF WriterInv, StreamTypes
  <2> QED BY <2>0, <2>1, <2>2, <2>3
<1> QED BY <1>1, <1>2, <1>3 DEF Str!StreamNext

-----------------------------------------------------------------------------
(* The peer connection.                                                    *)

PeerTypes ==
    /\ role \in {"publisher", "reader", "client"}
    /\ library \in [state : {"new", "negotiated", "connected", "disconnected", "failed", "closed"}, reconnects : Nat]
    /\ signal \in [Peer!Signals -> Nat]
    /\ changes \in [{"connected", "failed", "closed"} -> Nat]
    /\ candidates \in [at : {"no", "gathering", "blocked", "done"}, left : Nat]
    /\ track \in [Tracks -> {"none", "offered", "gathered", "reading", "closed", "dropped"}]

(* Each change of the state is told once, and what it closes counts until  *)
(* "closed" has been told.                                                 *)
SignalInv ==
    /\ signal["connected"] <= 1
    /\ library.state \notin {"failed", "closed"} => changes["failed"] = 0 /\ signal["failed"] = 0
    /\ ~Peer!Is("closed") => signal["failed"] + changes["failed"] <= 1
    /\ Peer!Is("closed") => signal["failed"] = 1 /\ library.state = "closed"
    /\ signal["closed"] + changes["closed"] <= 1
    /\ library.state # "closed" => signal["closed"] = 0 /\ changes["closed"] = 0

(* Candidates are searched for once.                                       *)
CandidateInv ==
    /\ user = "describing" => candidates.at = "no"
    /\ candidates.at # "done" => signal["gatheringDone"] = 0
    /\ signal["gatheringDone"] <= 1

(* run goes on when nothing can begin any more.                            *)
RunInv ==
    /\ run \in {"running", "closing", "closed", "done"}
    /\ run # "running" => library.state = "closed" /\ \A t \in Tracks : track[t] # "reading"
    /\ run \in {"closed", "done"} => candidates.at # "blocked" /\ \A t \in Tracks : track[t] # "offered"
    /\ run = "done" => Peer!Is("closed")

PeerInv == PeerTypes /\ SignalInv /\ CandidateInv /\ RunInv

LEMMA PeerFirst == Peer!PeerInit => PeerInv
  BY MediaAssumption DEF PeerInv, PeerTypes, SignalInv, CandidateInv, RunInv, Peer!PeerInit, Peer!PeerAssumption,
     Peer!Signals, Peer!Is

(* A step that touches no channel and neither the library nor run.         *)
LEMMA QuietPeerStep ==
    ASSUME PeerInv, UNCHANGED <<role, run, signal, library, changes>>,
           PeerTypes', CandidateInv',
           run # "running" => \A t \in Tracks : track[t] = "reading" \/ track'[t] # "reading",
           run \in {"closed", "done"} =>
               candidates'.at # "blocked" /\ \A t \in Tracks : track'[t] # "offered"
    PROVE  PeerInv'
<1>1. SignalInv'
  BY DEF PeerInv, SignalInv, Peer!Is
<1>2. RunInv'
  BY DEF PeerInv, RunInv, Peer!Is
<1> QED BY <1>1, <1>2 DEF PeerInv

(* A step that touches only the channels and the library.                  *)
LEMMA SignalStep ==
    ASSUME PeerInv, UNCHANGED <<role, user, run, candidates, track>>,
           signal' \in [Peer!Signals -> Nat], changes' \in [{"connected", "failed", "closed"} -> Nat],
           library' \in [state : {"new", "negotiated", "connected", "disconnected", "failed", "closed"}, reconnects : Nat],
           library.state = "closed" => library'.state = "closed",
           signal'["gatheringDone"] = signal["gatheringDone"], signal'["closed"] >= signal["closed"], SignalInv'
    PROVE  PeerInv'
<1>1. PeerTypes'
  BY DEF PeerInv, PeerTypes
<1>2. CandidateInv'
  BY DEF PeerInv, CandidateInv
<1>3. RunInv'
  <2>1. signal["closed"] \in Nat /\ signal'["closed"] \in Nat
    BY DEF PeerInv, PeerTypes, Peer!Signals
  <2>2. Peer!Is("closed") => Peer!Is("closed")'
    BY <2>1 DEF Peer!Is
  <2> QED BY <2>2 DEF PeerInv, RunInv
<1> QED BY <1>1, <1>2, <1>3 DEF PeerInv

(* What most steps of the user do.                                         *)
UserMoves ==
    /\ UNCHANGED <<role, run, signal, library, changes>>
    /\ \/ candidates' = candidates
       \/ candidates.at \in {"no", "blocked"} /\ candidates' = [candidates EXCEPT !.at = "gathering"]
    /\ user' = "describing" => user = "describing" /\ candidates' = candidates
    /\ track' = track \/ \E t \in Tracks : track' = [track EXCEPT ![t] = "gathered"]

LEMMA LibraryStep ==
    ASSUME PeerInv, Peer!LibraryCalls
    PROVE  PeerInv'
<1>0. PeerTypes /\ CandidateInv /\ RunInv /\ SignalInv
  BY DEF PeerInv
<1>1. ASSUME NEW s \in DOMAIN changes, Peer!OnConnectionStateChange(s)
      PROVE  PeerInv'
  <2>0. /\ s \in {"connected", "failed", "closed"} /\ changes[s] > 0 /\ changes' = [changes EXCEPT ![s] = @ - 1]
        /\ UNCHANGED <<role, told, owner, user, ctxDone, run, library, candidates, track>>
    BY <1>0, <1>1 DEF Peer!OnConnectionStateChange, PeerTypes
  <2>1. CASE Peer!Is("closed") \/ (s = "connected" /\ Peer!Is("connected"))
    <3>1. signal' = signal
      BY <1>1, <2>1 DEF Peer!OnConnectionStateChange
    <3>2. /\ signal' \in [Peer!Signals -> Nat] /\ changes' \in [{"connected", "failed", "closed"} -> Nat]
          /\ signal'["gatheringDone"] = signal["gatheringDone"] /\ signal'["closed"] = signal["closed"]
      BY <1>0, <2>0, <2>1, <3>1 DEF PeerTypes, Peer!Signals
    <3>3. SignalInv'
      BY <1>0, <2>0, <2>1, <3>1, <3>2 DEF PeerTypes, SignalInv, Peer!Is, Peer!Signals
    <3> QED BY <1>0, <2>0, <3>2, <3>3, SignalStep DEF PeerTypes, Peer!Signals
  <2>2. CASE ~Peer!Is("closed") /\ s = "connected" /\ ~Peer!Is("connected")
    <3>1. signal' = [signal EXCEPT !["connected"] = 1]
      BY <1>1, <2>2 DEF Peer!OnConnectionStateChange
    <3>2. /\ signal' \in [Peer!Signals -> Nat] /\ changes' \in [{"connected", "failed", "closed"} -> Nat]
          /\ signal'["gatheringDone"] = signal["gatheringDone"] /\ signal'["closed"] = signal["closed"]
      BY <1>0, <2>0, <2>2, <3>1 DEF PeerTypes, Peer!Signals
    <3>3. SignalInv'
      BY <1>0, <2>0, <2>2, <3>1, <3>2 DEF PeerTypes, SignalInv, Peer!Is, Peer!Signals
    <3> QED BY <1>0, <2>0, <3>2, <3>3, SignalStep DEF PeerTypes, Peer!Signals
  <2>3. CASE ~Peer!Is("closed") /\ s = "failed"
    <3>1. signal' = [signal EXCEPT !["failed"] = @ + 1]
      BY <1>1, <2>3 DEF Peer!OnConnectionStateChange
    <3>2. /\ signal' \in [Peer!Signals -> Nat] /\ changes' \in [{"connected", "failed", "closed"} -> Nat]
          /\ signal'["gatheringDone"] = signal["gatheringDone"] /\ signal'["closed"] = signal["closed"]
      BY <1>0, <2>0, <2>3, <3>1 DEF PeerTypes, Peer!Signals
    <3>3. SignalInv'
      BY <1>0, <2>0, <2>3, <3>1, <3>2 DEF PeerTypes, SignalInv, Peer!Is, Peer!Signals
    <3> QED BY <1>0, <2>0, <3>2, <3>3, SignalStep DEF PeerTypes, Peer!Signals
  <2>4. CASE ~Peer!Is("closed") /\ s = "closed"
    <3>1. signal' = [signal EXCEPT !["failed"] = IF @ > 0 THEN @ ELSE 1, !["closed"] = @ + 1]
      BY <1>1, <2>4 DEF Peer!OnConnectionStateChange
    <3>2. signal'["failed"] = 1 /\ signal'["closed"] = signal["closed"] + 1 /\ signal' \in [Peer!Signals -> Nat]
          /\ signal'["connected"] = signal["connected"] /\ signal'["gatheringDone"] = signal["gatheringDone"]
      BY <1>0, <2>4, <3>1 DEF PeerTypes, SignalInv, Peer!Signals
    <3>3. changes' \in [{"connected", "failed", "closed"} -> Nat] /\ changes'["closed"] = changes["closed"] - 1
          /\ changes'["failed"] = changes["failed"] /\ library.state = "closed"
      BY <1>0, <2>0, <2>4 DEF PeerTypes, SignalInv
    <3>4. SignalInv'
      BY <1>0, <2>0, <2>4, <3>2, <3>3 DEF PeerTypes, SignalInv, Peer!Is, Peer!Signals
    <3> QED BY <1>0, <2>0, <3>2, <3>3, <3>4, SignalStep DEF PeerTypes, Peer!Signals
  <2> QED BY <2>0, <2>1, <2>2, <2>3, <2>4
<1>2. CASE Peer!CandidateFound \/ Peer!CandidateSkipped
  <2>1. UNCHANGED <<role, user, run, signal, library, changes, track>>
    BY <1>2 DEF Peer!CandidateFound, Peer!CandidateSkipped
  <2>2. /\ candidates' \in [at : {"no", "gathering", "blocked", "done"}, left : Nat]
        /\ candidates.at \in {"gathering", "blocked"} /\ candidates'.at \in {"gathering", "blocked"}
        /\ library.state = "closed" => candidates'.at # "blocked"
    BY <1>0, <1>2 DEF Peer!CandidateFound, Peer!CandidateSkipped, PeerTypes
  <2>3. PeerTypes' /\ CandidateInv'
    BY <1>0, <2>1, <2>2 DEF PeerTypes, CandidateInv
  <2> QED BY <1>0, <2>1, <2>2, <2>3, QuietPeerStep DEF RunInv
<1>3. CASE Peer!GatheringDone
  <2>1. /\ UNCHANGED <<role, user, run, library, changes, track>> /\ candidates.at = "gathering" /\ library.state # "closed"
        /\ candidates' = [candidates EXCEPT !.at = "done"] /\ signal' = [signal EXCEPT !["gatheringDone"] = @ + 1]
    BY <1>3 DEF Peer!GatheringDone
  <2> QED BY <1>0, <2>1 DEF PeerInv, PeerTypes, SignalInv, CandidateInv, RunInv, Peer!Is, Peer!Signals
<1>4. ASSUME NEW t \in Tracks, Peer!TrackSkipped(t)
      PROVE  PeerInv'
  <2>1. /\ UNCHANGED <<role, user, run, signal, library, changes, candidates>>
        /\ track' = [track EXCEPT ![t] = "dropped"]
    BY <1>4 DEF Peer!TrackSkipped
  <2>2. PeerTypes' /\ CandidateInv'
    BY <1>0, <2>1 DEF PeerTypes, CandidateInv
  <2> QED BY <1>0, <2>1, <2>2, QuietPeerStep DEF RunInv, PeerTypes
<1> QED BY <1>1, <1>2, <1>3, <1>4 DEF Peer!LibraryCalls

LEMMA NetworkStep ==
    ASSUME PeerInv, Peer!NetworkSteps
    PROVE  PeerInv'
<1>0. PeerTypes /\ CandidateInv /\ RunInv /\ SignalInv
  BY DEF PeerInv
<1>1. ASSUME NEW state \in {"connected", "disconnected", "failed", "closed"}, Peer!Becomes(state, state),
             library.state \in {"negotiated", "connected", "disconnected"}
      PROVE  PeerInv'
  <2>1. /\ library' = [library EXCEPT !.state = state]
        /\ UNCHANGED <<role, told, owner, user, ctxDone, run, signal, candidates, track>>
    BY <1>1 DEF Peer!Becomes
  <2>2. CASE state = "disconnected"
    <3>1. changes' = changes
      BY <1>0, <1>1, <2>2 DEF Peer!Becomes, PeerTypes
    <3>2. SignalInv'
      BY <1>0, <1>1, <2>1, <2>2, <3>1 DEF PeerTypes, SignalInv, Peer!Is, Peer!Signals
    <3> QED BY <1>0, <1>1, <2>1, <3>1, <3>2, SignalStep DEF PeerTypes, Peer!Signals
  <2>3. CASE state # "disconnected"
    <3>1. /\ state \in {"connected", "failed", "closed"} /\ changes' = [changes EXCEPT ![state] = @ + 1]
          /\ library.state # "closed" /\ library.state # "failed"
      BY <1>0, <1>1, <2>3 DEF Peer!Becomes, PeerTypes
    <3>2. /\ library' \in [state : {"new", "negotiated", "connected", "disconnected", "failed", "closed"}, reconnects : Nat]
          /\ library'.state = state
          /\ changes' \in [{"connected", "failed", "closed"} -> Nat] /\ changes'[state] = changes[state] + 1
          /\ \A s \in {"connected", "failed", "closed"} \ {state} : changes'[s] = changes[s]
      BY <1>0, <2>1, <3>1 DEF PeerTypes
    <3>3. SignalInv'
      <4>1. signal["closed"] = 0 /\ signal["failed"] = 0 /\ changes["failed"] = 0 /\ changes["closed"] = 0 /\ signal["connected"] <= 1
        BY <1>0, <3>1 DEF SignalInv
      <4>2. signal' = signal
        BY <2>1
      <4> QED BY <3>1, <3>2, <4>1, <4>2 DEF SignalInv, Peer!Is
    <3>4. signal \in [Peer!Signals -> Nat] /\ signal' = signal /\ signal["closed"] \in Nat
      BY <1>0, <2>1 DEF PeerTypes, Peer!Signals
    <3> QED BY <2>1, <3>1, <3>2, <3>3, <3>4, SignalStep
  <2> QED BY <2>2, <2>3
<1>2. CASE Peer!Reconnects
  <2>1. /\ library' = [state |-> "connected", reconnects |-> library.reconnects - 1] /\ library.reconnects > 0
        /\ library.state = "disconnected" /\ changes' = [changes EXCEPT !["connected"] = @ + 1]
        /\ UNCHANGED <<role, told, owner, user, ctxDone, run, signal, candidates, track>>
    BY <1>2 DEF Peer!Reconnects
  <2>2. /\ library' \in [state : {"new", "negotiated", "connected", "disconnected", "failed", "closed"}, reconnects : Nat]
        /\ changes' \in [{"connected", "failed", "closed"} -> Nat]
    BY <1>0, <2>1 DEF PeerTypes
  <2>3. SignalInv'
    BY <1>0, <2>1, <2>2 DEF PeerTypes, SignalInv, Peer!Is, Peer!Signals
  <2> QED BY <1>0, <2>1, <2>2, <2>3, SignalStep DEF PeerTypes, Peer!Signals
<1>3. CASE Peer!Connects \/ Peer!Disconnects \/ Peer!ConnectionFails \/ Peer!OtherSideCloses
  BY <1>1, <1>3 DEF Peer!Connects, Peer!Disconnects, Peer!ConnectionFails, Peer!OtherSideCloses
<1>4. ASSUME NEW t \in Tracks, Peer!OnTrack(t)
      PROVE  PeerInv'
  <2>1. /\ UNCHANGED <<role, user, run, signal, library, changes, candidates>> /\ library.state = "connected"
        /\ track' = [track EXCEPT ![t] = "offered"]
    BY <1>4 DEF Peer!OnTrack
  <2>2. PeerTypes' /\ CandidateInv'
    BY <1>0, <2>1 DEF PeerTypes, CandidateInv
  <2> QED BY <1>0, <2>1, <2>2, QuietPeerStep DEF RunInv, PeerTypes
<1> QED BY <1>2, <1>3, <1>4 DEF Peer!NetworkSteps

LEMMA UserStep ==
    ASSUME PeerInv, Peer!UserGoesOn \/ Peer!Told
    PROVE  PeerInv'
<1>0. PeerTypes /\ CandidateInv /\ RunInv /\ SignalInv
  BY DEF PeerInv
<1>1. CASE Peer!Negotiated
  <2>1. /\ UNCHANGED <<role, run, signal, changes, candidates, track>> /\ user' = "connecting"
        /\ library' = [library EXCEPT !.state = IF @ = "new" THEN "negotiated" ELSE @]
    BY <1>1 DEF Peer!Negotiated, Peer!Goes
  <2>2. library' \in [state : {"new", "negotiated", "connected", "disconnected", "failed", "closed"}, reconnects : Nat]
        /\ library'.state = IF library.state = "new" THEN "negotiated" ELSE library.state
    BY <1>0, <2>1 DEF PeerTypes
  <2> QED BY <1>0, <2>1, <2>2 DEF PeerInv, PeerTypes, SignalInv, CandidateInv, RunInv, Peer!Is, Peer!Signals
<1>2. ASSUME ~Peer!Negotiated
      PROVE  UserMoves
  <2>1. CASE Peer!Describes
    BY <1>0, <2>1 DEF UserMoves, Peer!Describes, Peer!Goes, CandidateInv
  <2>2. CASE Peer!CandidateTaken
    BY <1>0, <2>2 DEF UserMoves, Peer!CandidateTaken, Peer!Goes, CandidateInv
  <2>3. CASE Peer!GatherIncomingTracks
    <3>1. /\ UNCHANGED <<role, run, signal, library, changes, candidates>>
          /\ track' = track \/ \E t \in Tracks : track' = [track EXCEPT ![t] = "gathered"]
      BY <2>3 DEF Peer!GatherIncomingTracks, Peer!Goes
    <3>2. user' # "describing"
      BY <2>3 DEF Peer!GatherIncomingTracks, Peer!Goes
    <3> QED BY <3>1, <3>2 DEF UserMoves
  <2>4. CASE Peer!Errs \/ Peer!Added \/ Peer!StartReadingSkipped \/ Peer!CtxDone \/ Peer!Leaves
    BY <2>4 DEF UserMoves, Peer!Errs, Peer!Added, Peer!StartReadingSkipped, Peer!CtxDone, Peer!Leaves, Peer!Goes, Peer!Stays
  <2>5. CASE Peer!WaitUntilConnected
    <3>1. user' # "describing"
      BY <2>5 DEF Peer!WaitUntilConnected, Peer!Goes
    <3> QED BY <2>5, <3>1 DEF UserMoves, Peer!WaitUntilConnected, Peer!Goes, Peer!Stays
  <2>6. CASE Peer!Told
    BY <2>6 DEF UserMoves, Peer!Told
  <2> QED BY <1>2, <2>1, <2>2, <2>3, <2>4, <2>5, <2>6 DEF Peer!UserGoesOn
<1>3. ASSUME ~Peer!Negotiated
      PROVE  PeerInv'
  <2>1. candidates' \in [at : {"no", "gathering", "blocked", "done"}, left : Nat] /\ candidates'.at \in {candidates.at, "gathering"}
        /\ (candidates'.at # candidates.at => candidates.at # "done" /\ candidates'.at = "gathering")
    BY <1>0, <1>2, <1>3 DEF PeerTypes, UserMoves
  <2>2. track' \in [Tracks -> {"none", "offered", "gathered", "reading", "closed", "dropped"}]
        /\ \A t \in Tracks : track'[t] \in {track[t], "gathered"}
    BY <1>0, <1>2, <1>3 DEF PeerTypes, UserMoves
  <2>3. PeerTypes'
    BY <1>0, <1>2, <1>3, <2>1, <2>2 DEF PeerTypes, UserMoves
  <2>4. CandidateInv'
    BY <1>0, <1>2, <1>3, <2>1 DEF CandidateInv, UserMoves
  <2> QED BY <1>0, <1>2, <1>3, <2>1, <2>2, <2>3, <2>4, QuietPeerStep DEF RunInv, UserMoves
<1> QED BY <1>1, <1>3

LEMMA PeerRunStep ==
    ASSUME PeerInv, Peer!PeerGoesOn
    PROVE  PeerInv'
<1>0. PeerTypes /\ CandidateInv /\ RunInv /\ SignalInv
  BY DEF PeerInv
<1>1. CASE Peer!Close \/ Peer!CloseReturns
  <2>1. UNCHANGED <<role, user, run, signal, library, changes, candidates, track>>
    BY <1>1 DEF Peer!Close, Peer!CloseReturns
  <2>2. PeerTypes' /\ CandidateInv'
    BY <1>0, <2>1 DEF PeerTypes, CandidateInv
  <2> QED BY <1>0, <2>1, <2>2, QuietPeerStep DEF RunInv
<1>2. CASE Peer!StartReading
  <2>1. /\ run = "running" /\ user' = "reading" /\ UNCHANGED <<role, run, signal, library, changes, candidates>>
        /\ track' = [t \in Tracks |-> IF track[t] = "gathered" THEN "reading" ELSE track[t]]
    BY <1>2 DEF Peer!StartReading, Peer!Goes
  <2>2. PeerTypes' /\ CandidateInv'
    BY <1>0, <2>1 DEF PeerTypes, CandidateInv
  <2> QED BY <1>0, <2>1, <2>2, QuietPeerStep DEF RunInv
<1>3. CASE Peer!RunTerminated
  <2>1. /\ run = "running" /\ run' = "closing" /\ UNCHANGED <<role, user, signal, candidates>>
        /\ track' = [t \in Tracks |-> IF track[t] \in {"gathered", "reading"} THEN "closed" ELSE track[t]]
        /\ library' = [library EXCEPT !.state = "closed"]
        /\ changes' = IF library.state = "closed" THEN changes ELSE [changes EXCEPT !["closed"] = @ + 1]
    BY <1>3 DEF Peer!RunTerminated
  <2>2. /\ changes' \in [{"connected", "failed", "closed"} -> Nat] /\ changes'["failed"] = changes["failed"]
        /\ changes'["closed"] = changes["closed"] + (IF library.state = "closed" THEN 0 ELSE 1)
    BY <1>0, <2>1 DEF PeerTypes
  <2>3. PeerTypes' /\ CandidateInv' /\ RunInv'
    BY <1>0, <2>1, <2>2 DEF PeerTypes, CandidateInv, RunInv
  <2>4. SignalInv'
    BY <1>0, <2>1, <2>2 DEF PeerTypes, SignalInv, Peer!Is, Peer!Signals
  <2> QED BY <2>3, <2>4 DEF PeerInv
<1>4. CASE Peer!GracefulCloseReturns \/ Peer!RunEnds
  <2>1. /\ UNCHANGED <<role, user, signal, library, changes, candidates, track>>
        /\ \/ run = "closing" /\ run' = "closed" /\ candidates.at # "blocked" /\ \A t \in Tracks : track[t] # "offered"
           \/ run = "closed" /\ run' = "done" /\ Peer!Is("closed")
    BY <1>4 DEF Peer!GracefulCloseReturns, Peer!RunEnds
  <2>2. RunInv'
    BY <1>0, <2>1 DEF RunInv, Peer!Is
  <2>3. PeerTypes' /\ SignalInv' /\ CandidateInv'
    BY <1>0, <2>1 DEF PeerTypes, SignalInv, CandidateInv, Peer!Is
  <2> QED BY <2>2, <2>3 DEF PeerInv
<1> QED BY <1>1, <1>2, <1>3, <1>4 DEF Peer!PeerGoesOn

LEMMA PeerStep == PeerInv /\ Peer!PeerNext => PeerInv'
  BY LibraryStep, NetworkStep, UserStep, PeerRunStep DEF Peer!PeerNext

LEMMA PeerEnds == PeerInv => Peer!ClosedForGood
  BY DEF PeerInv, PeerTypes, SignalInv, CandidateInv, RunInv, Peer!ClosedForGood, Peer!Is, Peer!Signals

-----------------------------------------------------------------------------
(* Sets of numbers.                                                        *)

LEMMA SmallestIsThere ==
    ASSUME NEW S \in SUBSET Nat, S # {}
    PROVE  \E m \in S : \A x \in S : m <= x
<1> DEFINE R == OpToRel(<, Nat)
<1>1. \A x, y \in Nat : x < y => <<x, y>> \in R
  BY DEF OpToRel
<1>2. IsWellFoundedOn(R, Nat)
  BY NatLessThanWellFounded
<1> HIDE DEF R
<1>3. PICK m \in S : \A x \in S : ~(<<x, m>> \in R)
  BY <1>2, WFMin
<1>4. ASSUME NEW x \in S PROVE m <= x
  <2>1. x \in Nat /\ m \in Nat
    OBVIOUS
  <2>2. ~(x < m)
    BY <1>1, <1>3, <2>1
  <2> QED BY <2>1, <2>2
<1> QED BY <1>4

LEMMA GreatestIsThere ==
    ASSUME NEW n \in Nat, NEW S \in SUBSET (0 .. n), S # {}
    PROVE  \E m \in S : \A x \in S : x <= m
<1> DEFINE T == {n - x : x \in S}
<1>1. T \in SUBSET Nat /\ T # {}
  <2>1. \A x \in S : n - x \in Nat
    OBVIOUS
  <2> QED BY <2>1
<1>2. PICK d \in T : \A y \in T : d <= y
  <2> HIDE DEF T
  <2> QED BY <1>1, SmallestIsThere
<1>3. PICK m \in S : d = n - m
  OBVIOUS
<1>4. \A x \in S : x <= m
  <2>1. ASSUME NEW x \in S PROVE x <= m
    <3>1. n - m <= n - x
      BY <1>2, <1>3
    <3> QED BY <3>1
  <2> QED BY <2>1
<1> QED BY <1>4

-----------------------------------------------------------------------------
(* What the operations on a segment leave on disk.                         *)

Losses == {"nothing", "sample", "part"}
SegmentTypes ==
    [start : Int, end : Int, number : Int, file : {"none", "open", "closed"}, part : [start : Int, end : Int],
     last : Int, lost : Losses]
FileTypes ==
    [stream : Nat, number : Int, header : BOOLEAN, duration : Int, written : Int, lost : Losses,
     creates : Nat, completes : Nat, failed : BOOLEAN]
Disks == [Rec!Times -> FileTypes]

(* A file to which nothing is written any more, one that is open, and one  *)
(* that is not, or not again, there.                                       *)
IsCompleted(file) ==
    /\ file.completes <= 1 /\ file.completes <= file.creates
    /\ ~file.failed => file.creates <= 1 /\ file.completes = file.creates
IsOpened(file) ==
    /\ file.completes = 0 /\ file.creates >= 1
    /\ ~file.failed => file.creates = 1
IsToCome(file) == file.completes = 0 /\ (file.creates = 0 \/ file.failed)

FileInv(seg, d) ==
    /\ seg.file = "none" => IsToCome(d[seg.start])
    /\ seg.file = "open" => IsOpened(d[seg.start])
    /\ seg.file = "closed" => IsCompleted(d[seg.start])

(* What an operation on a segment may leave: its own file, and no other,   *)
(* has changed.                                                            *)
OthersKept(seg, d, e) == e \in Disks /\ \A s \in Rec!Times \ {seg.start} : e[s] = d[s]
Writes(seg, d, r) ==
    /\ r \in [ok : BOOLEAN, seg : SegmentTypes, disk : Disks]
    /\ r.seg.start = seg.start
    /\ OthersKept(seg, d, r.disk)
    /\ FileInv(r.seg, r.disk)

LEMMA FileOfIs ==
    ASSUME NEW seg, seg.start \in Rec!Times, NEW d \in Disks, NEW f \in FileTypes
    PROVE  OthersKept(seg, d, Rec!FileOf(seg, d, f)) /\ Rec!FileOf(seg, d, f)[seg.start] = f
BY DEF Rec!FileOf, Disks, OthersKept

LEMMA NumbersAre ==
    ASSUME NEW seg \in SegmentTypes, seg.start \in Rec!Times, NEW d \in Disks
    PROVE  /\ d[seg.start] \in FileTypes
           /\ d[seg.start].creates \in Nat /\ d[seg.start].completes \in Nat /\ d[seg.start].failed \in BOOLEAN
           /\ d[seg.start].written \in Int /\ seg.number \in Int /\ seg.end - seg.start \in Int /\ seg.last \in Int
           /\ seg.lost \in Losses /\ seg.part.end - seg.start \in Int /\ seg.file \in {"none", "open", "closed"}
<1>1. d[seg.start] \in FileTypes
  BY DEF Disks
<1>2. seg.part.end \in Int
  BY DEF SegmentTypes
<1> QED BY <1>1, <1>2 DEF FileTypes, SegmentTypes

(* A file that has just been created.                                      *)
IsNew(f, i, n, b, c, k, x) ==
    /\ f \in FileTypes
    /\ f.stream = i /\ f.number = n /\ f.header = b /\ f.creates = c /\ f.completes = k /\ f.failed = x
    /\ f.duration = -1 /\ f.written = 0 /\ f.lost = "nothing"

LEMMA NewFileIs ==
    ASSUME NEW i \in Nat, NEW n \in Int, NEW b \in BOOLEAN, NEW c \in Nat, NEW k \in Nat, NEW x \in BOOLEAN, NEW f,
           f = [Rec!NoFile EXCEPT !.stream = i, !.number = n, !.header = b, !.creates = c, !.completes = k, !.failed = x]
    PROVE  IsNew(f, i, n, b, c, k, x)
<1> DEFINE g0 == Rec!NoFile
           g1 == [g0 EXCEPT !.stream = i]
           g2 == [g1 EXCEPT !.number = n]
           g3 == [g2 EXCEPT !.header = b]
           g4 == [g3 EXCEPT !.creates = c]
           g5 == [g4 EXCEPT !.completes = k]
           g6 == [g5 EXCEPT !.failed = x]
<1>1. g0 \in FileTypes /\ IsNew(g0, 0, 0, FALSE, 0, 0, FALSE)
  BY DEF Rec!NoFile, FileTypes, Losses, IsNew
<1>2. f = g6
  OBVIOUS
<1> HIDE DEF g0
<1>3. IsNew(g1, i, 0, FALSE, 0, 0, FALSE)
  BY <1>1 DEF IsNew, FileTypes
<1> HIDE DEF g1
<1>4. IsNew(g2, i, n, FALSE, 0, 0, FALSE)
  BY <1>3 DEF IsNew, FileTypes
<1> HIDE DEF g2
<1>5. IsNew(g3, i, n, b, 0, 0, FALSE)
  BY <1>4 DEF IsNew, FileTypes
<1> HIDE DEF g3
<1>6. IsNew(g4, i, n, b, c, 0, FALSE)
  BY <1>5 DEF IsNew, FileTypes
<1> HIDE DEF g4
<1>7. IsNew(g5, i, n, b, c, k, FALSE)
  BY <1>6 DEF IsNew, FileTypes
<1> HIDE DEF g5
<1>8. IsNew(g6, i, n, b, c, k, x)
  BY <1>7 DEF IsNew, FileTypes
<1> HIDE DEF g6
<1> QED BY <1>2, <1>8

LEMMA CreateIs ==
    ASSUME NEW seg \in SegmentTypes, seg.start \in Rec!Times, NEW d \in Disks, instance.id \in Nat, NEW header \in BOOLEAN,
           NEW e, e = Rec!Create(seg, d, header)
    PROVE  /\ OthersKept(seg, d, e)
           /\ e[seg.start].stream = instance.id /\ e[seg.start].number = seg.number /\ (e[seg.start].header <=> header)
           /\ e[seg.start].duration = -1 /\ e[seg.start].written = 0 /\ e[seg.start].lost = "nothing"
           /\ e[seg.start].creates = d[seg.start].creates + 1
           /\ e[seg.start].completes = d[seg.start].completes
           /\ e[seg.start].failed <=> d[seg.start].failed \/ ~header
<1> DEFINE i == instance.id  n == seg.number  c == d[seg.start].creates + 1  k == d[seg.start].completes
           x == d[seg.start].failed \/ ~header
           h == header
           f == [Rec!NoFile EXCEPT !.stream = i, !.number = n, !.header = h, !.creates = c, !.completes = k,
                                   !.failed = x]
<1>1. i \in Nat /\ n \in Int /\ c \in Nat /\ k \in Nat /\ x \in BOOLEAN /\ h \in BOOLEAN
  BY NumbersAre
<1>2. e = Rec!FileOf(seg, d, f)
  BY Zenon DEF Rec!Create
<1>3. (x <=> d[seg.start].failed \/ ~header) /\ (h <=> header)
  OBVIOUS
<1>4. IsNew(f, i, n, h, c, k, x)
  <2> DEFINE g == f
  <2>1. g = [Rec!NoFile EXCEPT !.stream = i, !.number = n, !.header = h, !.creates = c, !.completes = k, !.failed = x]
    OBVIOUS
  <2> HIDE DEF i, n, c, k, x, h, g
  <2>2. IsNew(g, i, n, h, c, k, x)
    BY <1>1, <2>1, NewFileIs
  <2> QED BY <2>2 DEF g
<1> HIDE DEF i, n, c, k, x, h, f
<1>5. OthersKept(seg, d, e) /\ e[seg.start] = f
  BY <1>2, <1>4, FileOfIs DEF IsNew
<1>6. (f.header <=> header) /\ (f.failed <=> d[seg.start].failed \/ ~header)
  BY Zenon, <1>3, <1>4 DEF IsNew
<1>7. /\ f.stream = i /\ f.number = n /\ f.duration = -1 /\ f.written = 0 /\ f.lost = "nothing"
      /\ f.creates = c /\ f.completes = k
  BY <1>4 DEF IsNew
<1> QED BY <1>5, <1>6, <1>7 DEF i, n, c, k

(* One that differs from what was there in one or two things.              *)
SameFile(x, f) == f.stream = x.stream /\ f.number = x.number /\ f.header = x.header /\ f.creates = x.creates

LEMMA WriteFailedIs ==
    ASSUME NEW seg \in SegmentTypes, seg.start \in Rec!Times, NEW d \in Disks, NEW e, e = Rec!WriteFailed(seg, d)
    PROVE  /\ OthersKept(seg, d, e) /\ SameFile(d[seg.start], e[seg.start])
           /\ e[seg.start].completes = d[seg.start].completes /\ e[seg.start].failed
           /\ e[seg.start].duration = d[seg.start].duration /\ e[seg.start].written = d[seg.start].written
           /\ e[seg.start].lost = d[seg.start].lost
<1> DEFINE x == d[seg.start]
           f == [x EXCEPT !.failed = TRUE]
<1>1. x \in FileTypes /\ e = Rec!FileOf(seg, d, f)
  BY NumbersAre DEF Rec!WriteFailed
<1> HIDE DEF x
<1>2. /\ f \in FileTypes /\ SameFile(x, f) /\ f.completes = x.completes /\ f.failed /\ f.duration = x.duration
      /\ f.written = x.written /\ f.lost = x.lost
  BY <1>1 DEF FileTypes, SameFile
<1> HIDE DEF f
<1>3. OthersKept(seg, d, e) /\ e[seg.start] = f
  BY <1>1, <1>2, FileOfIs
<1> QED BY <1>2, <1>3 DEF x

LEMMA CompleteIs ==
    ASSUME NEW seg \in SegmentTypes, seg.start \in Rec!Times, NEW d \in Disks, NEW e, e = Rec!Complete(seg, d)
    PROVE  /\ OthersKept(seg, d, e) /\ SameFile(d[seg.start], e[seg.start])
           /\ e[seg.start].completes = d[seg.start].completes + 1
           /\ e[seg.start].failed = d[seg.start].failed
           /\ e[seg.start].duration = d[seg.start].duration /\ e[seg.start].written = d[seg.start].written
           /\ e[seg.start].lost = d[seg.start].lost
<1> DEFINE x == d[seg.start]
           c == x.completes + 1
           f == [x EXCEPT !.completes = c]
<1>1. x \in FileTypes /\ c \in Nat /\ e = Rec!FileOf(seg, d, f)
  BY NumbersAre DEF Rec!Complete
<1> HIDE DEF x, c
<1>2. /\ f \in FileTypes /\ SameFile(x, f) /\ f.completes = c /\ f.failed = x.failed /\ f.duration = x.duration
      /\ f.written = x.written /\ f.lost = x.lost
  BY <1>1 DEF FileTypes, SameFile
<1> HIDE DEF f
<1>3. OthersKept(seg, d, e) /\ e[seg.start] = f
  BY <1>1, <1>2, FileOfIs
<1> QED BY <1>2, <1>3 DEF x, c

(* The duration in the header of a file, or what is read from its last     *)
(* part.                                                                   *)
LEMMA PutIs ==
    ASSUME NEW seg \in SegmentTypes, seg.start \in Rec!Times, NEW d \in Disks, NEW e,
           \/ e = Rec!Put(seg, d)
           \/ e = Rec!NotPut(seg, d)
    PROVE  /\ OthersKept(seg, d, e) /\ SameFile(d[seg.start], e[seg.start])
           /\ e[seg.start].completes = d[seg.start].completes
           /\ e[seg.start].written = d[seg.start].written /\ e[seg.start].lost = seg.lost
           /\ e = Rec!Put(seg, d) =>
                  e[seg.start].duration = seg.end - seg.start /\ e[seg.start].failed = d[seg.start].failed
           /\ e = Rec!NotPut(seg, d) => e[seg.start].duration = seg.last /\ e[seg.start].failed
<1> DEFINE x == d[seg.start]
           i == seg.end - seg.start  k == seg.last  b == seg.lost
           y == [x EXCEPT !.duration = i]
           z == [x EXCEPT !.duration = k]
           f == [y EXCEPT !.lost = b]
           z2 == [z EXCEPT !.lost = b]
           g == [z2 EXCEPT !.failed = TRUE]
<1>1. x \in FileTypes /\ i \in Int /\ k \in Int /\ b \in Losses
  BY NumbersAre
<1>2. Rec!Put(seg, d) = Rec!FileOf(seg, d, f) /\ Rec!NotPut(seg, d) = Rec!FileOf(seg, d, g)
  BY Zenon DEF Rec!Put, Rec!NotPut
<1> HIDE DEF x, i, k, b
<1>3. /\ y \in FileTypes /\ SameFile(x, y) /\ y.completes = x.completes /\ y.failed = x.failed /\ y.duration = i
      /\ y.written = x.written
  BY <1>1 DEF FileTypes, SameFile
<1>4. /\ z \in FileTypes /\ SameFile(x, z) /\ z.completes = x.completes /\ z.duration = k /\ z.written = x.written
  BY <1>1 DEF FileTypes, SameFile
<1> HIDE DEF y, z
<1>5. /\ f \in FileTypes /\ SameFile(x, f) /\ f.completes = x.completes /\ f.failed = x.failed /\ f.duration = i
      /\ f.written = x.written /\ f.lost = b
  BY <1>1, <1>3 DEF FileTypes, SameFile
<1>6. /\ z2 \in FileTypes /\ SameFile(x, z2) /\ z2.completes = x.completes /\ z2.duration = k /\ z2.written = x.written
      /\ z2.lost = b
  BY <1>1, <1>4 DEF FileTypes, SameFile
<1> HIDE DEF f, z2
<1>7. /\ g \in FileTypes /\ SameFile(x, g) /\ g.completes = x.completes /\ g.failed /\ g.duration = k
      /\ g.written = x.written /\ g.lost = b
  BY <1>1, <1>6 DEF FileTypes, SameFile
<1> HIDE DEF g
<1>8. /\ OthersKept(seg, d, Rec!Put(seg, d)) /\ Rec!Put(seg, d)[seg.start] = f
      /\ OthersKept(seg, d, Rec!NotPut(seg, d)) /\ Rec!NotPut(seg, d)[seg.start] = g
  BY <1>2, <1>5, <1>7, FileOfIs
<1> QED BY <1>5, <1>7, <1>8 DEF x, i, k, b

LEMMA PartsOfResult ==
    ASSUME NEW ok, NEW seg, NEW d
    PROVE  Rec!Result(ok, seg, d).ok = ok /\ Rec!Result(ok, seg, d).seg = seg /\ Rec!Result(ok, seg, d).disk = d
BY DEF Rec!Result

LEMMA ResultsAre ==
    ASSUME NEW ok \in BOOLEAN, NEW seg \in SegmentTypes, NEW d \in Disks
    PROVE  /\ Rec!Result(ok, seg, d) \in [ok : BOOLEAN, seg : SegmentTypes, disk : Disks]
           /\ Rec!Result(ok, seg, d).ok = ok /\ Rec!Result(ok, seg, d).seg = seg /\ Rec!Result(ok, seg, d).disk = d
BY DEF Rec!Result

LEMMA ResultWrites ==
    ASSUME NEW seg \in SegmentTypes, NEW d \in Disks, NEW x \in SegmentTypes, x.start = seg.start,
           NEW e, OthersKept(seg, d, e), FileInv(x, e), NEW ok \in BOOLEAN
    PROVE  Writes(seg, d, Rec!Result(ok, x, e))
<1> DEFINE r == Rec!Result(ok, x, e)
<1>1. e \in Disks
  BY DEF OthersKept
<1>2. r \in [ok : BOOLEAN, seg : SegmentTypes, disk : Disks] /\ r.seg = x /\ r.disk = e
  BY <1>1, ResultsAre
<1> HIDE DEF r
<1>3. Writes(seg, d, r)
  BY Zenon, <1>2 DEF Writes
<1> QED BY <1>3 DEF r

(* What is left as it is.                                                  *)
LEMMA LeftAlone ==
    ASSUME NEW seg \in SegmentTypes, NEW d \in Disks, FileInv(seg, d), NEW ok \in BOOLEAN
    PROVE  Writes(seg, d, Rec!Result(ok, seg, d)) /\ Rec!Result(ok, seg, d).ok = ok /\ Rec!Result(ok, seg, d).seg = seg
BY ResultsAre, ResultWrites DEF OthersKept

(* A change of a segment that is not one of its start or its file.         *)
LEMMA Changed ==
    ASSUME NEW seg \in SegmentTypes, NEW d \in Disks, NEW q, Writes(seg, d, q), NEW ok \in BOOLEAN,
           NEW x \in SegmentTypes, x.start = q.seg.start, x.file = q.seg.file
    PROVE  Writes(seg, d, Rec!Result(ok, x, q.disk))
<1>1. q.disk \in Disks /\ OthersKept(seg, d, q.disk) /\ FileInv(x, q.disk) /\ x.start = seg.start
  BY DEF Writes, FileInv
<1> QED BY <1>1, ResultWrites

-----------------------------------------------------------------------------
(* A part that is written into a file.                                     *)
SameSegment(seg, other) ==
    /\ other.start = seg.start /\ other.end = seg.end /\ other.number = seg.number
    /\ seg.file # "none" => other.file # "none"
IsAppended(seg, d, r) ==
    /\ OthersKept(seg, d, r.disk) /\ SameFile(d[seg.start], r.disk[seg.start])
    /\ r.disk[seg.start].completes = d[seg.start].completes
    /\ r.disk[seg.start].duration = d[seg.start].duration /\ r.disk[seg.start].lost = d[seg.start].lost
    /\ r.seg \in SegmentTypes /\ r.seg.part = seg.part /\ r.seg.file = seg.file /\ SameSegment(seg, r.seg)
    /\ \/ /\ r.ok = TRUE /\ r.seg.lost = seg.lost /\ r.seg.last = seg.part.end - seg.start
          /\ r.disk[seg.start].written = Rec!Later(seg.part.end - seg.start, d[seg.start].written)
          /\ r.disk[seg.start].failed = d[seg.start].failed
       \/ /\ r.ok = FALSE /\ r.seg.lost = "part" /\ (r.seg.last = seg.last \/ r.seg.last = seg.part.end - seg.start)
          /\ r.disk[seg.start].written = d[seg.start].written /\ r.disk[seg.start].failed

LEMMA AppendIs ==
    ASSUME NEW seg \in SegmentTypes, seg.start \in Rec!Times, NEW d \in Disks, NEW r \in Rec!Append(seg, d)
    PROVE  IsAppended(seg, d, r)
<1> DEFINE x == d[seg.start]
           end == seg.part.end - seg.start
           k == Rec!Later(end, x.written)
           f == [x EXCEPT !.written = k]
           added == [seg EXCEPT !.last = end]
           lost == [seg EXCEPT !.lost = "part"]
           torn == [lost EXCEPT !.last = end]
           e == Rec!FileOf(seg, d, f)
           failed == Rec!WriteFailed(seg, d)
<1>1. \/ r = Rec!Result(TRUE, added, e)
      \/ r = Rec!Result(FALSE, lost, failed)
      \/ r = Rec!Result(FALSE, torn, failed)
  <2>1. f = [x EXCEPT !.written = Rec!Later(end, @)]
    BY NumbersAre DEF FileTypes
  <2>2. r \in {Rec!Result(TRUE, added, Rec!FileOf(seg, d, [x EXCEPT !.written = Rec!Later(end, @)])),
               Rec!Result(FALSE, lost, failed), Rec!Result(FALSE, torn, failed)}
    BY Zenon DEF Rec!Append
  <2> QED BY <2>1, <2>2
<1>2. x \in FileTypes /\ end \in Int /\ k \in Int
  BY NumbersAre DEF Rec!Later
<1> HIDE DEF x, end, k
<1>3. /\ f \in FileTypes /\ SameFile(x, f) /\ f.completes = x.completes /\ f.failed = x.failed /\ f.duration = x.duration
      /\ f.lost = x.lost /\ f.written = k
  BY <1>2 DEF FileTypes, SameFile
<1> HIDE DEF f
<1>4. OthersKept(seg, d, e) /\ e[seg.start] = f
  BY <1>3, FileOfIs
<1>5. /\ added \in SegmentTypes /\ SameSegment(seg, added) /\ added.part = seg.part /\ added.file = seg.file
      /\ added.lost = seg.lost /\ added.last = end
  BY <1>2 DEF SegmentTypes, SameSegment
<1>6. /\ lost \in SegmentTypes /\ SameSegment(seg, lost) /\ lost.part = seg.part /\ lost.file = seg.file
      /\ lost.lost = "part" /\ lost.last = seg.last
  BY DEF SegmentTypes, SameSegment, Losses
<1> HIDE DEF lost
<1>7. /\ torn \in SegmentTypes /\ SameSegment(seg, torn) /\ torn.part = seg.part /\ torn.file = seg.file
      /\ torn.lost = "part" /\ torn.last = end
  BY <1>2, <1>6 DEF SegmentTypes, SameSegment
<1>8. /\ OthersKept(seg, d, failed) /\ SameFile(x, failed[seg.start])
      /\ failed[seg.start].completes = x.completes /\ failed[seg.start].failed
      /\ failed[seg.start].duration = x.duration /\ failed[seg.start].written = x.written
      /\ failed[seg.start].lost = x.lost
  BY WriteFailedIs DEF x
<1> HIDE DEF e, failed, added, torn
<1>9. CASE r = Rec!Result(TRUE, added, e)
  <2>1. r.ok = TRUE /\ r.seg = added /\ r.disk = e
    BY <1>9 DEF Rec!Result
  <2> QED BY <1>3, <1>4, <1>5, <2>1 DEF IsAppended, x, end, k
<1>10. CASE r = Rec!Result(FALSE, lost, failed)
  <2>1. r.ok = FALSE /\ r.seg = lost /\ r.disk = failed
    BY <1>10 DEF Rec!Result
  <2> QED BY <1>6, <1>8, <2>1 DEF IsAppended, x, end
<1>11. CASE r = Rec!Result(FALSE, torn, failed)
  <2>1. r.ok = FALSE /\ r.seg = torn /\ r.disk = failed
    BY <1>11 DEF Rec!Result
  <2> QED BY <1>7, <1>8, <2>1 DEF IsAppended, x, end
<1> QED BY <1>1, <1>9, <1>10, <1>11

LEMMA AppendWrites ==
    ASSUME NEW seg \in SegmentTypes, seg.start \in Rec!Times, NEW d \in Disks, NEW x \in SegmentTypes, x.start = seg.start,
           x.file = "open", NEW e, OthersKept(seg, d, e), IsOpened(e[seg.start]), NEW r \in Rec!Append(x, e)
    PROVE  Writes(seg, d, r)
<1>1. IsAppended(x, e, r) /\ e \in Disks
  BY AppendIs DEF OthersKept
<1>2. r \in [ok : BOOLEAN, seg : SegmentTypes, disk : Disks]
  <2>1. \E ok \in BOOLEAN : \E y, c : r = Rec!Result(ok, y, c)
    <3>1. \A y1, y2, y3, c1, c2 : r \in {Rec!Result(TRUE, y1, c1), Rec!Result(FALSE, y2, c2), Rec!Result(FALSE, y3, c2)} =>
                                      \E ok \in BOOLEAN : \E y, c : r = Rec!Result(ok, y, c)
      OBVIOUS
    <3> QED BY Zenon, <3>1 DEF Rec!Append
  <2>2. PICK ok \in BOOLEAN : \E y, c : r = Rec!Result(ok, y, c)
    BY <2>1
  <2>3. r = Rec!Result(ok, r.seg, r.disk)
    BY <2>2, PartsOfResult
  <2> QED BY <1>1, <2>3, ResultsAre DEF IsAppended, OthersKept
<1>3. OthersKept(seg, d, r.disk)
  BY <1>1 DEF IsAppended, OthersKept
<1>4. IsOpened(r.disk[seg.start])
  <2>1. r.disk[seg.start].failed \in BOOLEAN /\ e[seg.start].failed \in BOOLEAN
    BY <1>1, <1>3 DEF OthersKept, Disks, FileTypes
  <2> QED BY <1>1, <2>1 DEF IsAppended, SameFile, IsOpened
<1>5. r.seg.start = seg.start /\ FileInv(r.seg, r.disk)
  BY <1>1, <1>4 DEF IsAppended, SameSegment, FileInv
<1> QED BY <1>2, <1>3, <1>5 DEF Writes

LEMMA ClosePartWrites ==
    ASSUME NEW seg \in SegmentTypes, seg.start \in Rec!Times, NEW d \in Disks, FileInv(seg, d), instance.id \in Nat,
           NEW r \in Rec!ClosePart(seg, d)
    PROVE  Writes(seg, d, r)
<1> DEFINE open == [seg EXCEPT !.file = "open"]
<1>1. open \in SegmentTypes /\ open.start = seg.start /\ open.file = "open"
  BY DEF SegmentTypes
<1>2. d[seg.start] \in FileTypes /\ OthersKept(seg, d, d)
  BY NumbersAre DEF OthersKept
<1>3. seg.file \in {"none", "open", "closed"}
  BY DEF SegmentTypes
<1>4. CASE seg.file = "none"
  <2> DEFINE bad == Rec!Create(seg, d, FALSE)  good == Rec!Create(seg, d, TRUE)
  <2>1. \/ r = Rec!Result(FALSE, seg, d)
        \/ r = Rec!Result(FALSE, seg, bad)
        \/ r \in Rec!Append(open, good)
    BY <1>4 DEF Rec!ClosePart
  <2>2. IsToCome(d[seg.start]) /\ d[seg.start].creates \in Nat
    BY <1>2, <1>4 DEF FileInv, FileTypes
  <2>3. /\ OthersKept(seg, d, bad) /\ bad[seg.start].completes = d[seg.start].completes /\ bad[seg.start].failed
        /\ OthersKept(seg, d, good) /\ good[seg.start].completes = d[seg.start].completes
        /\ good[seg.start].creates = d[seg.start].creates + 1
        /\ good[seg.start].failed <=> d[seg.start].failed
    <3>1. /\ OthersKept(seg, d, bad) /\ bad[seg.start].completes = d[seg.start].completes
          /\ bad[seg.start].failed <=> d[seg.start].failed \/ ~FALSE
      BY CreateIs
    <3>2. /\ OthersKept(seg, d, good) /\ good[seg.start].completes = d[seg.start].completes
          /\ good[seg.start].creates = d[seg.start].creates + 1
          /\ good[seg.start].failed <=> d[seg.start].failed \/ ~TRUE
      BY CreateIs
    <3> QED BY <3>1, <3>2
  <2> HIDE DEF bad, good, open
  <2>4. CASE r = Rec!Result(FALSE, seg, d)
    BY <2>4, LeftAlone
  <2>5. CASE r = Rec!Result(FALSE, seg, bad)
    <3>1. FileInv(seg, bad)
      BY <1>4, <2>2, <2>3 DEF FileInv, IsToCome
    <3> QED BY <2>3, <2>5, <3>1, ResultWrites
  <2>6. CASE r \in Rec!Append(open, good)
    <3>1. IsOpened(good[seg.start])
      BY <2>2, <2>3 DEF IsOpened, IsToCome
    <3> QED BY <1>1, <2>3, <2>6, <3>1, AppendWrites
  <2> QED BY <2>1, <2>4, <2>5, <2>6
<1>5. CASE seg.file = "open"
  <2>1. r \in Rec!Append(seg, d)
    BY <1>5 DEF Rec!ClosePart
  <2>2. IsOpened(d[seg.start])
    BY <1>5 DEF FileInv
  <2> QED BY <1>2, <1>5, <2>1, <2>2, AppendWrites
<1>6. CASE seg.file = "closed"
  <2>1. r = Rec!Result(FALSE, seg, d)
    BY <1>6 DEF Rec!ClosePart
  <2> QED BY <2>1, LeftAlone
<1> QED BY <1>3, <1>4, <1>5, <1>6

(* MPEG-TS: the buffer that is written.                                    *)
LEMMA BrokenIs ==
    ASSUME NEW seg \in SegmentTypes
    PROVE  /\ [seg EXCEPT !.part = Rec!NoPart] \in SegmentTypes /\ [seg EXCEPT !.part = Rec!NoPart].file = seg.file
           /\ SameSegment(seg, [seg EXCEPT !.part = Rec!NoPart]) /\ [seg EXCEPT !.part = Rec!NoPart].part = Rec!NoPart
           /\ [seg EXCEPT !.file = "open"] \in SegmentTypes /\ [seg EXCEPT !.file = "open"].file = "open"
           /\ SameSegment(seg, [seg EXCEPT !.file = "open"]) /\ [seg EXCEPT !.file = "open"].part = seg.part
<1>1. Rec!NoPart \in [start : Int, end : Int]
  BY DEF Rec!NoPart
<1> QED BY <1>1 DEF SegmentTypes, SameSegment

LEMMA FlushWrites ==
    ASSUME NEW seg \in SegmentTypes, seg.start \in Rec!Times, NEW d \in Disks, FileInv(seg, d), instance.id \in Nat,
           NEW r \in Rec!Flush(seg, d)
    PROVE  Writes(seg, d, r)
<1> DEFINE open == [seg EXCEPT !.file = "open"]
           broken == [seg EXCEPT !.part = Rec!NoPart]
           both == [open EXCEPT !.part = Rec!NoPart]
           good == Rec!Create(seg, d, TRUE)
           bad == Rec!WriteFailed(seg, good)
           failed == Rec!WriteFailed(seg, d)
<1>1. /\ open \in SegmentTypes /\ open.start = seg.start /\ open.file = "open"
      /\ broken \in SegmentTypes /\ broken.start = seg.start /\ broken.file = seg.file
  BY BrokenIs DEF SameSegment
<1>2. both \in SegmentTypes /\ both.start = seg.start /\ both.file = "open"
  <2> HIDE DEF open
  <2> QED BY <1>1, BrokenIs DEF SameSegment
<1>3. /\ seg.file = "none" => \/ r = Rec!Result(FALSE, broken, d)
                              \/ r = Rec!Result(FALSE, both, bad)
                              \/ r = Rec!Result(TRUE, open, good)
      /\ seg.file = "open" => r = Rec!Result(TRUE, seg, d) \/ r = Rec!Result(FALSE, broken, failed)
      /\ seg.file = "closed" => r = Rec!Result(TRUE, seg, d)
  BY DEF Rec!Flush
<1>4. d[seg.start] \in FileTypes /\ d[seg.start].creates \in Nat /\ seg.file \in {"none", "open", "closed"}
      /\ OthersKept(seg, d, d)
  BY NumbersAre DEF OthersKept
<1>5. /\ OthersKept(seg, d, good) /\ good[seg.start].completes = d[seg.start].completes
      /\ good[seg.start].creates = d[seg.start].creates + 1
      /\ good[seg.start].failed <=> d[seg.start].failed
  <2>1. /\ OthersKept(seg, d, good) /\ good[seg.start].completes = d[seg.start].completes
        /\ good[seg.start].creates = d[seg.start].creates + 1
        /\ good[seg.start].failed <=> d[seg.start].failed \/ ~TRUE
    BY CreateIs
  <2> QED BY <2>1
<1>6. /\ OthersKept(seg, d, failed) /\ failed[seg.start].creates = d[seg.start].creates
      /\ failed[seg.start].completes = d[seg.start].completes /\ failed[seg.start].failed
  BY WriteFailedIs DEF SameFile
<1> HIDE DEF open, broken, both, good, failed
<1>7. /\ OthersKept(seg, d, bad) /\ bad[seg.start].creates = good[seg.start].creates
      /\ bad[seg.start].completes = good[seg.start].completes /\ bad[seg.start].failed
  <2>1. good \in Disks
    BY <1>5 DEF OthersKept
  <2>2. /\ OthersKept(seg, good, bad) /\ bad[seg.start].creates = good[seg.start].creates
        /\ bad[seg.start].completes = good[seg.start].completes /\ bad[seg.start].failed
    BY <2>1, WriteFailedIs DEF SameFile
  <2> QED BY <1>5, <2>2 DEF OthersKept
<1> HIDE DEF bad
<1>8. CASE seg.file = "none"
  <2>1. IsToCome(d[seg.start])
    BY <1>8 DEF FileInv
  <2>2. FileInv(broken, d) /\ FileInv(open, good) /\ FileInv(both, bad)
    BY <1>1, <1>2, <1>4, <1>5, <1>7, <1>8, <2>1 DEF FileInv, IsToCome, IsOpened
  <2> QED BY <1>1, <1>2, <1>3, <1>4, <1>5, <1>7, <1>8, <2>2, ResultWrites
<1>9. CASE seg.file = "open"
  <2>1. FileInv(broken, failed)
    BY <1>1, <1>6, <1>9 DEF FileInv, IsOpened
  <2>2. Writes(seg, d, Rec!Result(FALSE, broken, failed))
    BY <1>1, <1>6, <2>1, ResultWrites
  <2>3. Writes(seg, d, Rec!Result(TRUE, seg, d))
    BY LeftAlone
  <2> QED BY <1>3, <1>9, <2>2, <2>3
<1>10. CASE seg.file = "closed"
  BY <1>3, <1>10, LeftAlone
<1> QED BY <1>4, <1>8, <1>9, <1>10

(* A file that is closed: what its header says, and whether the hook ran.  *)
IsClosed(q, r) ==
    LET seg == q.seg
        x == q.disk[seg.start]
        y == r.disk[seg.start]
    IN  /\ OthersKept(seg, q.disk, r.disk) /\ SameFile(x, y)
        /\ r.seg \in SegmentTypes /\ r.seg.file = "closed" /\ SameSegment(seg, r.seg) /\ r.seg.part = seg.part
        /\ r.seg.lost = seg.lost /\ r.seg.last = seg.last
        /\ r.ok \in BOOLEAN /\ (r.ok => q.ok)
        /\ y.written = x.written /\ y.lost = seg.lost
        /\ y.duration = seg.end - seg.start \/ (format = "fmp4" /\ y.duration = seg.last /\ y.failed)
        /\ r.ok => y.duration = seg.end - seg.start
        /\ y.failed \/ (~x.failed /\ y.completes = x.completes + 1)
        /\ y.completes = x.completes \/ y.completes = x.completes + 1

LEMMA CloseFileIs ==
    ASSUME NEW q, q \in [ok : BOOLEAN, seg : SegmentTypes, disk : Disks], q.seg.start \in Rec!Times, q.seg.file = "open",
           NEW r \in Rec!CloseFile(q)
    PROVE  IsClosed(q, r) /\ r \in [ok : BOOLEAN, seg : SegmentTypes, disk : Disks]
<1> DEFINE seg == q.seg  d == q.disk  x == d[seg.start]
           closed == [seg EXCEPT !.file = "closed"]
           put == Rec!Put(seg, d)  notPut == Rec!NotPut(seg, d)
           e1 == Rec!Complete(seg, put)  e2 == Rec!WriteFailed(seg, put)  e3 == Rec!Complete(seg, notPut)
<1>1. seg \in SegmentTypes /\ d \in Disks /\ q.ok \in BOOLEAN /\ x \in FileTypes /\ seg.start \in Rec!Times
      /\ x.failed \in BOOLEAN
  BY NumbersAre
<1>2. \/ r = Rec!Result(q.ok, closed, e1)
      \/ r = Rec!Result(FALSE, closed, e2)
      \/ format = "fmp4" /\ r = Rec!Result(FALSE, closed, e3)
      \/ format = "fmp4" /\ r = Rec!Result(FALSE, closed, notPut)
  BY DEF Rec!CloseFile
<1> HIDE DEF seg, d
<1>3. /\ closed \in SegmentTypes /\ closed.file = "closed" /\ SameSegment(seg, closed) /\ closed.part = seg.part
      /\ closed.lost = seg.lost /\ closed.last = seg.last /\ closed.start = seg.start
  BY <1>1 DEF SegmentTypes, SameSegment
<1>4. /\ OthersKept(seg, d, put) /\ SameFile(x, put[seg.start]) /\ put[seg.start].completes = x.completes
      /\ put[seg.start].written = x.written /\ put[seg.start].lost = seg.lost
      /\ put[seg.start].duration = seg.end - seg.start /\ put[seg.start].failed = x.failed
      /\ put \in Disks
  <2>1. /\ OthersKept(seg, d, put) /\ SameFile(x, put[seg.start]) /\ put[seg.start].completes = x.completes
        /\ put[seg.start].written = x.written /\ put[seg.start].lost = seg.lost
        /\ put = Rec!Put(seg, d) => put[seg.start].duration = seg.end - seg.start /\ put[seg.start].failed = x.failed
    BY <1>1, PutIs
  <2> QED BY <2>1 DEF OthersKept
<1>5. /\ OthersKept(seg, d, notPut) /\ SameFile(x, notPut[seg.start]) /\ notPut[seg.start].completes = x.completes
      /\ notPut[seg.start].written = x.written /\ notPut[seg.start].lost = seg.lost
      /\ notPut[seg.start].duration = seg.last /\ notPut[seg.start].failed
      /\ notPut \in Disks
  <2>1. /\ OthersKept(seg, d, notPut) /\ SameFile(x, notPut[seg.start]) /\ notPut[seg.start].completes = x.completes
        /\ notPut[seg.start].written = x.written /\ notPut[seg.start].lost = seg.lost
        /\ notPut = Rec!NotPut(seg, d) => notPut[seg.start].duration = seg.last /\ notPut[seg.start].failed
    BY <1>1, PutIs
  <2> QED BY <2>1 DEF OthersKept
<1> HIDE DEF put, notPut
<1>6. /\ OthersKept(seg, put, e1) /\ SameFile(put[seg.start], e1[seg.start])
      /\ e1[seg.start].completes = put[seg.start].completes + 1 /\ e1[seg.start].failed = put[seg.start].failed
      /\ e1[seg.start].duration = put[seg.start].duration /\ e1[seg.start].written = put[seg.start].written
      /\ e1[seg.start].lost = put[seg.start].lost
  BY <1>1, <1>4, CompleteIs
<1>7. /\ OthersKept(seg, put, e2) /\ SameFile(put[seg.start], e2[seg.start])
      /\ e2[seg.start].completes = put[seg.start].completes /\ e2[seg.start].failed
      /\ e2[seg.start].duration = put[seg.start].duration /\ e2[seg.start].written = put[seg.start].written
      /\ e2[seg.start].lost = put[seg.start].lost
  BY <1>1, <1>4, WriteFailedIs
<1>8. /\ OthersKept(seg, notPut, e3) /\ SameFile(notPut[seg.start], e3[seg.start])
      /\ e3[seg.start].completes = notPut[seg.start].completes + 1 /\ e3[seg.start].failed = notPut[seg.start].failed
      /\ e3[seg.start].duration = notPut[seg.start].duration /\ e3[seg.start].written = notPut[seg.start].written
      /\ e3[seg.start].lost = notPut[seg.start].lost
  <2>1. notPut \in Disks
    BY <1>5
  <2> QED BY <1>1, <2>1, CompleteIs
<1> HIDE DEF e1, e2, e3, closed
<1>9. ASSUME NEW ok \in BOOLEAN, ok => q.ok, NEW e, OthersKept(seg, d, e), SameFile(x, e[seg.start]),
             e[seg.start].written = x.written, e[seg.start].lost = seg.lost,
             \/ e[seg.start].duration = seg.end - seg.start
             \/ format = "fmp4" /\ e[seg.start].duration = seg.last /\ e[seg.start].failed,
             ok => e[seg.start].duration = seg.end - seg.start,
             e[seg.start].failed \/ (~x.failed /\ e[seg.start].completes = x.completes + 1),
             e[seg.start].completes = x.completes \/ e[seg.start].completes = x.completes + 1,
             r = Rec!Result(ok, closed, e)
      PROVE  IsClosed(q, r) /\ r \in [ok : BOOLEAN, seg : SegmentTypes, disk : Disks]
  <2>1. e \in Disks
    BY <1>9 DEF OthersKept
  <2>2. r \in [ok : BOOLEAN, seg : SegmentTypes, disk : Disks] /\ r.ok = ok /\ r.seg = closed /\ r.disk = e
    BY <1>3, <1>9, <2>1, ResultsAre
  <2>3. IsClosed(q, r)
    BY <1>3, <1>9, <2>2 DEF IsClosed, seg, d
  <2> QED BY <2>2, <2>3
<1>10. CASE r = Rec!Result(q.ok, closed, e1)
  <2>1. OthersKept(seg, d, e1) /\ SameFile(x, e1[seg.start])
    BY <1>4, <1>6 DEF OthersKept, SameFile
  <2>2. e1[seg.start].failed \/ (~x.failed /\ e1[seg.start].completes = x.completes + 1)
    BY <1>1, <1>4, <1>6
  <2> QED BY <1>1, <1>4, <1>6, <1>9, <1>10, <2>1, <2>2
<1>11. CASE r = Rec!Result(FALSE, closed, e2)
  <2>1. OthersKept(seg, d, e2) /\ SameFile(x, e2[seg.start])
    BY <1>4, <1>7 DEF OthersKept, SameFile
  <2> QED BY <1>4, <1>7, <1>9, <1>11, <2>1
<1>12. CASE format = "fmp4" /\ r = Rec!Result(FALSE, closed, e3)
  <2>1. OthersKept(seg, d, e3) /\ SameFile(x, e3[seg.start])
    BY <1>5, <1>8 DEF OthersKept, SameFile
  <2> QED BY <1>5, <1>8, <1>9, <1>12, <2>1
<1>13. CASE format = "fmp4" /\ r = Rec!Result(FALSE, closed, notPut)
  BY <1>5, <1>9, <1>13
<1> QED BY <1>2, <1>10, <1>11, <1>12, <1>13

(* Once the file of a segment is closed nothing is open any more.          *)
LEMMA CloseFileWrites ==
    ASSUME NEW seg \in SegmentTypes, seg.start \in Rec!Times, NEW d \in Disks, NEW q, Writes(seg, d, q),
           NEW r \in Rec!CloseFile(q)
    PROVE  Writes(seg, d, r) /\ r.seg.file # "open"
<1>1. /\ q \in [ok : BOOLEAN, seg : SegmentTypes, disk : Disks] /\ q.seg.start = seg.start /\ FileInv(q.seg, q.disk)
      /\ OthersKept(seg, d, q.disk)
  BY DEF Writes
<1>2. q.ok \in BOOLEAN /\ q.seg \in SegmentTypes /\ q.disk \in Disks /\ q.seg.file \in {"none", "open", "closed"}
  BY <1>1 DEF SegmentTypes
<1>3. CASE q.seg.file = "none"
  BY <1>3 DEF Rec!CloseFile
<1>4. CASE q.seg.file = "open"
  <2> DEFINE x == q.disk[seg.start]  y == r.disk[seg.start]
  <2>1. IsClosed(q, r) /\ r \in [ok : BOOLEAN, seg : SegmentTypes, disk : Disks]
    BY <1>1, <1>4, CloseFileIs
  <2>2. /\ OthersKept(q.seg, q.disk, r.disk) /\ SameFile(x, y) /\ r.seg.file = "closed" /\ r.seg.start = seg.start
        /\ y.failed \/ (~x.failed /\ y.completes = x.completes + 1)
        /\ y.completes = x.completes \/ y.completes = x.completes + 1
    BY <1>1, <2>1 DEF IsClosed, SameSegment
  <2>3. OthersKept(seg, d, r.disk)
    BY <1>1, <2>2 DEF OthersKept
  <2>4. IsOpened(x) /\ x.creates \in Nat
    BY <1>1, <1>2, <1>4 DEF FileInv, Disks, FileTypes
  <2> HIDE DEF x, y
  <2>5. IsCompleted(y)
    BY <2>2, <2>4 DEF IsOpened, IsCompleted, SameFile
  <2>6. FileInv(r.seg, r.disk)
    BY <2>2, <2>5 DEF FileInv, y
  <2> QED BY <2>1, <2>2, <2>3, <2>6 DEF Writes
<1>5. CASE q.seg.file = "closed"
  <2>1. r = Rec!Result(FALSE, q.seg, q.disk)
    BY <1>5 DEF Rec!CloseFile
  <2>2. Writes(seg, d, r)
    BY <1>1, <1>2, <2>1, ResultWrites
  <2>3. r.seg = q.seg
    BY <2>1 DEF Rec!Result
  <2> QED BY <1>5, <2>2, <2>3
<1> QED BY <1>2, <1>3, <1>4, <1>5

LEMMA CloseSegmentWrites ==
    ASSUME NEW seg \in SegmentTypes, seg.start \in Rec!Times, NEW d \in Disks, FileInv(seg, d), instance.id \in Nat,
           NEW r \in Rec!CloseSegment(seg, d)
    PROVE  Writes(seg, d, r) /\ r.seg.file # "open"
<1>1. PICK q \in {Rec!Result(TRUE, seg, d)} \cup Rec!ClosePart(seg, d) \cup Rec!Flush(seg, d) : r \in Rec!CloseFile(q)
  BY DEF Rec!CloseSegment
<1>2. Writes(seg, d, q)
  BY <1>1, ClosePartWrites, FlushWrites, LeftAlone
<1> QED BY <1>1, <1>2, CloseFileWrites

LEMMA PartIs ==
    ASSUME NEW seg \in SegmentTypes, NEW piece \in [start : Int, end : Int]
    PROVE  /\ [seg EXCEPT !.part = piece] \in SegmentTypes /\ [seg EXCEPT !.part = piece].start = seg.start
           /\ [seg EXCEPT !.part = piece].file = seg.file /\ [seg EXCEPT !.part = piece].part = piece
BY DEF SegmentTypes

LEMMA SegmentWriteWrites ==
    ASSUME NEW seg \in SegmentTypes, seg.start \in Rec!Times, NEW d \in Disks, FileInv(seg, d), instance.id \in Nat,
           NEW dts \in Int, NEW end \in Int, NEW w \in Rec!SegmentWrite(seg, d, dts, end)
    PROVE  Writes(seg, d, w)
<1> DEFINE longer == [seg EXCEPT !.end = Rec!Later(end, @)]
           full == seg.part # Rec!NoPart /\ seg.part.end - seg.part.start >= PartDuration
           Written(r) == Rec!Result(r.ok, [r.seg EXCEPT !.part = IF full THEN Rec!NoPart ELSE @], r.disk)
           Added(r) ==
               IF r.ok THEN { Rec!Result(TRUE, [r.seg EXCEPT !.part = Rec!PartWith(@, dts, end)], r.disk),
                              Rec!Result(FALSE, Rec!Refused(r.seg, dts), r.disk) }
               ELSE {r}
<1>1. PICK r \in {Rec!Result(TRUE, longer, d)} \cup Rec!ClosePart(longer, d) : w \in Added(Written(r))
  BY DEF Rec!SegmentWrite
<1>2. longer \in SegmentTypes /\ longer.start = seg.start /\ longer.file = seg.file
  BY DEF SegmentTypes, Rec!Later
<1> HIDE DEF longer, full
<1>3. FileInv(longer, d)
  BY <1>2 DEF FileInv
<1>4. Writes(longer, d, r)
  BY <1>1, <1>2, <1>3, ClosePartWrites, LeftAlone
<1>5. r \in [ok : BOOLEAN, seg : SegmentTypes, disk : Disks]
  BY <1>4 DEF Writes
<1>6. r.ok \in BOOLEAN /\ r.seg \in SegmentTypes /\ r.disk \in Disks /\ r.seg.part \in [start : Int, end : Int]
  BY <1>5 DEF SegmentTypes
<1> DEFINE piece == IF full THEN Rec!NoPart ELSE r.seg.part
<1>7. piece \in [start : Int, end : Int]
  BY <1>6 DEF Rec!NoPart
<1>8. Written(r) = Rec!Result(r.ok, [r.seg EXCEPT !.part = piece], r.disk)
  BY <1>6
<1> HIDE DEF piece
<1>9. Writes(longer, d, Written(r))
  <2>2. /\ [r.seg EXCEPT !.part = piece] \in SegmentTypes /\ [r.seg EXCEPT !.part = piece].start = r.seg.start
        /\ [r.seg EXCEPT !.part = piece].file = r.seg.file
    BY <1>6, <1>7, PartIs
  <2> QED BY <1>2, <1>4, <1>6, <1>8, <2>2, Changed
<1> DEFINE q == Written(r)
<1> HIDE DEF Written, q
<1>10. q \in [ok : BOOLEAN, seg : SegmentTypes, disk : Disks] /\ q.seg \in SegmentTypes
       /\ q.seg.part \in [start : Int, end : Int] /\ q.seg.start = seg.start /\ seg.start \in Int
  <2>1. seg.start \in Int
    BY DEF SegmentTypes
  <2> QED BY <1>2, <1>9, <2>1 DEF Writes, q, SegmentTypes
<1>11. Rec!PartWith(q.seg.part, dts, end) \in [start : Int, end : Int]
  BY <1>10 DEF Rec!PartWith, Rec!Later
<1>12. Writes(longer, d, w)
  <2> DEFINE with == Rec!PartWith(q.seg.part, dts, end)
             refused == IF q.seg.part = Rec!NoPart THEN [start |-> dts, end |-> q.seg.start] ELSE q.seg.part
             loss == "sample"
  <2>1. Rec!Refused(q.seg, dts) = [q.seg EXCEPT !.part = refused, !.lost = loss]
    BY <1>10 DEF Rec!Refused
  <2>2. \/ w = q
        \/ w = Rec!Result(TRUE, [q.seg EXCEPT !.part = with], q.disk)
        \/ w = Rec!Result(FALSE, Rec!Refused(q.seg, dts), q.disk)
    BY <1>1, <1>10 DEF q
  <2>3. with \in [start : Int, end : Int] /\ refused \in [start : Int, end : Int] /\ loss \in Losses
    BY <1>10, <1>11 DEF Losses
  <2> HIDE DEF with, refused, loss
  <2>4. /\ [q.seg EXCEPT !.part = with] \in SegmentTypes /\ [q.seg EXCEPT !.part = with].start = q.seg.start
        /\ [q.seg EXCEPT !.part = with].file = q.seg.file
    BY <1>10, <2>3, PartIs
  <2>5. /\ Rec!Refused(q.seg, dts) \in SegmentTypes /\ Rec!Refused(q.seg, dts).start = q.seg.start
        /\ Rec!Refused(q.seg, dts).file = q.seg.file
    <3>1. q.seg \in SegmentTypes
      BY <1>10
    <3> DEFINE x == q.seg
    <3> HIDE DEF x
    <3> DEFINE y == [x EXCEPT !.part = refused]
               z == [y EXCEPT !.lost = loss]
    <3>2. Rec!Refused(q.seg, dts) = z
      BY <2>1 DEF x
    <3>3. x \in SegmentTypes
      BY <3>1 DEF x
    <3>4. y \in SegmentTypes /\ y.start = x.start /\ y.file = x.file
      BY <2>3, <3>3 DEF SegmentTypes
    <3> HIDE DEF y
    <3>5. z \in SegmentTypes /\ z.start = x.start /\ z.file = x.file
      BY <2>3, <3>4 DEF SegmentTypes
    <3> HIDE DEF z
    <3> QED BY <3>2, <3>5 DEF x
  <2>6. Writes(longer, d, q)
    BY <1>9 DEF q
  <2> QED BY <1>2, <2>2, <2>4, <2>5, <2>6, Changed
<1> QED BY <1>2, <1>12 DEF Writes, OthersKept

-----------------------------------------------------------------------------
(* The current segment begins at the last of the starts that were used.    *)
Current(seg, d, c) ==
    /\ seg \in SegmentTypes /\ d \in Disks /\ seg.start \in Rec!Times /\ FileInv(seg, d)
    /\ \E t \in Tracks : seg.start <= c[t]
    /\ \A s \in Rec!Times : s # seg.start => IsCompleted(d[s])
    /\ \A s \in Rec!Times : d[s].creates > 0 => s <= seg.start

LEMMA TimesAre == DoubledTracks = {} => Rec!Times = 0 .. MaxTime /\ MaxTime \in Nat /\ MaxTime > 0
  BY MediaAssumption DEF Rec!Times, Rec!TimesAssumption

LEMMA CurrentWrites ==
    ASSUME NEW seg, NEW d, NEW c, Current(seg, d, c), NEW r, Writes(seg, d, r), DoubledTracks = {}
    PROVE  Current(r.seg, r.disk, c) /\ r.ok \in BOOLEAN
<1>1. r.seg \in SegmentTypes /\ r.disk \in Disks /\ r.seg.start = seg.start /\ FileInv(r.seg, r.disk) /\ r.ok \in BOOLEAN
      /\ \A s \in Rec!Times \ {seg.start} : r.disk[s] = d[s]
  BY DEF Writes, OthersKept
<1>2. seg.start <= seg.start
  BY TimesAre DEF Current
<1> QED BY <1>1, <1>2 DEF Current

LEMMA NextIsCurrent ==
    ASSUME NEW seg, NEW d, NEW c, Current(seg, d, c), seg.file # "open", DoubledTracks = {},
           NEW new \in SegmentTypes, new.file = "none", new.start \in Rec!Times, seg.start < new.start,
           \E t \in Tracks : new.start <= c[t]
    PROVE  Current(new, d, c)
<1>1. \A s \in Rec!Times : d[s] \in FileTypes /\ s \in Nat
  BY TimesAre DEF Current, Disks
<1>2. IsCompleted(d[seg.start])
  BY <1>1 DEF Current, FileInv, IsToCome, IsCompleted, SegmentTypes, FileTypes
<1>3. \A s \in Rec!Times : IsCompleted(d[s])
  BY <1>2 DEF Current
<1>4. \A s \in Rec!Times : d[s].creates > 0 => s <= new.start
  BY <1>1, TimesAre DEF Current
<1>5. d[new.start].creates = 0
  <2>1. ~(new.start <= seg.start) /\ d[new.start] \in FileTypes
    BY <1>1, TimesAre DEF Current
  <2>2. ~(d[new.start].creates > 0) /\ d[new.start].creates \in Nat
    BY <2>1 DEF Current, FileTypes
  <2> QED BY <2>2
<1>6. FileInv(new, d)
  BY <1>1, <1>3, <1>5 DEF FileInv, IsToCome, IsCompleted, FileTypes
<1> QED BY <1>3, <1>4, <1>6 DEF Current

LEMMA FirstIsCurrent ==
    ASSUME NEW d \in Disks, NEW c, DoubledTracks = {}, NEW new \in SegmentTypes, new.file = "none",
           new.start \in Rec!Times, \A s \in Rec!Times : IsCompleted(d[s]) /\ (d[s].creates > 0 => s < new.start),
           \E t \in Tracks : new.start <= c[t]
    PROVE  Current(new, d, c)
<1>1. \A s \in Rec!Times : d[s] \in FileTypes /\ s \in Nat
  BY TimesAre DEF Disks
<1>2. d[new.start].creates = 0
  BY <1>1 DEF FileTypes
<1>3. FileInv(new, d)
  BY <1>1, <1>2 DEF FileInv, IsToCome, IsCompleted, FileTypes
<1>4. \A s \in Rec!Times : d[s].creates > 0 => s <= new.start
  BY <1>1
<1> QED BY <1>3, <1>4 DEF Current

-----------------------------------------------------------------------------
(* The recorder.                                                           *)

RecorderTypes ==
    /\ recorder \in {"running", "pausing", "ended"} /\ closing \in {"no", "waiting", "returned"}
    /\ instance \in [id : Nat, at : {"reading", "skipped", "failed", "closing", "done"}]
    /\ format \in {"fmp4", "mpegts"}
    /\ clock \in [Tracks -> 0 .. MaxTime]
    /\ next \in [Tracks -> [dts : Int, sync : BOOLEAN]]
    /\ number \in Int /\ segment \in SegmentTypes /\ disk \in Disks

(* The goroutine of the recorder waits for its instance.                   *)
LifeInv ==
    /\ closing = "returned" => recorder = "ended"
    /\ recorder \in {"pausing", "ended"} => instance.at = "done"
    /\ instance.at = "done" => segment = Rec!NoSegment /\ \A t \in Tracks : next[t] = Rec!Nothing

(* A sample that is kept is not newer than the clock of its track.         *)
SampleInv == \A t \in Tracks : next[t] = Rec!Nothing \/ next[t].dts \in 0 .. clock[t]

(* What is on disk is complete, but for the current segment; a segment yet *)
(* to come begins later than what is there.                                *)
DiskInv ==
    /\ segment # Rec!NoSegment => Current(segment, disk, clock)
    /\ segment = Rec!NoSegment =>
           \A s \in Rec!Times :
               /\ IsCompleted(disk[s])
               /\ disk[s].creates > 0 =>
                      /\ \E t \in Tracks : s <= clock[t]
                      /\ instance.at = "reading" =>
                             \A t \in Tracks : s <= clock[t] /\ (next[t] # Rec!Nothing => s < next[t].dts)

RecorderInv == RecorderTypes /\ LifeInv /\ SampleInv /\ DiskInv

LEMMA RecorderFirst ==
    ASSUME DoubledTracks = {}, Rec!Init
    PROVE  RecorderInv
<1> USE DEF Rec!Init
<1>1. Rec!Nothing \in [dts : Int, sync : BOOLEAN] /\ Rec!NoSegment \in SegmentTypes /\ Rec!NoFile \in FileTypes
  BY DEF Rec!Nothing, Rec!NoSegment, Rec!NoPart, Rec!NoFile, SegmentTypes, FileTypes, Losses
<1>2. RecorderTypes
  BY <1>1, TimesAre DEF RecorderTypes, Disks
<1>3. \A s \in Rec!Times : disk[s].completes = 0 /\ disk[s].creates = 0
  BY DEF Rec!NoFile
<1>4. DiskInv
  BY <1>3 DEF DiskInv, IsCompleted
<1>5. LifeInv /\ SampleInv
  BY DEF LifeInv, SampleInv
<1> QED BY <1>2, <1>4, <1>5 DEF RecorderInv

(* Clocks only go on.                                                      *)
LEMMA ClockStep ==
    ASSUME RecorderInv, DoubledTracks = {}, NEW t \in Tracks, NEW step \in 1 .. MaxStep, Rec!Unit(t, step)
    PROVE  /\ clock' \in [Tracks -> 0 .. MaxTime] /\ clock'[t] = clock[t] + step /\ step \in Nat /\ step > 0
           /\ \A u \in Tracks : clock[u] <= clock'[u]
           /\ instance.at = "reading" /\ format' = format
<1>1. MaxTime \in Nat /\ MaxStep \in Nat
  BY MediaAssumption DEF Rec!TimesAssumption
<1>2. clock \in [Tracks -> 0 .. MaxTime] /\ clock' = [clock EXCEPT ![t] = @ + step] /\ clock[t] + step <= MaxTime
  BY DEF RecorderInv, RecorderTypes, Rec!Unit
<1> QED BY <1>1, <1>2 DEF Rec!Unit

LEMMA CurrentLater ==
    ASSUME NEW seg, NEW d, NEW c \in [Tracks -> 0 .. MaxTime], NEW e \in [Tracks -> 0 .. MaxTime],
           Current(seg, d, c), \A t \in Tracks : c[t] <= e[t], DoubledTracks = {}
    PROVE  Current(seg, d, e)
<1>1. PICK t \in Tracks : seg.start <= c[t]
  BY DEF Current
<1>2. seg.start <= e[t]
  BY <1>1, TimesAre DEF Current
<1> QED BY <1>2 DEF Current

(* A step that leaves the segment and the disk alone.                      *)
LEMMA SampleStep ==
    ASSUME RecorderInv, DoubledTracks = {}, UNCHANGED <<recorder, closing, format, segment, disk, number>>,
           instance.at = "reading", instance' \in [id : Nat, at : {"reading", "failed"}],
           clock' \in [Tracks -> 0 .. MaxTime], \A u \in Tracks : clock[u] <= clock'[u],
           next' \in [Tracks -> [dts : Int, sync : BOOLEAN]],
           \A u \in Tracks : next'[u] = next[u] \/ (clock[u] < next'[u].dts /\ next'[u].dts <= clock'[u])
    PROVE  RecorderInv'
<1>0. /\ clock \in [Tracks -> 0 .. MaxTime] /\ next \in [Tracks -> [dts : Int, sync : BOOLEAN]]
      /\ \A u \in Tracks : clock[u] \in Nat /\ clock'[u] \in Nat
      /\ \A s \in Rec!Times : s \in Nat
  BY TimesAre DEF RecorderInv, RecorderTypes
<1>1. RecorderTypes'
  BY DEF RecorderInv, RecorderTypes
<1>2. LifeInv'
  BY DEF RecorderInv, LifeInv
<1>3. SampleInv'
  BY <1>0 DEF RecorderInv, SampleInv
<1>4. segment # Rec!NoSegment => Current(segment, disk, clock')
  BY <1>0, CurrentLater DEF RecorderInv, DiskInv
<1>5. ASSUME segment = Rec!NoSegment, NEW s \in Rec!Times, disk[s].creates > 0
      PROVE  /\ \E u \in Tracks : s <= clock'[u]
             /\ \A u \in Tracks : s <= clock'[u] /\ (next'[u] # Rec!Nothing => s < next'[u].dts)
  <2>1. /\ \E u \in Tracks : s <= clock[u]
        /\ \A u \in Tracks : s <= clock[u] /\ (next[u] # Rec!Nothing => s < next[u].dts)
    BY <1>5 DEF RecorderInv, DiskInv
  <2>2. ASSUME NEW u \in Tracks PROVE s <= clock'[u] /\ (next'[u] # Rec!Nothing => s < next'[u].dts)
    BY <1>0, <2>1
  <2> QED BY <2>1, <2>2
<1>6. DiskInv'
  BY <1>4, <1>5 DEF RecorderInv, DiskInv
<1> QED BY <1>1, <1>2, <1>3, <1>6 DEF RecorderInv

(* A step that writes.                                                     *)
LEMMA SegmentStep ==
    ASSUME RecorderInv, DoubledTracks = {}, UNCHANGED <<recorder, closing, format>>,
           instance.at = "reading", instance' \in [id : Nat, at : {"reading", "failed"}],
           clock' \in [Tracks -> 0 .. MaxTime], \A u \in Tracks : clock[u] <= clock'[u],
           next' \in [Tracks -> [dts : Int, sync : BOOLEAN]], number' \in Int,
           \A u \in Tracks : next'[u] = next[u] \/ (clock[u] < next'[u].dts /\ next'[u].dts <= clock'[u]),
           Current(segment', disk', clock')
    PROVE  RecorderInv'
<1>0. /\ clock \in [Tracks -> 0 .. MaxTime] /\ next \in [Tracks -> [dts : Int, sync : BOOLEAN]]
      /\ \A u \in Tracks : clock[u] \in Nat /\ clock'[u] \in Nat
  BY TimesAre DEF RecorderInv, RecorderTypes
<1>1. RecorderTypes'
  BY DEF RecorderInv, RecorderTypes, Current
<1>2. LifeInv'
  BY DEF RecorderInv, LifeInv
<1>3. SampleInv'
  BY <1>0 DEF RecorderInv, SampleInv
<1>4. segment' # Rec!NoSegment
  <2>1. segment'.start \in Nat
    BY TimesAre DEF Current
  <2> QED BY <2>1 DEF Rec!NoSegment
<1> QED BY <1>1, <1>2, <1>3, <1>4 DEF RecorderInv, DiskInv

-----------------------------------------------------------------------------
(* What a track brings.                                                    *)

LEMMA SampleIs ==
    ASSUME RecorderInv, DoubledTracks = {}, NEW t \in Tracks, NEW step \in 1 .. MaxStep, Rec!Unit(t, step),
           NEW sync \in BOOLEAN, NEW sample, sample = [dts |-> Rec!Dts(t, clock[t] + step), sync |-> sync]
    PROVE  /\ sample \in [dts : Int, sync : BOOLEAN]
           /\ sample.dts = clock'[t] /\ sample.dts \in 1 .. MaxTime /\ clock[t] < sample.dts
<1>1. clock \in [Tracks -> 0 .. MaxTime] /\ MaxTime \in Nat
  BY TimesAre DEF RecorderInv, RecorderTypes
<1>2. clock'[t] = clock[t] + step /\ step \in Nat /\ step > 0 /\ clock'[t] \in 0 .. MaxTime
  BY ClockStep
<1>3. Rec!Dts(t, clock[t] + step) = clock[t] + step
  BY DEF Rec!Dts
<1>4. sample = [dts |-> clock'[t], sync |-> sync]
  BY <1>2, <1>3
<1>5. clock'[t] \in 1 .. MaxTime /\ clock[t] < clock'[t]
  BY <1>1, <1>2
<1> QED BY <1>4, <1>5

(* A sample that is kept is older than the one that follows it.            *)
LEMMA FollowingIs ==
    ASSUME RecorderInv, DoubledTracks = {}, NEW t \in Tracks, next[t] # Rec!Nothing,
           NEW sample \in [dts : Int, sync : BOOLEAN], clock[t] < sample.dts
    PROVE  Rec!Following(t, sample) = sample /\ next[t].dts \in 0 .. clock[t] /\ next[t].dts < sample.dts
<1>1. clock[t] \in Nat /\ next[t].dts \in 0 .. clock[t]
  BY TimesAre DEF RecorderInv, RecorderTypes, SampleInv
<1>2. sample.dts \in Int /\ Rec!Later(sample.dts, next[t].dts) = sample.dts
  BY <1>1 DEF Rec!Later
<1>3. Rec!Following(t, sample) = [sample EXCEPT !.dts = sample.dts]
  BY Zenon, <1>2 DEF Rec!Following
<1> QED BY <1>1, <1>2, <1>3

(* A new segment.                                                          *)
LEMMA NewSegmentIs ==
    ASSUME NEW start, NEW n
    PROVE  [Rec!NoSegment EXCEPT !.start = start, !.end = start, !.number = n]
               = [start |-> start, end |-> start, number |-> n, file |-> "none", part |-> Rec!NoPart, last |-> -1, lost |-> "nothing"]
<1> DEFINE none == [start |-> -1, end |-> -1, number |-> -1, file |-> "none", part |-> Rec!NoPart, last |-> -1, lost |-> "nothing"]
           x == [none EXCEPT !.start = start]
           y == [x EXCEPT !.end = start]
           z == [y EXCEPT !.number = n]
<1>1. x = [start |-> start, end |-> -1, number |-> -1, file |-> "none", part |-> Rec!NoPart, last |-> -1, lost |-> "nothing"]
  OBVIOUS
<1>2. z = [none EXCEPT !.start = start, !.end = start, !.number = n]
  OBVIOUS
<1> HIDE DEF x
<1>3. y = [start |-> start, end |-> start, number |-> -1, file |-> "none", part |-> Rec!NoPart, last |-> -1, lost |-> "nothing"]
  BY <1>1
<1> HIDE DEF y
<1>4. z = [start |-> start, end |-> start, number |-> n, file |-> "none", part |-> Rec!NoPart, last |-> -1, lost |-> "nothing"]
  BY <1>3
<1> HIDE DEF z
<1> QED BY <1>2, <1>4 DEF Rec!NoSegment

(* The next segment begins at a sample that is kept, after the start of    *)
(* the one before it.                                                      *)
LEMMA NextStart ==
    ASSUME DoubledTracks = {}, NEW after \in [Tracks -> [dts : Int, sync : BOOLEAN]],
           \A u \in Tracks : after[u] = Rec!Nothing \/ after[u].dts \in 0 .. MaxTime,
           NEW t \in Tracks, after[t] # Rec!Nothing, NEW start \in Nat, after[t].dts - start >= SegmentDuration
    PROVE  \E u \in Tracks : /\ after[u] # Rec!Nothing /\ Rec!NextSegmentStartingPos(after) = after[u].dts
                             /\ start < after[u].dts
<1> DEFINE W == Rec!Waiting(after)
           All == {after[u].dts : u \in W}
<1>1. t \in W /\ W \subseteq Tracks /\ \A u \in W : after[u].dts \in 0 .. MaxTime /\ after[u] # Rec!Nothing
  BY DEF Rec!Waiting
<1>2. MaxTime \in Nat /\ Tolerance \in Nat /\ SegmentDuration \in Nat /\ SegmentDuration > Tolerance
  BY MediaAssumption DEF Rec!TimesAssumption
<1> DEFINE N == Rec!Newest(after)
<1>3. N \in All /\ \A u \in W : after[u].dts <= N
  <2>1. All \in SUBSET (0 .. MaxTime) /\ All # {}
    BY <1>1
  <2>2. PICK m \in All : \A x \in All : x <= m
    <3> HIDE DEF All
    <3> QED BY <1>2, <2>1, GreatestIsThere
  <2>3. \E n \in All : \A u \in W : after[u].dts <= n
    BY <2>2
  <2> QED BY <2>3 DEF Rec!Newest
<1>4. PICK v \in W : N = after[v].dts
  BY <1>3
<1> HIDE DEF N
<1> DEFINE B == {u \in W : N - after[u].dts <= Tolerance}
           Some == {after[u].dts : u \in B}
<1>5. Rec!NotBehind(after) = B
  BY Zenon DEF Rec!NotBehind, N
<1>6. v \in B
  BY <1>1, <1>2, <1>4
<1>7. Some \in SUBSET Nat /\ Some # {}
  <2>1. \A u \in B : after[u].dts \in Nat
    BY <1>1
  <2> HIDE DEF B
  <2> QED BY <1>6, <2>1
<1>8. PICK m \in Some : \A x \in Some : m <= x
  <2> HIDE DEF Some
  <2> QED BY <1>7, SmallestIsThere
<1>9. \E m1 \in Some : \A u \in B : m1 <= after[u].dts
  BY <1>8
<1>10. Rec!NextSegmentStartingPos(after) \in Some
  BY <1>5, <1>9 DEF Rec!NextSegmentStartingPos
<1>11. PICK u \in B : Rec!NextSegmentStartingPos(after) = after[u].dts
  BY <1>10
<1>12. start < after[u].dts
  <2>1. after[t].dts <= N /\ N \in Nat /\ after[t].dts \in Nat /\ after[u].dts \in Nat /\ N - after[u].dts <= Tolerance
    BY <1>1, <1>3, <1>4, <1>11
  <2> QED BY <1>2, <2>1
<1> QED BY <1>1, <1>11, <1>12

-----------------------------------------------------------------------------
(* The steps of the recorder.                                              *)

LEMMA WriteSampleStep ==
    ASSUME RecorderInv, DoubledTracks = {}, NEW t \in Tracks, NEW step \in 1 .. MaxStep, Rec!Unit(t, step),
           NEW sample \in [dts : Int, sync : BOOLEAN], sample.dts = clock'[t], clock[t] < sample.dts,
           Rec!WriteSample(t, sample)
    PROVE  RecorderInv'
<1> DEFINE dts == next[t].dts
           after == [next EXCEPT ![t] = sample]
           first == segment = Rec!NoSegment
           seg == IF first THEN Rec!NewSegment(dts) ELSE segment
<1>1. /\ clock \in [Tracks -> 0 .. MaxTime] /\ clock' \in [Tracks -> 0 .. MaxTime] /\ instance.at = "reading"
      /\ \A u \in Tracks : clock[u] <= clock'[u] /\ clock[u] \in Nat /\ clock'[u] \in Nat
      /\ format' = format /\ MaxTime \in Nat
  BY ClockStep, TimesAre DEF RecorderInv, RecorderTypes
<1>2. /\ next \in [Tracks -> [dts : Int, sync : BOOLEAN]] /\ number \in Int /\ disk \in Disks /\ segment \in SegmentTypes
      /\ instance \in [id : Nat, at : {"reading", "skipped", "failed", "closing", "done"}]
  BY DEF RecorderInv, RecorderTypes
<1>3. next[t] # Rec!Nothing /\ UNCHANGED <<recorder, closing, dropped>>
  BY DEF Rec!WriteSample
<1>4. Rec!Following(t, sample) = sample /\ dts \in 0 .. clock[t] /\ dts < sample.dts /\ dts \in Rec!Times /\ dts <= clock'[t]
  <2>1. Rec!Following(t, sample) = sample /\ dts \in 0 .. clock[t] /\ dts < sample.dts
    BY <1>3, FollowingIs
  <2> QED BY <1>1, <2>1, TimesAre
<1>5. Current(seg, disk, clock')
  <2>1. CASE first
    <3>1. seg = [start |-> dts, end |-> dts, number |-> number, file |-> "none", part |-> Rec!NoPart, last |-> -1, lost |-> "nothing"]
      BY <2>1, NewSegmentIs DEF Rec!NewSegment
    <3>2. seg \in SegmentTypes /\ seg.file = "none" /\ seg.start = dts
      BY <1>2, <1>4, <3>1 DEF SegmentTypes, Rec!NoPart, Losses
    <3>3. \A s \in Rec!Times : IsCompleted(disk[s]) /\ (disk[s].creates > 0 => s < dts)
      BY <1>1, <1>3, <2>1 DEF RecorderInv, DiskInv
    <3> HIDE DEF seg
    <3> QED BY <1>2, <1>4, <3>2, <3>3, FirstIsCurrent
  <2>2. CASE ~first
    <3>1. Current(segment, disk, clock)
      BY <2>2 DEF RecorderInv, DiskInv
    <3>2. Current(segment, disk, clock')
      BY <1>1, <3>1, CurrentLater
    <3> QED BY <2>2, <3>2
  <2> QED BY <2>1, <2>2
<1>6. PICK w \in Rec!SegmentWrite(seg, disk, dts, sample.dts) :
          /\ next' = after
          /\ IF ~w.ok THEN Rec!Fails(w) /\ number' = (IF first THEN number + 1 ELSE number)
             ELSE IF ~Rec!Switches(t, sample, hasVideo', w.seg.start)
             THEN /\ segment' = w.seg /\ disk' = w.disk
                  /\ number' = (IF first THEN number + 1 ELSE number)
                  /\ UNCHANGED instance
             ELSE \E c \in Rec!CloseSegment(w.seg, w.disk) :
                      IF c.ok
                      THEN /\ segment' = [Rec!NoSegment EXCEPT !.start = Rec!NextSegmentStartingPos(after),
                                              !.end = Rec!NextSegmentStartingPos(after), !.number = w.seg.number + 1]
                           /\ number' = w.seg.number + 2
                           /\ disk' = c.disk
                           /\ UNCHANGED instance
                      ELSE Rec!Fails(c) /\ number' = w.seg.number + 1
  <2> DEFINE Body(following, kept, new, w) ==
                 /\ next' = kept
                 /\ UNCHANGED <<recorder, closing, dropped>>
                 /\ IF ~w.ok THEN Rec!Fails(w) /\ number' = (IF new THEN number + 1 ELSE number) /\ UNCHANGED silent
                    ELSE IF ~Rec!Switches(t, following, hasVideo', w.seg.start)
                    THEN /\ segment' = w.seg /\ disk' = w.disk
                         /\ number' = (IF new THEN number + 1 ELSE number)
                         /\ UNCHANGED <<instance, silent>>
                    ELSE \E c \in Rec!CloseSegment(w.seg, w.disk) :
                             IF c.ok
                             THEN /\ segment' = [Rec!NoSegment EXCEPT !.start = Rec!NextSegmentStartingPos(kept),
                                                     !.end = Rec!NextSegmentStartingPos(kept), !.number = w.seg.number + 1]
                                  /\ number' = w.seg.number + 2
                                  /\ silent' = Tracks \ Rec!Waiting(kept)
                                  /\ disk' = c.disk
                                  /\ UNCHANGED instance
                             ELSE Rec!Fails(c) /\ number' = w.seg.number + 1 /\ UNCHANGED silent
  <2>1. \E following \in {Rec!Following(t, sample)} : \E kept \in {[next EXCEPT ![t] = following]} :
        \E new \in {segment = Rec!NoSegment} :
        \E w \in Rec!SegmentWrite(IF new THEN Rec!NewSegment(next[t].dts) ELSE segment, disk, next[t].dts, following.dts) :
            Body(following, kept, new, w)
    BY Zenon DEF Rec!WriteSample
  <2> HIDE DEF Body
  <2>2. \E w \in Rec!SegmentWrite(seg, disk, dts, sample.dts) : Body(sample, after, first, w)
    BY <1>4, <2>1
  <2>3. PICK w \in Rec!SegmentWrite(seg, disk, dts, sample.dts) : Body(sample, after, first, w)
    BY <2>2
  <2> HIDE DEF seg, dts, after, first
  <2> QED BY Zenon, <2>3 DEF Body
<1>7. Writes(seg, disk, w)
  <2>1. seg \in SegmentTypes /\ seg.start \in Rec!Times /\ FileInv(seg, disk) /\ instance.id \in Nat /\ dts \in Int
        /\ sample.dts \in Int
    BY <1>2, <1>4, <1>5 DEF Current
  <2> HIDE DEF seg, dts
  <2> QED BY <1>2, <1>6, <2>1, SegmentWriteWrites
<1>8. Current(w.seg, w.disk, clock') /\ w.ok \in BOOLEAN
  <2> HIDE DEF seg
  <2> QED BY <1>5, <1>7, CurrentWrites
<1>9. /\ next' \in [Tracks -> [dts : Int, sync : BOOLEAN]] /\ next'[t] = sample
      /\ \A u \in Tracks : next'[u] = next[u] \/ (clock[u] < next'[u].dts /\ next'[u].dts <= clock'[u])
  BY <1>1, <1>2, <1>6
<1>10. w.seg \in SegmentTypes /\ w.seg.number \in Int /\ w.seg.start \in Nat
  BY <1>8, TimesAre DEF Current, SegmentTypes
<1>11. ASSUME instance' \in [id : Nat, at : {"reading", "failed"}], number' \in Int, Current(segment', disk', clock')
       PROVE  RecorderInv'
  BY <1>1, <1>3, <1>9, <1>11, SegmentStep
<1>12. ASSUME NEW r, Rec!Fails(r), Current(r.seg, r.disk, clock'), number' \in Int
       PROVE  RecorderInv'
  <2>1. instance' \in [id : Nat, at : {"reading", "failed"}]
    BY <1>2, <1>12 DEF Rec!Fails
  <2> QED BY <1>11, <1>12, <2>1 DEF Rec!Fails
<1>13. (IF first THEN number + 1 ELSE number) \in Int /\ instance \in [id : Nat, at : {"reading", "failed"}]
  BY <1>1, <1>2
<1>14. CASE ~w.ok
  BY <1>6, <1>8, <1>12, <1>13, <1>14
<1>15. CASE w.ok /\ ~Rec!Switches(t, sample, hasVideo', w.seg.start)
  <2>1. segment' = w.seg /\ disk' = w.disk /\ number' = (IF first THEN number + 1 ELSE number) /\ instance' = instance
    BY <1>6, <1>15
  <2> QED BY <1>8, <1>11, <1>13, <2>1
<1>16. CASE w.ok /\ Rec!Switches(t, sample, hasVideo', w.seg.start)
  <2> DEFINE pos == Rec!NextSegmentStartingPos(after)
  <2>1. PICK c \in Rec!CloseSegment(w.seg, w.disk) :
            IF c.ok
            THEN /\ segment' = [Rec!NoSegment EXCEPT !.start = pos, !.end = pos, !.number = w.seg.number + 1]
                 /\ number' = w.seg.number + 2
                 /\ disk' = c.disk
                 /\ UNCHANGED instance
            ELSE Rec!Fails(c) /\ number' = w.seg.number + 1
    BY <1>6, <1>16
  <2>2. Writes(w.seg, w.disk, c) /\ c.seg.file # "open"
    BY <1>2, <1>8, <2>1, CloseSegmentWrites DEF Current
  <2>3. Current(c.seg, c.disk, clock') /\ c.ok \in BOOLEAN /\ c.seg.start = w.seg.start
    BY <1>8, <2>2, CurrentWrites DEF Writes
  <2>4. w.seg.number + 1 \in Int /\ w.seg.number + 2 \in Int
    BY <1>10
  <2>5. CASE ~c.ok
    BY <1>12, <2>1, <2>3, <2>4, <2>5
  <2>6. CASE c.ok
    <3>1. /\ segment' = [Rec!NoSegment EXCEPT !.start = pos, !.end = pos, !.number = w.seg.number + 1]
          /\ number' = w.seg.number + 2 /\ disk' = c.disk /\ instance' = instance
      BY <2>1, <2>6
    <3>2. PICK u \in Tracks : after[u] # Rec!Nothing /\ pos = after[u].dts /\ w.seg.start < after[u].dts
      <4>1. after \in [Tracks -> [dts : Int, sync : BOOLEAN]] /\ after[t] = sample
        BY <1>2
      <4>2. \A u \in Tracks : after[u] = Rec!Nothing \/ after[u].dts \in 0 .. MaxTime
        BY <1>1, <1>2 DEF RecorderInv, SampleInv
      <4>3. after[t] # Rec!Nothing
        BY <1>1, <4>1 DEF Rec!Nothing
      <4>4. after[t].dts - w.seg.start >= SegmentDuration
        BY <1>16, <4>1 DEF Rec!Switches
      <4> HIDE DEF after
      <4> QED BY <1>10, <4>1, <4>2, <4>3, <4>4, NextStart
    <3>3. pos \in Rec!Times /\ w.seg.start < pos /\ pos <= clock'[u]
      BY <1>1, <1>2, <3>2, TimesAre DEF RecorderInv, SampleInv
    <3> HIDE DEF pos, after
    <3>4. segment' = [start |-> pos, end |-> pos, number |-> w.seg.number + 1, file |-> "none", part |-> Rec!NoPart, last |-> -1, lost |-> "nothing"]
      BY <3>1, NewSegmentIs
    <3>5. segment' \in SegmentTypes /\ segment'.file = "none" /\ segment'.start = pos
      BY <2>4, <3>3, <3>4, TimesAre DEF SegmentTypes, Rec!NoPart, Losses
    <3>6. Current(segment', disk', clock')
      <4> DEFINE x == segment'  k == clock'
      <4>1. Current(c.seg, c.disk, k) /\ c.seg.file # "open" /\ c.seg.start < x.start
        BY <2>2, <2>3, <3>3, <3>5
      <4>2. x \in SegmentTypes /\ x.file = "none" /\ x.start \in Rec!Times /\ \E v \in Tracks : x.start <= k[v]
        BY <3>3, <3>5
      <4> HIDE DEF x, k
      <4>3. Current(x, c.disk, k)
        BY Zenon, <4>1, <4>2, NextIsCurrent
      <4> QED BY <3>1, <4>3 DEF x, k
    <3>7. instance' \in [id : Nat, at : {"reading", "failed"}] /\ number' \in Int
      BY <1>13, <2>4, <3>1
    <3> QED BY <1>11, <3>6, <3>7
  <2> QED BY <2>3, <2>5, <2>6
<1> QED BY <1>8, <1>14, <1>15, <1>16

LEMMA FMP4Step ==
    ASSUME RecorderInv, DoubledTracks = {}, NEW t \in Tracks, Rec!OnDataFMP4(t)
    PROVE  RecorderInv'
<1>1. PICK step \in 1 .. MaxStep, sync \in BOOLEAN :
          /\ Rec!Unit(t, step)
          /\ \E sample \in {[dts |-> Rec!Dts(t, clock[t] + step), sync |-> sync]} :
                 Rec!KeepSample(t, sample) \/ Rec!DiscardSample(t, sample) \/ Rec!WriteSample(t, sample)
  BY DEF Rec!OnDataFMP4
<1>2. PICK sample : /\ sample = [dts |-> Rec!Dts(t, clock[t] + step), sync |-> sync]
                    /\ Rec!KeepSample(t, sample) \/ Rec!DiscardSample(t, sample) \/ Rec!WriteSample(t, sample)
  BY <1>1
<1>3. sample \in [dts : Int, sync : BOOLEAN] /\ sample.dts = clock'[t] /\ clock[t] < sample.dts
  BY <1>1, <1>2, SampleIs
<1>4. /\ clock \in [Tracks -> 0 .. MaxTime] /\ clock' \in [Tracks -> 0 .. MaxTime] /\ instance.at = "reading"
      /\ \A u \in Tracks : clock[u] <= clock'[u] /\ clock[u] \in Nat /\ clock'[u] \in Nat
      /\ format' = format /\ instance \in [id : Nat, at : {"reading", "failed"}]
      /\ next \in [Tracks -> [dts : Int, sync : BOOLEAN]]
  BY <1>1, ClockStep, TimesAre DEF RecorderInv, RecorderTypes
<1>5. CASE Rec!WriteSample(t, sample)
  BY <1>1, <1>3, <1>5, WriteSampleStep
<1>6. CASE Rec!KeepSample(t, sample) \/ Rec!DiscardSample(t, sample)
  <2>1. next' = [next EXCEPT ![t] = sample]
    <3>1. CASE Rec!KeepSample(t, sample)
      BY <3>1 DEF Rec!KeepSample
    <3>2. CASE Rec!DiscardSample(t, sample)
      BY <1>3, <3>2, FollowingIs DEF Rec!DiscardSample
    <3> QED BY <1>6, <3>1, <3>2
  <2>2. UNCHANGED <<recorder, closing, instance, segment, disk, number>>
    BY <1>6 DEF Rec!KeepSample, Rec!DiscardSample, Rec!lifeVars
  <2>3. \A u \in Tracks : next'[u] = next[u] \/ (clock[u] < next'[u].dts /\ next'[u].dts <= clock'[u])
    BY <1>3, <1>4, <2>1
  <2>4. next' \in [Tracks -> [dts : Int, sync : BOOLEAN]]
    BY <1>3, <1>4, <2>1
  <2> QED BY <1>4, <2>2, <2>3, <2>4, SampleStep
<1> QED BY <1>2, <1>5, <1>6

(* What a step of MPEG-TS leaves is the segment there was, or the next one.*)
LEMMA MPEGTSStep ==
    ASSUME RecorderInv, DoubledTracks = {}, NEW t \in Tracks, Rec!OnDataMPEGTS(t)
    PROVE  RecorderInv'
<1>1. PICK step \in 1 .. MaxStep, sync \in BOOLEAN :
          /\ Rec!Unit(t, step)
          /\ Rec!WriteTS(t, [dts |-> Rec!Dts(t, clock[t] + step), sync |-> sync])
  BY DEF Rec!OnDataMPEGTS
<1> DEFINE sample == [dts |-> Rec!Dts(t, clock[t] + step), sync |-> sync]
           dts == sample.dts
<1>2. sample \in [dts : Int, sync : BOOLEAN] /\ dts = clock'[t] /\ dts \in 1 .. MaxTime /\ clock[t] < dts
  BY <1>1, SampleIs
<1>3. Rec!WriteTS(t, sample)
  BY <1>1
<1> HIDE DEF sample
<1>4. /\ clock \in [Tracks -> 0 .. MaxTime] /\ clock' \in [Tracks -> 0 .. MaxTime] /\ instance.at = "reading"
      /\ \A u \in Tracks : clock[u] <= clock'[u] /\ clock[u] \in Nat /\ clock'[u] \in Nat
      /\ format' = format
  BY <1>1, ClockStep, TimesAre DEF RecorderInv, RecorderTypes
<1>5. /\ next \in [Tracks -> [dts : Int, sync : BOOLEAN]] /\ number \in Int /\ disk \in Disks /\ segment \in SegmentTypes
      /\ instance \in [id : Nat, at : {"reading", "skipped", "failed", "closing", "done"}]
  BY DEF RecorderInv, RecorderTypes
<1>6. dts \in Int /\ dts \in Rec!Times /\ dts <= clock'[t] /\ dts \in Nat
  BY <1>2, <1>4, TimesAre
<1> HIDE DEF dts
<1> DEFINE Sound(r) == Current(r.seg, r.disk, clock') /\ r.ok \in BOOLEAN
           new == Rec!NewSegmentTS(dts)
<1>7. new \in SegmentTypes /\ new.file = "none" /\ new.start = dts
  <2>1. new = [start |-> dts, end |-> dts, number |-> number, file |-> "none", part |-> [start |-> dts, end |-> dts], last |-> -1, lost |-> "nothing"]
    <3> DEFINE first == Rec!NewSegment(dts)
    <3>1. first = [start |-> dts, end |-> dts, number |-> number, file |-> "none", part |-> Rec!NoPart, last |-> -1, lost |-> "nothing"]
      BY NewSegmentIs DEF Rec!NewSegment
    <3>2. new = [first EXCEPT !.part = [start |-> dts, end |-> dts]]
      BY Zenon DEF Rec!NewSegmentTS
    <3> HIDE DEF first, new
    <3> QED BY <3>1, <3>2
  <2> HIDE DEF new
  <2> QED BY <1>5, <1>6, <2>1 DEF SegmentTypes, Losses
<1> HIDE DEF new
<1>8. segment # Rec!NoSegment => Current(segment, disk, clock') /\ segment.start \in Nat
  BY <1>4, CurrentLater, TimesAre DEF RecorderInv, DiskInv, Current
<1>9. ASSUME NEW seg, NEW d, Current(seg, d, clock')
      PROVE  /\ Current(Rec!LastDTS(seg, dts), d, clock')
             /\ \A c \in Rec!Flush(seg, d) : Sound(c) /\ c.seg.start = seg.start
             /\ \A c \in Rec!CloseSegment(seg, d) : Sound(c) /\ c.seg.start = seg.start /\ c.seg.file # "open"
  <2>1. seg \in SegmentTypes /\ seg.start \in Rec!Times /\ d \in Disks /\ FileInv(seg, d) /\ instance.id \in Nat
    BY <1>5, <1>9 DEF Current
  <2>2. Current(Rec!LastDTS(seg, dts), d, clock')
    <3> DEFINE x == Rec!LastDTS(seg, dts)
    <3>1. x \in SegmentTypes /\ x.start = seg.start /\ x.file = seg.file
      BY <1>6, <2>1 DEF Rec!LastDTS, SegmentTypes
    <3> HIDE DEF x
    <3>2. FileInv(x, d)
      BY <2>1, <3>1 DEF FileInv
    <3>3. Current(x, d, clock')
      BY <1>9, <3>1, <3>2 DEF Current
    <3> QED BY <3>3 DEF x
  <2>3. ASSUME NEW c \in Rec!Flush(seg, d) PROVE Sound(c) /\ c.seg.start = seg.start
    <3>1. Writes(seg, d, c)
      BY <2>1, FlushWrites
    <3> QED BY <1>9, <3>1, CurrentWrites DEF Writes
  <2>4. ASSUME NEW c \in Rec!CloseSegment(seg, d) PROVE Sound(c) /\ c.seg.start = seg.start /\ c.seg.file # "open"
    <3>1. Writes(seg, d, c) /\ c.seg.file # "open"
      BY <2>1, CloseSegmentWrites
    <3> QED BY <1>9, <3>1, CurrentWrites DEF Writes
  <2> QED BY <2>2, <2>3, <2>4
<1>10. PICK results :
          /\ results =
                 IF segment = Rec!NoSegment THEN {Rec!Result(TRUE, new, disk)}
                 ELSE IF Rec!Switches(t, sample, hasVideo', segment.start)
                 THEN {IF c.ok THEN Rec!Result(TRUE, new, c.disk) ELSE c
                          : c \in Rec!CloseSegment(Rec!LastDTS(segment, dts), disk)}
                 ELSE IF dts - segment.part.start >= PartDuration
                 THEN {IF c.ok THEN Rec!Result(TRUE, [c.seg EXCEPT !.part.start = dts], c.disk) ELSE c
                          : c \in Rec!Flush(segment, disk)}
                 ELSE {Rec!Result(TRUE, segment, disk)}
          /\ \E r \in UNION {Rec!Buffered(IF q.ok THEN Rec!Result(TRUE, Rec!LastDTS(q.seg, dts), q.disk) ELSE q)
                                 : q \in results} :
                IF r.ok THEN segment' = r.seg /\ disk' = r.disk /\ UNCHANGED instance ELSE Rec!Fails(r)
  BY <1>3 DEF Rec!WriteTS, new, dts
<1>11. ASSUME NEW q \in results PROVE Sound(q)
  <2>1. CASE segment = Rec!NoSegment
    <3>1. q = Rec!Result(TRUE, new, disk)
      BY <1>10, <2>1
    <3>2. \A s \in Rec!Times : IsCompleted(disk[s]) /\ (disk[s].creates > 0 => s < dts)
      <4>1. ASSUME NEW s \in Rec!Times, disk[s].creates > 0 PROVE s < dts
        <5>1. s <= clock[t] /\ s \in Nat
          BY <1>4, <2>1, <4>1, TimesAre DEF RecorderInv, DiskInv
        <5> QED BY <1>2, <1>4, <1>6, <5>1 DEF dts
      <4> QED BY <2>1, <4>1 DEF RecorderInv, DiskInv
    <3>3. Current(new, disk, clock')
      BY <1>5, <1>6, <1>7, <3>2, FirstIsCurrent
    <3> QED BY <3>1, <3>3 DEF Rec!Result
  <2>2. CASE segment # Rec!NoSegment /\ Rec!Switches(t, sample, hasVideo', segment.start)
    <3> DEFINE longer == Rec!LastDTS(segment, dts)
    <3>1. PICK c \in Rec!CloseSegment(longer, disk) : q = IF c.ok THEN Rec!Result(TRUE, new, c.disk) ELSE c
      BY <1>10, <2>2
    <3>2. Current(longer, disk, clock') /\ longer.start = segment.start
      BY <1>5, <1>8, <1>9, <2>2 DEF Rec!LastDTS, SegmentTypes
    <3> HIDE DEF longer
    <3>3. Sound(c) /\ c.seg.start = segment.start /\ c.seg.file # "open"
      BY <1>9, <3>1, <3>2
    <3>4. segment.start < new.start
      <4>1. dts - segment.start >= SegmentDuration /\ SegmentDuration \in Nat /\ SegmentDuration > 0
        BY <2>2, MediaAssumption DEF Rec!Switches, dts, Rec!TimesAssumption
      <4> QED BY <1>6, <1>7, <1>8, <2>2, <4>1
    <3>5. Current(new, c.disk, clock')
      BY <1>6, <1>7, <3>3, <3>4, NextIsCurrent
    <3> QED BY <3>1, <3>3, <3>5 DEF Rec!Result
  <2>3. CASE /\ segment # Rec!NoSegment /\ ~Rec!Switches(t, sample, hasVideo', segment.start)
             /\ dts - segment.part.start >= PartDuration
    <3>1. PICK c \in Rec!Flush(segment, disk) :
              q = IF c.ok THEN Rec!Result(TRUE, [c.seg EXCEPT !.part.start = dts], c.disk) ELSE c
      BY <1>10, <2>3
    <3>2. Sound(c)
      BY <1>8, <1>9, <2>3, <3>1
    <3>3. Current([c.seg EXCEPT !.part.start = dts], c.disk, clock')
      <4> DEFINE x == [c.seg EXCEPT !.part = [c.seg.part EXCEPT !.start = dts]]
      <4>1. c.seg \in SegmentTypes /\ c.seg.part \in [start : Int, end : Int]
        BY <3>2 DEF Current, SegmentTypes
      <4>2. [c.seg.part EXCEPT !.start = dts] \in [start : Int, end : Int]
        BY <1>6, <4>1
      <4>3. x \in SegmentTypes /\ x.start = c.seg.start /\ x.file = c.seg.file
        BY <4>1, <4>2 DEF SegmentTypes
      <4>4. x = [c.seg EXCEPT !.part.start = dts]
        BY <4>1
      <4> HIDE DEF x
      <4>5. FileInv(x, c.disk)
        BY <3>2, <4>3 DEF Current, FileInv
      <4>6. Current(x, c.disk, clock')
        BY <3>2, <4>3, <4>5 DEF Current
      <4> QED BY <4>4, <4>6
    <3> QED BY <3>1, <3>2, <3>3 DEF Rec!Result
  <2>4. CASE q = Rec!Result(TRUE, segment, disk) /\ segment # Rec!NoSegment
    BY <1>8, <2>4 DEF Rec!Result
  <2> QED BY <1>10, <2>1, <2>2, <2>3, <2>4
<1> DEFINE Flushed(q) == IF q.ok THEN Rec!Result(TRUE, Rec!LastDTS(q.seg, dts), q.disk) ELSE q
           Leaves(r) == IF r.ok THEN segment' = r.seg /\ disk' = r.disk /\ UNCHANGED instance ELSE Rec!Fails(r)
<1>12. PICK q \in results : \E r \in Rec!Buffered(Flushed(q)) : Leaves(r)
  <2>1. \E r \in UNION {Rec!Buffered(Flushed(q)) : q \in results} : Leaves(r)
    BY Zenon, <1>10
  <2> HIDE DEF Flushed, Leaves
  <2> QED BY <2>1
<1> DEFINE p == Flushed(q)
<1>13. PICK r \in Rec!Buffered(p) : Leaves(r)
  BY Zenon, <1>12
<1>14. Sound(p)
  <2>1. Sound(q)
    BY <1>11
  <2>2. Current(Rec!LastDTS(q.seg, dts), q.disk, clock')
    BY <1>9, <2>1
  <2> QED BY <2>1, <2>2 DEF Rec!Result
<1> HIDE DEF p
<1>15. Sound(r)
  <2>1. CASE r = p \/ r \in Rec!Flush(p.seg, p.disk)
    BY <1>9, <1>14, <2>1
  <2>2. CASE r \in Rec!MuxerRefuses(p)
    <3> DEFINE broken == [p.seg EXCEPT !.part = Rec!NoPart]
    <3>1. Current(broken, p.disk, clock')
      <4>1. broken \in SegmentTypes /\ broken.start = p.seg.start /\ broken.file = p.seg.file
        BY <1>14, BrokenIs DEF Current, SameSegment
      <4> HIDE DEF broken
      <4>2. FileInv(broken, p.disk)
        BY <1>14, <4>1 DEF Current, FileInv
      <4> QED BY <1>14, <4>1, <4>2 DEF Current
    <3>2. r = Rec!Result(FALSE, p.seg, p.disk) \/ r = Rec!Result(FALSE, broken, p.disk)
      BY <2>2 DEF Rec!MuxerRefuses
    <3> HIDE DEF broken
    <3>3. r.ok = FALSE /\ r.disk = p.disk /\ (r.seg = p.seg \/ r.seg = broken)
      BY <3>2 DEF Rec!Result
    <3> QED BY <1>14, <3>1, <3>3
  <2> QED BY <1>13, <2>1, <2>2 DEF Rec!Buffered
<1>16. Current(segment', disk', clock') /\ instance' \in [id : Nat, at : {"reading", "failed"}]
  <2>1. CASE r.ok
    BY <1>4, <1>5, <1>13, <1>15, <2>1
  <2>2. CASE ~r.ok
    BY <1>5, <1>13, <1>15, <2>2 DEF Rec!Fails
  <2> QED BY <2>1, <2>2
<1>17. UNCHANGED <<recorder, closing, next, number>>
  BY <1>3 DEF Rec!WriteTS
<1> QED BY <1>4, <1>5, <1>16, <1>17, SegmentStep

LEMMA InstanceEndsStep ==
    ASSUME RecorderInv, DoubledTracks = {}, Rec!InstanceEnds
    PROVE  RecorderInv'
<1>1. PICK c \in IF segment = Rec!NoSegment THEN {Rec!Result(TRUE, segment, disk)} ELSE Rec!CloseSegment(segment, disk) :
          disk' = c.disk
  BY DEF Rec!InstanceEnds, Rec!FormatClose
<1>2. /\ instance' = [instance EXCEPT !.at = "done"] /\ next' = [t \in Tracks |-> Rec!Nothing]
      /\ number' = 0 /\ segment' = Rec!NoSegment /\ UNCHANGED <<recorder, closing, format, clock>>
  BY DEF Rec!InstanceEnds
<1>3. /\ instance \in [id : Nat, at : {"reading", "skipped", "failed", "closing", "done"}]
      /\ clock \in [Tracks -> 0 .. MaxTime] /\ disk \in Disks /\ segment \in SegmentTypes
      /\ \A t \in Tracks : clock[t] \in Nat
      /\ \A s \in Rec!Times : s \in Nat
  BY TimesAre DEF RecorderInv, RecorderTypes
<1>4. instance' \in [id : Nat, at : {"done"}]
  BY <1>2, <1>3
<1>5. disk' \in Disks /\ \A s \in Rec!Times : IsCompleted(disk'[s]) /\ (disk'[s].creates > 0 => \E t \in Tracks : s <= clock[t])
  <2>1. CASE segment = Rec!NoSegment
    <3>1. disk' = disk
      BY <1>1, <2>1 DEF Rec!Result
    <3> QED BY <1>3, <2>1, <3>1 DEF RecorderInv, DiskInv
  <2>2. CASE segment # Rec!NoSegment
    <3>1. Current(segment, disk, clock) /\ c \in Rec!CloseSegment(segment, disk)
      BY <1>1, <2>2 DEF RecorderInv, DiskInv
    <3>2. Writes(segment, disk, c) /\ c.seg.file # "open"
      BY <1>3, <3>1, CloseSegmentWrites DEF Current
    <3>3. Current(c.seg, c.disk, clock)
      BY <3>1, <3>2, CurrentWrites
    <3>4. \A s \in Rec!Times : c.disk[s] \in FileTypes
      BY <3>3 DEF Current, Disks
    <3>5. IsCompleted(c.disk[c.seg.start])
      BY <3>2, <3>3, <3>4 DEF Current, FileInv, IsToCome, IsCompleted, SegmentTypes, FileTypes
    <3>6. PICK t \in Tracks : c.seg.start <= clock[t]
      BY <3>3 DEF Current
    <3>7. c.seg.start \in Nat
      BY <1>3, <3>3 DEF Current
    <3>8. ASSUME NEW s \in Rec!Times, c.disk[s].creates > 0 PROVE s <= clock[t]
      <4>1. s <= c.seg.start
        BY <3>3, <3>8 DEF Current
      <4> QED BY <1>3, <3>6, <3>7, <4>1
    <3> QED BY <1>1, <3>3, <3>5, <3>8 DEF Current
  <2> QED BY <2>1, <2>2
<1>6. Rec!Nothing \in [dts : Int, sync : BOOLEAN] /\ Rec!NoSegment \in SegmentTypes
  BY DEF Rec!Nothing, Rec!NoSegment, Rec!NoPart, SegmentTypes, Losses
<1>7. RecorderTypes'
  BY <1>2, <1>4, <1>5, <1>6 DEF RecorderInv, RecorderTypes
<1>8. LifeInv'
  BY <1>2, <1>4 DEF RecorderInv, LifeInv
<1>9. SampleInv'
  BY <1>2 DEF SampleInv
<1>10. DiskInv'
  BY <1>2, <1>4, <1>5 DEF DiskInv
<1> QED BY <1>7, <1>8, <1>9, <1>10 DEF RecorderInv

LEMMA RestartStep ==
    ASSUME RecorderInv, DoubledTracks = {}, Rec!Restart
    PROVE  RecorderInv'
<1>1. /\ recorder = "pausing" /\ recorder' = "running"
      /\ instance' = [id |-> instance.id + 1, at |-> "reading"]
      /\ UNCHANGED <<closing, format, next, number, segment, disk>>
  BY DEF Rec!Restart, Rec!formatVars
<1>2. PICK furthest \in {clock[t] : t \in Tracks} :
          (\A t \in Tracks : clock[t] <= furthest) /\ clock' = [t \in Tracks |-> furthest]
  BY DEF Rec!Restart
<1>3. /\ instance \in [id : Nat, at : {"reading", "skipped", "failed", "closing", "done"}]
      /\ clock \in [Tracks -> 0 .. MaxTime] /\ clock' \in [Tracks -> 0 .. MaxTime]
      /\ \A t \in Tracks : clock[t] \in Nat /\ clock[t] <= clock'[t] /\ clock'[t] = furthest
      /\ furthest \in Nat /\ \A s \in Rec!Times : s \in Nat
  BY <1>2, TimesAre DEF RecorderInv, RecorderTypes
<1>4. segment = Rec!NoSegment /\ \A t \in Tracks : next[t] = Rec!Nothing
  BY <1>1 DEF RecorderInv, LifeInv
<1>5. RecorderTypes'
  BY <1>1, <1>3 DEF RecorderInv, RecorderTypes
<1>6. LifeInv'
  BY <1>1 DEF RecorderInv, LifeInv
<1>7. SampleInv'
  BY <1>1, <1>4 DEF SampleInv
<1>8. ASSUME NEW s \in Rec!Times, disk[s].creates > 0
      PROVE  (\E t \in Tracks : s <= clock'[t]) /\ \A t \in Tracks : s <= clock'[t]
  <2>1. PICK t \in Tracks : s <= clock[t]
    BY <1>4, <1>8 DEF RecorderInv, DiskInv
  <2> QED BY <1>2, <1>3, <2>1
<1>9. DiskInv'
  BY <1>1, <1>4, <1>8 DEF RecorderInv, DiskInv
<1> QED BY <1>5, <1>6, <1>7, <1>9 DEF RecorderInv

LEMMA QuietStep ==
    ASSUME RecorderInv, Rec!InstanceDone \/ Rec!Terminated \/ Rec!RunEnds \/ Rec!Close \/ Rec!CloseReturns
    PROVE  RecorderInv'
<1>1. UNCHANGED <<format, clock, next, number, segment, disk>>
  BY DEF Rec!InstanceDone, Rec!Terminated, Rec!RunEnds, Rec!Close, Rec!CloseReturns, Rec!formatVars
<1>2. /\ recorder' \in {"running", "pausing", "ended"} /\ closing' \in {"no", "waiting", "returned"}
      /\ instance' \in [id : Nat, at : {"reading", "skipped", "failed", "closing", "done"}]
      /\ instance' = instance \/ (instance.at # "done" /\ instance'.at = "closing")
  BY DEF RecorderInv, RecorderTypes, Rec!InstanceDone, Rec!Terminated, Rec!RunEnds, Rec!Close, Rec!CloseReturns
<1>3. RecorderTypes' /\ SampleInv'
  BY <1>1, <1>2 DEF RecorderInv, RecorderTypes, SampleInv
<1>4. LifeInv'
  BY <1>1, <1>2 DEF RecorderInv, RecorderTypes, LifeInv, Rec!InstanceDone, Rec!Terminated, Rec!RunEnds, Rec!Close, Rec!CloseReturns
<1>5. instance'.at = "reading" => instance.at = "reading"
  BY <1>2
<1>6. DiskInv'
  BY <1>1, <1>5 DEF RecorderInv, DiskInv
<1> QED BY <1>3, <1>4, <1>6 DEF RecorderInv

LEMMA RecorderStep ==
    ASSUME RecorderInv, DoubledTracks = {}, Rec!Next
    PROVE  RecorderInv'
<1>1. CASE \E t \in Tracks : Rec!OnDataFMP4(t)
  BY <1>1, FMP4Step
<1>2. CASE \E t \in Tracks : Rec!OnDataMPEGTS(t)
  BY <1>2, MPEGTSStep
<1>3. CASE \E t \in Tracks : Rec!OnDataSkipped(t) \/ Rec!OnDataError(t)
  <2>1. PICK t \in Tracks : Rec!OnDataSkipped(t) \/ Rec!OnDataError(t)
    BY <1>3
  <2>2. PICK step \in 1 .. MaxStep : Rec!Unit(t, step)
    BY <2>1 DEF Rec!OnDataSkipped, Rec!OnDataError
  <2>3. /\ clock' \in [Tracks -> 0 .. MaxTime] /\ instance.at = "reading"
        /\ \A u \in Tracks : clock[u] <= clock'[u]
        /\ format' = format
    BY <2>2, ClockStep
  <2>4. /\ UNCHANGED <<recorder, closing, segment, disk, number, next>>
        /\ instance' = instance \/ instance' = [instance EXCEPT !.at = "failed"]
    BY <2>1 DEF Rec!OnDataSkipped, Rec!OnDataError, Rec!lifeVars, Rec!formatVars
  <2>5. instance' \in [id : Nat, at : {"reading", "failed"}] /\ next' \in [Tracks -> [dts : Int, sync : BOOLEAN]]
    BY <2>3, <2>4 DEF RecorderInv, RecorderTypes
  <2> QED BY <2>3, <2>4, <2>5, SampleStep
<1> QED BY <1>1, <1>2, <1>3, InstanceEndsStep, RestartStep, QuietStep DEF Rec!Next

LEMMA RecorderEnds ==
    ASSUME RecorderInv, DoubledTracks = {}
    PROVE  Rec!HooksInOrder
<1>1. ASSUME NEW s \in Rec!Times
      PROVE  /\ disk[s].completes <= 1 /\ disk[s].completes <= disk[s].creates
             /\ ~disk[s].failed => disk[s].creates <= 1
             /\ ~disk[s].failed /\ instance.at = "done" => disk[s].completes = disk[s].creates
  <2>1. disk[s] \in FileTypes
    BY DEF RecorderInv, RecorderTypes, Disks
  <2>2. CASE segment = Rec!NoSegment \/ s # segment.start
    <3>1. IsCompleted(disk[s])
      BY <2>2 DEF RecorderInv, DiskInv, Current
    <3> QED BY <3>1 DEF IsCompleted
  <2>3. CASE segment # Rec!NoSegment /\ s = segment.start
    <3>1. FileInv(segment, disk) /\ segment.file \in {"none", "open", "closed"} /\ instance.at # "done"
      BY <2>3 DEF RecorderInv, DiskInv, LifeInv, Current, SegmentTypes
    <3>2. IsToCome(disk[s]) \/ IsOpened(disk[s]) \/ IsCompleted(disk[s])
      BY <2>3, <3>1 DEF FileInv
    <3> QED BY <2>1, <3>1, <3>2 DEF IsToCome, IsOpened, IsCompleted, FileTypes
  <2> QED BY <2>2, <2>3
<1>2. closing = "returned" => instance.at = "done"
  BY DEF RecorderInv, LifeInv
<1> QED BY <1>1, <1>2 DEF Rec!HooksInOrder

-----------------------------------------------------------------------------
(* One part at a time.                                                     *)

IInv ==
    /\ IsRecorder => RecorderInv
    /\ IsStream => StreamInv
    /\ IsCommand => CommandInv
    /\ IsPeer => PeerInv
    /\ IsAuth => AuthInv

LEMMA InvFirst == DoubledTracks = {} /\ Init => IInv
<1> SUFFICES ASSUME DoubledTracks = {}, Init PROVE IInv
  OBVIOUS
<1>1. /\ IsRecorder => Rec!Init
      /\ IsStream => Str!StreamInit
      /\ IsCommand => Cmd!CommandInit
      /\ IsPeer => Peer!PeerInit
      /\ IsAuth => Aut!AuthInit
  BY Zenon DEF Init
<1> QED BY <1>1, RecorderFirst, StreamFirst, CommandFirst, PeerFirst, AuthFirst DEF IInv

LEMMA InvUnchanged == IInv /\ UNCHANGED vars => IInv'
<1> SUFFICES ASSUME IInv, UNCHANGED vars PROVE IInv'
  OBVIOUS
<1>1. part' = part
  BY DEF vars
<1>2. RecorderInv => RecorderInv'
  BY DEF vars, recorderVars, RecorderInv, RecorderTypes, LifeInv, SampleInv, DiskInv
<1>3. StreamInv => StreamInv'
  BY DEF vars, streamVars, StreamInv, StreamTypes, WriterInv, ReaderInv
<1>4. CommandInv => CommandInv'
  BY DEF vars, commandVars, CommandInv, Cmd!CommandTypeOK, Cmd!Over
<1>5. PeerInv => PeerInv'
  BY DEF vars, peerVars, PeerInv, PeerTypes, SignalInv, CandidateInv, RunInv, Peer!Is
<1>6. AuthInv => AuthInv'
  BY DEF vars, authVars, AuthInv, PromiseInv, RequestInv
<1> QED BY <1>1, <1>2, <1>3, <1>4, <1>5, <1>6 DEF IInv, IsRecorder, IsStream, IsCommand, IsPeer, IsAuth

LEMMA InvStep == DoubledTracks = {} /\ IInv /\ Next => IInv'
<1> SUFFICES ASSUME DoubledTracks = {}, IInv, Next PROVE IInv'
  OBVIOUS
<1> USE DEF IsRecorder, IsStream, IsCommand, IsPeer, IsAuth
<1>1. CASE OfRecorder(Rec!Next)
  <2>1. part = "recorder" /\ part' = part /\ Rec!Next
    BY Zenon, <1>1 DEF OfRecorder
  <2> QED BY <2>1, RecorderStep DEF IInv
<1>2. CASE OfStream(Str!StreamNext)
  <2>1. part = "stream" /\ part' = part /\ Str!StreamNext
    BY Zenon, <1>2 DEF OfStream
  <2> QED BY <2>1, StreamStep DEF IInv
<1>3. CASE OfCommand(Cmd!CommandNext)
  <2>1. part = "command" /\ part' = part /\ Cmd!CommandNext
    BY Zenon, <1>3 DEF OfCommand
  <2> QED BY <2>1, CommandStep DEF IInv
<1>4. CASE OfPeer(Peer!PeerNext)
  <2>1. part = "peer" /\ part' = part /\ Peer!PeerNext
    BY Zenon, <1>4 DEF OfPeer
  <2> QED BY <2>1, PeerStep DEF IInv
<1>5. CASE OfAuth(Aut!AuthNext)
  <2>1. part = "authentication" /\ part' = part /\ Aut!AuthNext
    BY Zenon, <1>5 DEF OfAuth
  <2> QED BY <2>1, AuthStep DEF IInv
<1>6. CASE OfCleaner(Cln!CleanerNext)
  <2>1. part = "cleaner" /\ part' = part
    BY Zenon, <1>6 DEF OfCleaner, IsCleaner
  <2> QED BY <2>1 DEF IInv
<1>7. CASE OfCert(Crt!CertNext)
  <2>1. part = "certificate" /\ part' = part
    BY Zenon, <1>7 DEF OfCert, IsCert
  <2> QED BY <2>1 DEF IInv
<1>8. CASE OfEstimator(Est!EstimatorNext)
  <2>1. part = "estimator" /\ part' = part
    BY Zenon, <1>8 DEF OfEstimator, IsEstimator
  <2> QED BY <2>1 DEF IInv
<1>9. CASE OfProcessor(Pro!ProcessorNext)
  <2>1. part = "processor" /\ part' = part
    BY Zenon, <1>9 DEF OfProcessor, IsProcessor
  <2> QED BY <2>1 DEF IInv
<1> QED BY Zenon, <1>1, <1>2, <1>3, <1>4, <1>5, <1>6, <1>7, <1>8, <1>9 DEF Next

LEMMA InvEnds == DoubledTracks = {} /\ IInv => EndedForGood
<1>1. StreamInv => \A r \in Readers : Str!GoneForGood(r)
  BY DEF StreamInv, ReaderInv, WriterInv, StreamTypes, Str!GoneForGood
<1>2. CommandInv => Cmd!NoProcessLeft
  BY DEF CommandInv, Cmd!NoProcessLeft, Cmd!Over, Cmd!CommandTypeOK
<1>3. AuthInv => Aut!NothingRevoked
  BY DEF AuthInv, RequestInv, Aut!NothingRevoked
<1> QED BY <1>1, <1>2, <1>3, RecorderEnds, PeerEnds DEF IInv, EndedForGood

(* What has been told to end, and says it has, has.  No hook of a recorder *)
(* runs after Recorder.Close has returned; a segment is never complete     *)
(* before it is announced, nor twice, and one whose file could be written  *)
(* is announced once, and complete when its instance has ended.  No        *)
(* callback of a reader runs after Stream.RemoveReader, no process after   *)
(* its command or its pool, no goroutine of a peer connection waits after  *)
(* PeerConnection.Close; no request is granted by keys that had been       *)
(* replaced before it came.  The names of segments are the timestamps of   *)
(* the tracks: none are doubled.                                           *)
THEOREM EndedCorrect ==
    ASSUME DoubledTracks = {}
    PROVE  Spec => []EndedForGood
<1>1. Init => IInv
  BY InvFirst
<1>2. IInv /\ [Next]_vars => IInv'
  BY InvStep, InvUnchanged
<1>3. IInv => EndedForGood
  BY InvEnds
<1> QED BY <1>1, <1>2, <1>3, PTL DEF Spec
================================================================================
