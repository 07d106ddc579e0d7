----------------------------- MODULE ServersProofs -----------------------------
(***************************************************************************)
(* Theorems about the servers, for any number of clients and versions of   *)
(* the section: types, who has ended is neither a reader nor a publisher,  *)
(* the tables list who is there, a publisher is admitted as it was         *)
(* checked, and what each protocol promises alone.                         *)
(***************************************************************************)
EXTENDS MCServers, FiniteSetTheorems, TLAPS

(* What the five servers share, proved once.                               *)
Server == INSTANCE ProtocolServer

Over == {"none", "gone", "panicked"}

Client(places, sections) ==
    [at : places \cup Over \cup {"closing"}, role : {"none", "read", "publish", "auto", "requested"},
     ctxDone : BOOLEAN, checked : sections \cup {"none"}]

(* ServerTypeOK, of the versions of the section a protocol is checked with. *)
Typed(places, sections) ==
    /\ ctxDone \in BOOLEAN /\ loop \in {"running", "ended"} /\ closing \in {"no", "waiting", "returned"}
    /\ table \subseteq Clients
    /\ client \in [Clients -> Client(places, sections)]
    /\ member \in [Clients -> Server!MemberStates]
    /\ section \in sections

(* Who is listed has not ended, who is not is ending.                      *)
Table(c) ==
    /\ c \in table => (client[c].at # "gone" \/ ctxDone)
    /\ c \notin table /\ client[c].at \notin Over => client[c].ctxDone

(* What the loop and the path do to a client that is at something else: it *)
(* stays where it is, and may be told to go; one that has said farewell is *)
(* gone; and the path answers what it was asked.                           *)
Stays(c) ==
    /\ client'[c].role = client[c].role /\ client'[c].checked = client[c].checked
    /\ client'[c].at = client[c].at \/ (client[c].at = "closing" /\ client'[c].at = "gone")
    /\ client[c].ctxDone => client'[c].ctxDone

Answered(c) ==
    \/ member'[c] = member[c]
    \/ /\ member[c] \in {"askRead", "askPublish", "routed"}
       /\ member'[c] \in {"routed", "refused", "reader", "publisher"}
       /\ member'[c] = "routed" => member[c] = "askPublish" /\ client[c].checked \in {"none", section}
    \/ member[c] \in {"reader", "publisher"} /\ member'[c] = "out"

Quiet == \A c \in Clients : Stays(c) /\ Table(c)'

-----------------------------------------------------------------------------
(* The context of a client is done, or not, and nothing else changes.      *)
LEMMA ContextOnly ==
    ASSUME NEW places, NEW sections, NEW r \in Client(places, sections), NEW done \in BOOLEAN
    PROVE  LET s == [r EXCEPT !.ctxDone = done]
           IN  s \in Client(places, sections) /\ s.at = r.at /\ s.role = r.role
               /\ s.checked = r.checked /\ (s.ctxDone <=> done)
<1>1. [r EXCEPT !.ctxDone = done] = [at |-> r.at, role |-> r.role, ctxDone |-> done, checked |-> r.checked]
  BY DEF Client
<1> QED BY <1>1 DEF Client

LEMMA Told ==
    ASSUME NEW places, NEW sections, NEW r \in Client(places, sections), NEW s, s = [r EXCEPT !.ctxDone = TRUE]
    PROVE  s \in Client(places, sections) /\ s.at = r.at /\ s.role = r.role
           /\ s.checked = r.checked /\ s.ctxDone
<1>1. s \in Client(places, sections)
  BY DEF Client
<1> QED BY <1>1 DEF Client

LEMMA LeavingIs ==
    ASSUME NEW places, NEW sections, NEW r, r = Server!Leaving
    PROVE  r \in Client(places, sections) /\ r.at = "closing" /\ r.role = "none" /\ r.ctxDone
<1>1. r \in Client(places, sections)
  BY DEF Client, Over, Server!Leaving, Server!NewClient, Server!None
<1> QED BY <1>1 DEF Client, Server!Leaving, Server!NewClient, Server!None

LEMMA LoopStep ==
    ASSUME NEW places, NEW sections, Typed(places, sections), \A c \in Clients : Table(c),
           \/ \E c \in Clients : Server!ServeClosed(c) \/ Server!ServeKick(c)
           \/ \E error \in BOOLEAN : Server!LoopEnds(error)
           \/ Server!ServerClose \/ Server!ServerCloseReturns
    PROVE  Typed(places, sections)' /\ Quiet /\ UNCHANGED <<member, section>>
<1> USE DEF Typed, Quiet, Stays, Table, Client, Over, Server!pathVars
<1>1. ASSUME NEW c \in Clients, Server!ServeClosed(c)
      PROVE  Typed(places, sections)' /\ Quiet /\ UNCHANGED <<member, section>>
  BY <1>1 DEF Server!ServeClosed, Server!At, Server!Goes
<1>2. ASSUME NEW c \in Clients, Server!ServeKick(c)
      PROVE  Typed(places, sections)' /\ Quiet /\ UNCHANGED <<member, section>>
  BY ZenonT(40), <1>2 DEF Server!ServeKick
<1>3. CASE (\E error \in BOOLEAN : Server!LoopEnds(error)) \/ Server!ServerClose
  <2>1. Server!Cancel /\ UNCHANGED <<table, member, section>> /\ loop' \in {"running", "ended"}
        /\ closing' \in {"no", "waiting", "returned"}
    BY <1>3 DEF Server!LoopEnds, Server!ServerClose
  <2>2. \A c \in Clients : client'[c] = [client[c] EXCEPT !.ctxDone = @ \/ client[c].at # "none"]
    BY <2>1 DEF Server!Cancel, Server!At
  <2>3. ASSUME NEW c \in Clients PROVE client'[c] \in Client(places, sections) /\ Stays(c) /\ Table(c)'
    <3>1. client[c] \in Client(places, sections) /\ client[c].ctxDone \in BOOLEAN
      OBVIOUS
    <3>2. (client[c].ctxDone \/ client[c].at # "none") \in BOOLEAN
      BY <3>1
    <3>3. /\ client'[c] \in Client(places, sections)
          /\ client'[c].at = client[c].at /\ client'[c].role = client[c].role
          /\ client'[c].checked = client[c].checked
          /\ client'[c].ctxDone <=> (client[c].ctxDone \/ client[c].at # "none")
      <4> DEFINE done == client[c].ctxDone \/ client[c].at # "none"
      <4>1. client'[c] = [client[c] EXCEPT !.ctxDone = done]
        BY <2>2
      <4>2. done \in BOOLEAN
        BY <3>2
      <4> HIDE DEF done, Client
      <4>3. LET s == [client[c] EXCEPT !.ctxDone = done]
            IN  s \in Client(places, sections) /\ s.at = client[c].at /\ s.role = client[c].role
                /\ s.checked = client[c].checked /\ (s.ctxDone <=> done)
        BY <3>1, <4>2, ContextOnly
      <4> QED BY <4>1, <4>3 DEF done
    <3>4. Stays(c)
      BY <3>1, <3>3
    <3>5. Table(c)'
      <4>1. table' = table /\ ctxDone'
        BY <2>1 DEF Server!Cancel
      <4> QED BY <4>1, <3>3
    <3> QED BY <3>3, <3>4, <3>5
  <2>4. client' \in [Clients -> Client(places, sections)]
    BY ZenonT(40), <2>1, <2>3 DEF Server!Cancel
  <2> QED BY <2>1, <2>3, <2>4 DEF Server!Cancel
<1>4. CASE Server!ServerCloseReturns
  BY <1>4 DEF Server!ServerCloseReturns
<1> QED BY <1>1, <1>2, <1>3, <1>4

LEMMA PathStep ==
    ASSUME NEW places, NEW sections, Typed(places, sections), \A c \in Clients : Table(c),
           NEW c \in Clients, Server!ManagerFinds(c) \/ Server!PathAnswers(c) \/ Server!PathCloses(c),
           UNCHANGED <<ctxDone, loop, closing, table>>
    PROVE  Typed(places, sections)' /\ Quiet /\ \A d \in Clients : Answered(d)
<1> USE DEF Typed, Quiet, Stays, Table, Answered, Client, Over, Server!MemberStates, Server!Asks
<1>1. CASE Server!ManagerFinds(c)
  BY <1>1 DEF Server!ManagerFinds, Server!None
<1>2. CASE Server!PathCloses(c)
  <2>1. client' = [client EXCEPT ![c] = [client[c] EXCEPT !.ctxDone = TRUE]] /\ section' = section
        /\ member' = [member EXCEPT ![c] = "out"] /\ member[c] \in {"reader", "publisher"}
    BY <1>2 DEF Server!PathCloses
  <2>2. client[c] \in Client(places, sections)
    OBVIOUS
  <2>3. client'[c] \in Client(places, sections) /\ Stays(c) /\ Table(c)'
    <3>1. client'[c] = [client[c] EXCEPT !.ctxDone = TRUE]
      BY <2>1
    <3>2. client'[c] \in Client(places, sections) /\ client'[c].at = client[c].at /\ client'[c].role = client[c].role
          /\ client'[c].checked = client[c].checked /\ client'[c].ctxDone
      <4> HIDE DEF Client
      <4> QED BY <2>2, <3>1, Told
    <3> QED BY <3>2
  <2> QED BY <2>1, <2>3
<1>3. CASE member[c] = "askRead" /\ Server!PathAnswers(c)
  BY <1>3 DEF Server!PathAnswers
<1>4. CASE member[c] = "askPublish" /\ Server!PathAnswers(c)
  BY <1>4 DEF Server!PathAnswers
<1>5. CASE member[c] = "routed" /\ Server!PathAnswers(c)
  <2>1. CASE Server!Asks(c, "refused") /\ UNCHANGED <<client, section>>
    BY <1>5, <2>1
  <2>2. ASSUME NEW old \in {{p \in Clients : member[p] = "publisher"}}, section' = section,
               member' = [p \in Clients |-> IF p = c THEN "publisher" ELSE IF p \in old THEN "out" ELSE member[p]],
               client' = [p \in Clients |-> IF p \in old THEN [client[p] EXCEPT !.ctxDone = TRUE] ELSE client[p]]
        PROVE  Typed(places, sections)' /\ Quiet /\ \A d \in Clients : Answered(d)
    <3>1. ASSUME NEW d \in Clients
          PROVE  client'[d] \in Client(places, sections) /\ Stays(d) /\ Table(d)'
      <4>1. client[d] \in Client(places, sections) /\ client'[d] = IF d \in old THEN [client[d] EXCEPT !.ctxDone = TRUE] ELSE client[d]
        BY <2>2
      <4>2. CASE d \in old
        BY <4>1, <4>2, <2>2, Told
      <4>3. CASE d \notin old
        BY <4>1, <4>3, <2>2
      <4> QED BY <4>2, <4>3
    <3>2. client' \in [Clients -> Client(places, sections)]
      <4> HIDE DEF Client
      <4> QED BY <2>2, <3>1
    <3>3. ASSUME NEW d \in Clients PROVE Answered(d) /\ member'[d] \in Server!MemberStates
      <4>1. d \in old => member[d] = "publisher"
        BY <2>2
      <4> QED BY <1>5, <2>2, <4>1
    <3>4. member' \in [Clients -> Server!MemberStates]
      BY <2>2, <3>3
    <3> HIDE DEF Stays, Table, Answered, Client
    <3> QED BY <2>2, <3>1, <3>2, <3>3, <3>4
  <2> QED BY <1>5, <2>1, <2>2 DEF Server!PathAnswers
<1> QED BY <1>1, <1>2, <1>3, <1>4, <1>5 DEF Server!PathAnswers

(* A new client; it is what Opened says.                                   *)
LEMMA OpenStep ==
    ASSUME NEW places, NEW sections, Typed(places, sections), \A c \in Clients : Table(c),
           NEW c \in Clients, NEW at \in places, at \notin Over, Server!ServeOpen(c, at)
    PROVE  /\ Typed(places, sections)' /\ \A d \in Clients : Table(d)'
           /\ \A d \in Clients \ {c} : client'[d] = client[d]
           /\ client[c].at = "none"
           /\ client'[c] = [at |-> at, role |-> "none", ctxDone |-> ctxDone, checked |-> "none"]
           /\ UNCHANGED <<ctxDone, member, section>>
  BY DEF Typed, Table, Client, Over, Server!ServeOpen, Server!Opened, Server!NewClient, Server!None,
     Server!At, Server!pathVars

(* A client moves by itself.                                               *)
Moves(c, places, sections) ==
    /\ client' = [client EXCEPT ![c] = client'[c]] /\ client'[c] \in Client(places, sections)
    /\ client[c].at \notin Over /\ client'[c].at \notin Over /\ (client[c].ctxDone => client'[c].ctxDone)
    /\ member' \in [Clients -> Server!MemberStates] /\ \A d \in Clients \ {c} : member'[d] = member[d]

LEMMA MoveStep ==
    ASSUME NEW places, NEW sections, Typed(places, sections), \A c \in Clients : Table(c),
           NEW c \in Clients, Moves(c, places, sections),
           UNCHANGED <<ctxDone, loop, closing, table, section>>
    PROVE  /\ Typed(places, sections)' /\ \A d \in Clients : Table(d)'
           /\ \A d \in Clients \ {c} : client'[d] = client[d] /\ member'[d] = member[d]
  BY DEF Typed, Table, Over, Moves

-----------------------------------------------------------------------------
(* The inductive invariant, one part per protocol.                         *)

(* Who is at one of these places has no place in the path, and waits for   *)
(* nothing there.                                                          *)
Out(c, places) == client[c].at \in places => member[c] = "out"

(* Whoever asks to publish is a publisher, and the section it was checked  *)
(* against is known.                                                       *)
Asking(c) == member[c] \in {"askPublish", "routed"}
IsChecked(c) == client[c].role = "publish" => client[c].checked \in Sections

RTMPInv ==
    /\ http = <<>>
    /\ Typed({"handshake", "asking", "serving"}, OneSection)
    /\ \A c \in Clients : Table(c) /\ Out(c, Over \cup {"closing"})

(* What the invariant says of one client.                                  *)
SRTClient(c) ==
    /\ Out(c, Over \cup {"closing", "requested"}) /\ IsChecked(c)
    /\ Asking(c) => client[c].at = "asking" /\ client[c].role = "publish"

SRTInv ==
    /\ http = <<>>
    /\ Typed({"requested", "accepted", "asking", "serving"}, Sections)
    /\ \A c \in Clients : Table(c) /\ SRTClient(c)

(* The POST of a session, by where the session is.                         *)
PostIsAt(c) ==
    LET post == http[c].post
        at == client[c].at
    IN  /\ at = "none" => post = "none"
        /\ at = "created" => post \in {"created", "refused"}
        /\ at = "offered" => post = "waiting" /\ client[c].role \in {"read", "publish"}
        /\ at = "asking" => post = (IF client[c].role = "read" THEN "waiting" ELSE "answered")
                            /\ client[c].role \in {"read", "publish"}
        /\ at = "connecting" => post = "answered" /\ client[c].role \in {"read", "publish"}
        /\ at = "serving" => post = "answered"
        /\ at \in {"closing", "gone", "panicked"} => post \in {"created", "answered", "refused"}
        /\ http[c].answers = IF post \in {"answered", "refused"} THEN 1 ELSE 0

(* The POST and the PATCH of one session.                                  *)
Requests == [post : {"none", "created", "waiting", "answered", "refused"}, answers : {0, 1},
             patch : {"none", "found", "lost"}]

WebRTCClient(c) ==
    /\ Out(c, Over \cup {"closing", "created"}) /\ IsChecked(c)
    /\ Asking(c) => client[c].at = "asking" /\ client[c].role = "publish"
    /\ PostIsAt(c)

WebRTCInv ==
    /\ Typed({"created", "offered", "asking", "connecting", "serving"}, Sections)
    /\ http \in [Clients -> Requests]
    /\ \A c \in Clients : Table(c) /\ WebRTCClient(c)

(* What a session of RTSP holds of its path, by its state: while nobody    *)
(* has kicked it, it is in the path only between SETUP and the end, or     *)
(* while a handler waits; one that was kicked is cut off or out.           *)
HoldsPath(c) ==
    LET at == client[c].at
        s == http[c]
    IN  /\ at \notin {"closing", "panicked"}
        /\ at = "none" => member[c] = "out" /\ s = RTSP!NewSessionData
        /\ c \in table => at \notin Over /\ ~s.cut
        /\ ~s.cut /\ s.handler = "none" =>
               /\ member[c] \in {"out", "reader", "publisher"}
               /\ at \notin {"prePlay", "play", "record"} => member[c] = "out"
        /\ ~s.cut /\ c \notin table /\ at \notin Over => member[c] = "out" /\ s.handler = "none"
        /\ s.handler = "setup" => at \in {"initial", "prePlay"}
        /\ s.handler = "record" => at = "preRecord"
        /\ s.hook <=> at = "play" /\ c \in table
        /\ at \in {"prePlay", "play", "record"} /\ c \in table => s.path
        /\ at = "gone" /\ ~s.cut => member[c] = "out"
        /\ member[c] = "askPublish" => s.handler = "record" /\ client[c].role = "publish"
        /\ at \in {"preRecord", "record"} => client[c].role = "publish"

SessionData == [handler : {"none", "setup", "record"}, path : BOOLEAN, hook : BOOLEAN, cut : BOOLEAN]

RTSPClient(c) == Table(c) /\ IsChecked(c) /\ HoldsPath(c)

RTSPInv ==
    /\ Typed({"initial", "prePlay", "play", "preRecord", "record"}, Sections)
    /\ http \in [Clients -> SessionData]
    /\ \A c \in Clients : RTSPClient(c)

(* With alwaysRemux a muxer is missing, or on its way out while its path   *)
(* is ready, only if that was noted; and no other muxer is there than the  *)
(* one of the path that is ready, but for a path that was removed.         *)
Remuxed ==
    /\ \A c \in table : client[c].role = "auto"
    /\ http.listed /\ http.ready /\ http.notice = "none" /\ ~ctxDone
       /\ (\A c \in table : client[c].ctxDone \/ client[c].at = "closing") => http.lost # "no"
    /\ http.listed /\ ~http.removed /\ ~ctxDone /\ table # {} =>
           (http.ready /\ http.notice = "none") \/ http.notice = "notReady"
    /\ http.lost = "dying" => http.removed \/ ctxDone

(* What the server knows of the path, and the muxers in the table.         *)
Muxers ==
    /\ \A c, d \in table : c = d
    /\ ~http.listed => table = {} /\ http.notice = "none"
    /\ http.notice = "notReady" => ~http.ready
    /\ http.notice = "ready" => http.ready
    /\ http.remux => Remuxed

HttpData == [remux : BOOLEAN, listed : BOOLEAN, ready : BOOLEAN, notice : {"none", "ready", "notReady"},
             get : {"none", "muxer"}, muxer : SUBSET Clients, lost : {"no", "dying", "gaveUp"}, removed : BOOLEAN]
MuxerPlaces == {"created", "asking", "running", "paused"}

HLSClient(c) == Table(c) /\ Out(c, Over \cup {"closing"})

HLSInv == Typed(MuxerPlaces, OneSection) /\ http \in HttpData /\ Muxers /\ \A c \in Clients : HLSClient(c)

IInv ==
    /\ proto \in {"rtmp", "srt", "rtsp", "webrtc", "hls"}
    /\ proto = "rtmp" => RTMPInv
    /\ proto = "srt" => SRTInv
    /\ proto = "rtsp" => RTSPInv
    /\ proto = "webrtc" => WebRTCInv
    /\ proto = "hls" => HLSInv

-----------------------------------------------------------------------------
(* Each server is this server.                                             *)

LoopSteps ==
    \/ \E c \in Clients : Server!ServeClosed(c) \/ Server!ServeKick(c)
    \/ \E error \in BOOLEAN : Server!LoopEnds(error)
    \/ Server!ServerClose \/ Server!ServerCloseReturns

PathStepOf(c) ==
    /\ Server!ManagerFinds(c) \/ Server!PathAnswers(c) \/ Server!PathCloses(c)
    /\ UNCHANGED <<ctxDone, loop, closing, table>>

Reloaded(sections) ==
    section' \in sections /\ UNCHANGED <<ctxDone, loop, closing, table, client, member>>

LEMMA RTMPIs ==
    /\ \A c \in Clients :
           /\ RTMP!ServeOpen(c, "handshake") = Server!ServeOpen(c, "handshake")
           /\ RTMP!ServeClosed(c) = Server!ServeClosed(c)
           /\ RTMP!ServeKick(c) = Server!ServeKick(c)
           /\ RTMP!ManagerFinds(c) = Server!ManagerFinds(c)
           /\ RTMP!PathAnswers(c) = Server!PathAnswers(c)
           /\ RTMP!PathCloses(c) = Server!PathCloses(c)
    /\ \A error \in BOOLEAN : RTMP!LoopEnds(error) = Server!LoopEnds(error)
    /\ RTMP!ServerClose = Server!ServerClose
    /\ RTMP!ServerCloseReturns = Server!ServerCloseReturns
  BY DEF RTMP!ServeOpen, Server!ServeOpen, RTMP!ServeClosed, Server!ServeClosed, RTMP!ServeKick, Server!ServeKick,
     RTMP!LoopEnds, Server!LoopEnds, RTMP!ServerClose, Server!ServerClose,
     RTMP!ServerCloseReturns, Server!ServerCloseReturns, RTMP!ManagerFinds, Server!ManagerFinds,
     RTMP!PathAnswers, Server!PathAnswers, RTMP!PathCloses, Server!PathCloses,
     RTMP!At, Server!At, RTMP!Goes, Server!Goes, RTMP!Asks, Server!Asks, RTMP!Cancel, Server!Cancel,
     RTMP!Opened, Server!Opened, RTMP!NewClient, Server!NewClient, RTMP!None, Server!None,
     RTMP!Ended, Server!Ended, RTMP!pathVars, Server!pathVars

LEMMA RTMPSplit ==
    ASSUME RTMP!RTMPNext
    PROVE  /\ UNCHANGED http
           /\ \/ \E c \in Clients : Server!ServeOpen(c, "handshake")
              \/ LoopSteps
              \/ \E c \in Clients : PathStepOf(c)
              \/ Reloaded(OneSection)
              \/ \E c \in Clients : RTMP!ConnSteps(c) /\ UNCHANGED <<ctxDone, loop, closing, table, section>>
<1>1. CASE RTMP!ServerSteps
  BY <1>1, RTMPIs DEF RTMP!ServerSteps, RTMP!Server, RTMP!NewConn, RTMP!CloseConn, RTMP!APIConnsKick,
     RTMP!Close, RTMP!CloseReturns, RTMP!RunEnds, RTMP!AcceptError, LoopSteps
<1>2. CASE \E c \in Clients : RTMP!ConnSteps(c)
  BY <1>2 DEF RTMP!ConnSteps, RTMP!RunRead, RTMP!RunPublish, RTMP!PathAnswered, RTMP!RunEnded, RTMP!Conn, RTMP!serverVars
<1>3. CASE RTMP!PathSteps
  BY <1>3, RTMPIs DEF RTMP!PathSteps, RTMP!PathGoesOn, RTMP!Path, RTMP!SectionReloaded, RTMP!serverVars, PathStepOf, Reloaded
<1> QED BY <1>1, <1>2, <1>3 DEF RTMP!RTMPNext

LEMMA RTMPStep ==
    ASSUME RTMPInv, RTMP!RTMPNext
    PROVE  RTMPInv'
<1> DEFINE places == {"handshake", "asking", "serving"}
<1> USE DEF Out, Over
<1>0. http' = <<>> /\ Typed(places, OneSection) /\ \A c \in Clients : Table(c)
  BY RTMPSplit DEF RTMPInv
<1>1. ASSUME NEW c \in Clients, Server!ServeOpen(c, "handshake")
      PROVE  RTMPInv'
  BY <1>0, <1>1, OpenStep DEF RTMPInv
<1>2. CASE LoopSteps
  BY <1>0, <1>2, LoopStep DEF RTMPInv, LoopSteps, Quiet, Stays, Typed
<1>3. ASSUME NEW c \in Clients, PathStepOf(c)
      PROVE  RTMPInv'
  BY <1>0, <1>3, PathStep DEF RTMPInv, PathStepOf, Quiet, Stays, Answered
<1>4. CASE Reloaded(OneSection)
  BY <1>0, <1>4 DEF RTMPInv, Reloaded, Typed, Table
<1>5. ASSUME NEW c \in Clients, RTMP!ConnSteps(c), UNCHANGED <<ctxDone, loop, closing, table, section>>
      PROVE  RTMPInv'
  <2>0. /\ client[c] \in Client(places, OneSection) /\ Out(c, Over \cup {"closing"})
        /\ client \in [Clients -> Client(places, OneSection)] /\ member \in [Clients -> Server!MemberStates]
    BY <1>0 DEF RTMPInv, Typed
  <2>1. Moves(c, places, OneSection) /\ Out(c, Over \cup {"closing"})'
    <3> USE DEF Moves, RTMP!Conn, RTMP!At, RTMP!Asks, Client, Server!MemberStates
    <3>1. CASE RTMP!RunRead(c) \/ RTMP!RunPublish(c)
      BY <2>0, <3>1 DEF RTMP!RunRead, RTMP!RunPublish
    <3>2. CASE RTMP!PathAnswered(c)
      <4>1. CASE member[c] \in {"reader", "publisher", "out"} /\ RTMP!Goes(c, "serving") /\ UNCHANGED member
        BY <2>0, <3>2, <4>1 DEF RTMP!PathAnswered, RTMP!Goes
      <4>2. CASE RTMP!Leaves(c) /\ RTMP!Asks(c, "out")
        BY <2>0, <3>2, <4>2 DEF RTMP!PathAnswered, RTMP!Leaves, RTMP!Leaving, RTMP!NewClient, RTMP!None
      <4> QED BY <3>2, <4>1, <4>2 DEF RTMP!PathAnswered
    <3>3. CASE RTMP!RunEnded(c)
      BY <2>0, <3>3 DEF RTMP!RunEnded, RTMP!Leaves, RTMP!Leaving, RTMP!NewClient, RTMP!None
    <3> QED BY <1>5, <3>1, <3>2, <3>3 DEF RTMP!ConnSteps
  <2>2. /\ Typed(places, OneSection)' /\ \A d \in Clients : Table(d)'
        /\ \A d \in Clients \ {c} : client'[d] = client[d] /\ member'[d] = member[d]
    BY <1>0, <1>5, <2>1, MoveStep
  <2>3. \A d \in Clients : Out(d, Over \cup {"closing"})'
    BY <2>1, <2>2 DEF RTMPInv
  <2> QED BY <1>0, <2>2, <2>3 DEF RTMPInv
<1> QED BY <1>1, <1>2, <1>3, <1>4, <1>5, RTMPSplit

-----------------------------------------------------------------------------
LEMMA SRTIs ==
    /\ \A c \in Clients :
           /\ SRT!ServeOpen(c, "requested") = Server!ServeOpen(c, "requested")
           /\ SRT!ServeClosed(c) = Server!ServeClosed(c)
           /\ SRT!ServeKick(c) = Server!ServeKick(c)
           /\ SRT!ManagerFinds(c) = Server!ManagerFinds(c)
           /\ SRT!PathAnswers(c) = Server!PathAnswers(c)
           /\ SRT!PathCloses(c) = Server!PathCloses(c)
    /\ \A error \in BOOLEAN : SRT!LoopEnds(error) = Server!LoopEnds(error)
    /\ SRT!ServerClose = Server!ServerClose
    /\ SRT!ServerCloseReturns = Server!ServerCloseReturns
  BY DEF SRT!ServeOpen, Server!ServeOpen, SRT!ServeClosed, Server!ServeClosed, SRT!ServeKick, Server!ServeKick,
     SRT!LoopEnds, Server!LoopEnds, SRT!ServerClose, Server!ServerClose,
     SRT!ServerCloseReturns, Server!ServerCloseReturns, SRT!ManagerFinds, Server!ManagerFinds,
     SRT!PathAnswers, Server!PathAnswers, SRT!PathCloses, Server!PathCloses,
     SRT!At, Server!At, SRT!Goes, Server!Goes, SRT!Asks, Server!Asks, SRT!Cancel, Server!Cancel,
     SRT!Opened, Server!Opened, SRT!NewClient, Server!NewClient, SRT!None, Server!None,
     SRT!Ended, Server!Ended, SRT!pathVars, Server!pathVars

LEMMA SRTSplit ==
    ASSUME SRT!SRTNext
    PROVE  /\ UNCHANGED http
           /\ \/ \E c \in Clients : Server!ServeOpen(c, "requested")
              \/ LoopSteps
              \/ \E c \in Clients : PathStepOf(c)
              \/ Reloaded(Sections)
              \/ \E c \in Clients : SRT!ConnSteps(c) /\ UNCHANGED <<ctxDone, loop, closing, table, section>>
<1>1. CASE SRT!ServerSteps
  BY <1>1, SRTIs DEF SRT!ServerSteps, SRT!Server, SRT!NewConnRequest, SRT!CloseConn, SRT!APIConnsKick,
     SRT!Close, SRT!CloseReturns, SRT!RunEnds, SRT!AcceptError, LoopSteps
<1>2. CASE \E c \in Clients : SRT!ConnSteps(c)
  BY <1>2 DEF SRT!ConnSteps, SRT!StreamIDRefused, SRT!RunPublish, SRT!RunPublishReader, SRT!RunRead, SRT!PathAnswered,
     SRT!AddReader, SRT!RunEnded, SRT!Conn, SRT!serverVars
<1>3. CASE SRT!PathSteps
  BY <1>3, SRTIs DEF SRT!PathSteps, SRT!PathGoesOn, SRT!Path, SRT!SectionReloaded, SRT!serverVars, PathStepOf, Reloaded
<1> QED BY <1>1, <1>2, <1>3 DEF SRT!SRTNext

LEMMA SRTStep ==
    ASSUME SRTInv, SRT!SRTNext
    PROVE  SRTInv' /\ \A c \in Clients : SRT!AdmittedAsChecked(c)
<1> DEFINE places == {"requested", "accepted", "asking", "serving"}
           Good == SRTInv' /\ \A c \in Clients : SRT!AdmittedAsChecked(c)
<1>0. /\ http' = <<>> /\ Typed(places, Sections) /\ \A c \in Clients : Table(c) /\ SRTClient(c)
      /\ "none" \notin Sections
  BY SRTSplit, ServersAssumption DEF SRTInv, SRT!SectionsAssumption
<1>a. ASSUME Typed(places, Sections)', \A c \in Clients : Table(c)' /\ SRTClient(c)' /\ SRT!AdmittedAsChecked(c)
      PROVE  Good
  BY <1>0, <1>a DEF SRTInv
<1> USE DEF SRTClient, Out, Over, IsChecked, Asking, SRT!AdmittedAsChecked
<1>1. ASSUME NEW c \in Clients, Server!ServeOpen(c, "requested")
      PROVE  Good
  <2>1. /\ Typed(places, Sections)' /\ \A d \in Clients : Table(d)'
        /\ \A d \in Clients \ {c} : client'[d] = client[d]
        /\ client[c].at = "none"
        /\ client'[c] = [at |-> "requested", role |-> "none", ctxDone |-> ctxDone, checked |-> "none"]
        /\ UNCHANGED <<ctxDone, member, section>>
    BY <1>0, <1>1, OpenStep
  <2> QED BY <1>0, <2>1, <1>a
<1>2. CASE LoopSteps
  <2>1. Typed(places, Sections)' /\ Quiet /\ UNCHANGED <<member, section>>
    BY <1>0, <1>2, LoopStep DEF LoopSteps
  <2> QED BY <1>0, <2>1, <1>a DEF Quiet, Stays
<1>3. ASSUME NEW c \in Clients, PathStepOf(c)
      PROVE  Good
  <2>1. Typed(places, Sections)' /\ Quiet /\ \A d \in Clients : Answered(d)
    BY <1>0, <1>3, PathStep DEF PathStepOf
  <2>2. ASSUME NEW d \in Clients PROVE Table(d)' /\ SRTClient(d)' /\ SRT!AdmittedAsChecked(d)
    <3>1. Stays(d) /\ Table(d)' /\ Answered(d) /\ SRTClient(d)
      BY <1>0, <2>1 DEF Quiet
    <3>2. Out(d, Over \cup {"closing", "requested"})' BY <3>1 DEF Stays, Answered
    <3>3. IsChecked(d)' BY <3>1 DEF Stays
    <3>4. Asking(d)' => Asking(d) BY <3>1 DEF Answered
    <3>5. Asking(d)' => client'[d].at = "asking" /\ client'[d].role = "publish"
      <4>1. Asking(d) => client[d].at = "asking" /\ client[d].role = "publish" BY <3>1
      <4> HIDE DEF Asking
      <4> QED BY <3>1, <3>4, <4>1 DEF Stays
    <3>6. SRT!AdmittedAsChecked(d) BY <1>0, <3>1 DEF Answered
    <3> QED BY <3>1, <3>2, <3>3, <3>5, <3>6
  <2> QED BY <2>1, <2>2, <1>a
<1>4. CASE Reloaded(Sections)
  BY <1>0, <1>4, <1>a DEF Reloaded, Typed, Table
<1>5. ASSUME NEW c \in Clients, SRT!ConnSteps(c), UNCHANGED <<ctxDone, loop, closing, table, section>>
      PROVE  Good
  <2>0. /\ client[c] \in Client(places, Sections) /\ SRTClient(c) /\ section \in Sections
        /\ client \in [Clients -> Client(places, Sections)] /\ member \in [Clients -> Server!MemberStates]
    BY <1>0 DEF Typed
  <2>1. Moves(c, places, Sections) /\ SRTClient(c)' /\ SRT!AdmittedAsChecked(c)
    <3> USE DEF Moves, SRT!Conn, SRT!At, SRT!Asks, Client, Server!MemberStates
    <3>1. CASE SRT!RunPublish(c) \/ SRT!RunRead(c)
      BY <2>0, <3>1 DEF SRT!RunPublish, SRT!RunRead
    <3>2. CASE SRT!RunPublishReader(c) \/ SRT!AddReader(c)
      BY <2>0, <3>2 DEF SRT!RunPublishReader, SRT!AddReader, SRT!Goes
    <3>3. CASE SRT!PathAnswered(c)
      <4>1. CASE member[c] \in {"reader", "publisher", "out"} /\ UNCHANGED member
                 /\ SRT!Goes(c, IF client[c].role = "read" THEN "accepted" ELSE "serving")
        BY <2>0, <3>3, <4>1 DEF SRT!PathAnswered, SRT!Goes
      <4>2. CASE SRT!Leaves(c) /\ SRT!Asks(c, "out")
        BY <2>0, <3>3, <4>2 DEF SRT!PathAnswered, SRT!Leaves, SRT!Leaving, SRT!NewClient, SRT!None
      <4> QED BY <3>3, <4>1, <4>2 DEF SRT!PathAnswered
    <3>4. CASE SRT!RunEnded(c)
      BY <2>0, <3>4 DEF SRT!RunEnded, SRT!Leaves, SRT!Leaving, SRT!NewClient, SRT!None
    <3>5. CASE SRT!StreamIDRefused(c)
      BY <2>0, <3>5 DEF SRT!StreamIDRefused, SRT!Leaves, SRT!Leaving, SRT!NewClient, SRT!None
    <3> QED BY <1>5, <3>1, <3>2, <3>3, <3>4, <3>5 DEF SRT!ConnSteps
  <2>2. /\ Typed(places, Sections)' /\ \A d \in Clients : Table(d)'
        /\ \A d \in Clients \ {c} : client'[d] = client[d] /\ member'[d] = member[d]
    BY <1>0, <1>5, <2>1, MoveStep
  <2> QED BY <1>0, <2>1, <2>2, <1>a
<1> QED BY <1>1, <1>2, <1>3, <1>4, <1>5, SRTSplit

-----------------------------------------------------------------------------
LEMMA WebRTCIs ==
    /\ \A c \in Clients :
           /\ WebRTC!ServeOpen(c, "created") = Server!ServeOpen(c, "created")
           /\ WebRTC!ServeClosed(c) = Server!ServeClosed(c)
           /\ WebRTC!ServeKick(c) = Server!ServeKick(c)
           /\ WebRTC!ManagerFinds(c) = Server!ManagerFinds(c)
           /\ WebRTC!PathAnswers(c) = Server!PathAnswers(c)
           /\ WebRTC!PathCloses(c) = Server!PathCloses(c)
    /\ \A error \in BOOLEAN : WebRTC!LoopEnds(error) = Server!LoopEnds(error)
    /\ WebRTC!ServerClose = Server!ServerClose
    /\ WebRTC!ServerCloseReturns = Server!ServerCloseReturns
    /\ WebRTC!Leaving = Server!Leaving
  BY DEF WebRTC!Leaving, Server!Leaving, WebRTC!ServeOpen, Server!ServeOpen, WebRTC!ServeClosed, Server!ServeClosed, WebRTC!ServeKick, Server!ServeKick,
     WebRTC!LoopEnds, Server!LoopEnds, WebRTC!ServerClose, Server!ServerClose,
     WebRTC!ServerCloseReturns, Server!ServerCloseReturns, WebRTC!ManagerFinds, Server!ManagerFinds,
     WebRTC!PathAnswers, Server!PathAnswers, WebRTC!PathCloses, Server!PathCloses,
     WebRTC!At, Server!At, WebRTC!Goes, Server!Goes, WebRTC!Asks, Server!Asks, WebRTC!Cancel, Server!Cancel,
     WebRTC!Opened, Server!Opened, WebRTC!NewClient, Server!NewClient, WebRTC!None, Server!None,
     WebRTC!Ended, Server!Ended, WebRTC!pathVars, Server!pathVars

(* A request that changes nothing of the sessions.                         *)
RequestOnly(c) ==
    /\ WebRTC!RequestSteps(c) \/ WebRTC!AddSessionCandidates(c)
    /\ UNCHANGED <<ctxDone, loop, closing, table, client, member, section>>

LEMMA WebRTCSplit ==
    ASSUME WebRTC!WebRTCNext
    PROVE  \/ \E c \in Clients : Server!ServeOpen(c, "created") /\ http' = [http EXCEPT ![c].post = "created"]
           \/ LoopSteps /\ UNCHANGED http
           \/ \E c \in Clients : PathStepOf(c) /\ UNCHANGED http
           \/ Reloaded(Sections) /\ UNCHANGED http
           \/ \E c \in Clients : RequestOnly(c)
           \/ \E c \in Clients : WebRTC!SessionSteps(c) /\ UNCHANGED <<ctxDone, loop, closing, table, section>>
<1>1. CASE WebRTC!ServerSteps
  BY <1>1, WebRTCIs DEF WebRTC!ServerSteps, WebRTC!Server, WebRTC!NewSession, WebRTC!CloseSession, WebRTC!APISessionsKick,
     WebRTC!DeleteSession, WebRTC!AddSessionCandidates, WebRTC!Request, WebRTC!serverVars, WebRTC!pathVars,
     WebRTC!Close, WebRTC!CloseReturns, WebRTC!RunEnds, LoopSteps, RequestOnly
<1>2. CASE \E c \in Clients : WebRTC!SessionSteps(c)
  BY ZenonT(40), <1>2 DEF WebRTC!SessionSteps, WebRTC!NeverStarted, WebRTC!RunPublish, WebRTC!RunRead, WebRTC!ReaderAnswered,
     WebRTC!WriteAnswer, WebRTC!Connected, WebRTC!PublisherAnswered, WebRTC!RunEnded, WebRTC!Session, WebRTC!serverVars
<1>3. CASE \E c \in Clients : WebRTC!RequestSteps(c)
  BY <1>3 DEF RequestOnly, WebRTC!RequestSteps, WebRTC!NewSkipped, WebRTC!CandidatesAdded, WebRTC!CandidatesSkipped,
     WebRTC!Request, WebRTC!serverVars, WebRTC!pathVars
<1>4. CASE WebRTC!PathSteps
  BY <1>4, WebRTCIs DEF WebRTC!PathSteps, WebRTC!PathGoesOn, WebRTC!Path, WebRTC!SectionReloaded, WebRTC!serverVars, PathStepOf, Reloaded
<1> QED BY <1>1, <1>2, <1>3, <1>4 DEF WebRTC!WebRTCNext

LEMMA WebRTCStep ==
    ASSUME WebRTCInv, WebRTC!WebRTCNext
    PROVE  WebRTCInv' /\ \A c \in Clients : SRT!AdmittedAsChecked(c)
<1> DEFINE places == {"created", "offered", "asking", "connecting", "serving"}
           Good == WebRTCInv' /\ \A c \in Clients : SRT!AdmittedAsChecked(c)
<1>0. /\ Typed(places, Sections) /\ \A c \in Clients : Table(c) /\ WebRTCClient(c)
      /\ http \in [Clients -> Requests] /\ "none" \notin Sections
  BY ServersAssumption DEF WebRTCInv, SRT!SectionsAssumption
<1>a. ASSUME Typed(places, Sections)', http' \in [Clients -> Requests],
             \A c \in Clients : Table(c)' /\ WebRTCClient(c)' /\ SRT!AdmittedAsChecked(c)
      PROVE  Good
  BY <1>0, <1>a DEF WebRTCInv
<1> USE DEF WebRTCClient, Out, Over, IsChecked, Asking, SRT!AdmittedAsChecked
<1>1. ASSUME NEW c \in Clients, Server!ServeOpen(c, "created"), http' = [http EXCEPT ![c].post = "created"]
      PROVE  Good
  <2>1. /\ Typed(places, Sections)' /\ \A d \in Clients : Table(d)'
        /\ \A d \in Clients \ {c} : client'[d] = client[d]
        /\ client[c].at = "none"
        /\ client'[c] = [at |-> "created", role |-> "none", ctxDone |-> ctxDone, checked |-> "none"]
        /\ UNCHANGED <<ctxDone, member, section>>
    BY <1>0, <1>1, OpenStep
  <2>2. http' \in [Clients -> Requests]
    BY <1>0, <1>1 DEF Requests
  <2>3. WebRTCClient(c)'
    BY <1>0, <1>1, <2>1 DEF Requests, PostIsAt
  <2>4. \A d \in Clients \ {c} : http'[d] = http[d]
    BY <1>0, <1>1
  <2>5. \A d \in Clients \ {c} : WebRTCClient(d)'
    BY <1>0, <2>1, <2>4 DEF PostIsAt
  <2> QED BY <2>1, <2>2, <2>3, <2>5, <1>a
<1>2. CASE LoopSteps /\ UNCHANGED http
  <2>1. Typed(places, Sections)' /\ Quiet /\ UNCHANGED <<member, section>>
    BY <1>0, <1>2, LoopStep DEF LoopSteps
  <2>2. \A d \in Clients : Stays(d) /\ Table(d)' /\ WebRTCClient(d)
    BY <1>0, <2>1 DEF Quiet
  <2>3. \A d \in Clients : PostIsAt(d)'
    BY <1>2, <2>2 DEF Stays, PostIsAt
  <2>4. \A d \in Clients : WebRTCClient(d)' /\ SRT!AdmittedAsChecked(d)
    BY <2>1, <2>2, <2>3 DEF Stays
  <2> QED BY <1>0, <1>2, <2>1, <2>2, <2>4, <1>a
<1>3. ASSUME NEW c \in Clients, PathStepOf(c), UNCHANGED http
      PROVE  Good
  <2>1. Typed(places, Sections)' /\ Quiet /\ \A d \in Clients : Answered(d)
    BY <1>0, <1>3, PathStep DEF PathStepOf
  <2>2. ASSUME NEW d \in Clients PROVE Table(d)' /\ WebRTCClient(d)' /\ SRT!AdmittedAsChecked(d)
    <3>1. Stays(d) /\ Table(d)' /\ Answered(d) /\ WebRTCClient(d)
      BY <1>0, <2>1 DEF Quiet
    <3>2. Out(d, Over \cup {"closing", "created"})' BY <3>1 DEF Stays, Answered
    <3>3. IsChecked(d)' BY <3>1 DEF Stays
    <3>4. Asking(d)' => Asking(d) BY <3>1 DEF Answered
    <3>5. Asking(d)' => client'[d].at = "asking" /\ client'[d].role = "publish"
      BY <3>1, <3>4 DEF Stays
    <3>6. SRT!AdmittedAsChecked(d) BY <1>0, <3>1 DEF Answered
    <3>7. PostIsAt(d)' BY <1>3, <3>1 DEF Stays, PostIsAt
    <3> QED BY <3>1, <3>2, <3>3, <3>5, <3>6, <3>7
  <2> QED BY <1>0, <1>3, <2>1, <2>2, <1>a
<1>4. CASE Reloaded(Sections) /\ UNCHANGED http
  BY <1>0, <1>4, <1>a DEF Reloaded, Typed, Table, PostIsAt
<1>5. ASSUME NEW c \in Clients, RequestOnly(c)
      PROVE  Good
  <2>1. http' \in [Clients -> Requests] /\ \A d \in Clients : PostIsAt(d)'
    <3>1. CASE WebRTC!NewSkipped(c)
      BY <1>0, <1>5, <3>1 DEF RequestOnly, WebRTC!NewSkipped, WebRTC!Request, Requests, PostIsAt
    <3>2. CASE WebRTC!CandidatesAdded(c) \/ WebRTC!CandidatesSkipped(c) \/ WebRTC!AddSessionCandidates(c)
      <4>1. PICK patch \in {"none", "lost", "found"} : http' = [http EXCEPT ![c].patch = patch]
        BY <3>2 DEF WebRTC!CandidatesAdded, WebRTC!CandidatesSkipped, WebRTC!AddSessionCandidates, WebRTC!Request
      <4> QED BY <1>0, <1>5, <4>1 DEF RequestOnly, Requests, PostIsAt
    <3> QED BY <1>5, <3>1, <3>2 DEF RequestOnly, WebRTC!RequestSteps
  <2> QED BY <1>0, <1>5, <2>1, <1>a DEF RequestOnly, Typed, Table
<1>6. ASSUME NEW c \in Clients, WebRTC!SessionSteps(c), UNCHANGED <<ctxDone, loop, closing, table, section>>
      PROVE  Good
  <2>0. /\ client[c] \in Client(places, Sections) /\ WebRTCClient(c) /\ section \in Sections
        /\ client \in [Clients -> Client(places, Sections)] /\ member \in [Clients -> Server!MemberStates]
        /\ http \in [Clients -> Requests] /\ http[c] \in Requests
    BY <1>0 DEF Typed
  <2>1. /\ Moves(c, places, Sections) /\ WebRTCClient(c)' /\ SRT!AdmittedAsChecked(c)
        /\ http' \in [Clients -> Requests] /\ \A d \in Clients \ {c} : http'[d] = http[d]
    <3> USE DEF Moves, WebRTC!Session, WebRTC!At, WebRTC!Asks, Client, Server!MemberStates, PostIsAt, Requests
    <3>1. CASE WebRTC!RunRead(c)
      BY ZenonT(40), <2>0, <3>1 DEF WebRTC!RunRead, WebRTC!New
    <3>2. CASE WebRTC!RunPublish(c) /\ ~WebRTC!Leaves(c)
      <4>1. /\ client' = [client EXCEPT ![c].at = "offered", ![c].role = "publish", ![c].checked = section]
            /\ http' = [http EXCEPT ![c].post = "waiting"] /\ UNCHANGED member /\ client[c].at = "created"
            /\ http[c].post = "created"
        BY <3>2 DEF WebRTC!RunPublish, WebRTC!New
      <4>2. /\ client'[c].at = "offered" /\ client'[c].role = "publish" /\ client'[c].checked = section
            /\ Moves(c, places, Sections)
        BY <2>0, <4>1
      <4> QED BY <2>0, <4>1, <4>2
    <3>3. CASE WebRTC!ReaderAnswered(c) /\ ~WebRTC!Leaves(c)
      BY SMTT(30), <2>0, <3>3 DEF WebRTC!ReaderAnswered, WebRTC!Goes
    <3>4. CASE WebRTC!WriteAnswer(c) /\ ~WebRTC!Leaves(c)
      BY <2>0, <3>4 DEF WebRTC!WriteAnswer, WebRTC!Goes
    <3>5. CASE WebRTC!Connected(c)
      BY <2>0, <3>5 DEF WebRTC!Connected, WebRTC!Goes
    <3>6. CASE WebRTC!PublisherAnswered(c) /\ ~WebRTC!Leaves(c)
      BY <2>0, <3>6 DEF WebRTC!PublisherAnswered, WebRTC!Goes
    <3>7. CASE WebRTC!Leaves(c) /\ WebRTC!SessionSteps(c)
      <4>1. PICK r : r = Server!Leaving
        OBVIOUS
      <4>2. r \in Client(places, Sections) /\ r.at = "closing" /\ r.role = "none" /\ r.ctxDone
        BY <4>1, LeavingIs
      <4>3. client' = [client EXCEPT ![c] = r]
        BY <3>7, <4>1, WebRTCIs DEF WebRTC!Leaves
      <4>4. client'[c] = r
        BY <2>0, <4>3
      <4>5. /\ client[c].at \in places
            /\ \/ UNCHANGED http /\ client[c].at # "offered" /\ http[c].post # "waiting"
               \/ http' = WebRTC!Refused(c) /\ http[c].answers = 0
            /\ member' = [member EXCEPT ![c] = "out"]
        <5>0. CASE WebRTC!NeverStarted(c)
          BY <2>0, <5>0 DEF WebRTC!NeverStarted
        <5>1. CASE WebRTC!RunPublish(c)
          BY <2>0, <5>1, <4>2, <4>4 DEF WebRTC!RunPublish, WebRTC!New
        <5>2. CASE WebRTC!RunRead(c)
          BY <2>0, <5>2, <4>2, <4>4 DEF WebRTC!RunRead
        <5>3. CASE WebRTC!ReaderAnswered(c)
          BY <2>0, <5>3, <4>2, <4>4 DEF WebRTC!ReaderAnswered, WebRTC!Goes
        <5>4. CASE WebRTC!WriteAnswer(c)
          BY <2>0, <5>4, <4>2, <4>4 DEF WebRTC!WriteAnswer, WebRTC!Goes
        <5>5. CASE WebRTC!Connected(c)
          BY <2>0, <5>5, <4>2, <4>4 DEF WebRTC!Connected, WebRTC!Goes
        <5>6. CASE WebRTC!PublisherAnswered(c)
          BY <2>0, <5>6, <4>2, <4>4 DEF WebRTC!PublisherAnswered, WebRTC!Goes
        <5>7. CASE WebRTC!RunEnded(c)
          BY <2>0, <5>7 DEF WebRTC!RunEnded
        <5> QED BY <3>7, <5>0, <5>1, <5>2, <5>3, <5>4, <5>5, <5>6, <5>7 DEF WebRTC!SessionSteps
      <4>6. Moves(c, places, Sections) /\ SRT!AdmittedAsChecked(c) /\ member'[c] = "out"
        <5> HIDE DEF Client, Server!MemberStates
        <5>1. "out" \in Server!MemberStates
          BY DEF Server!MemberStates
        <5> QED BY <2>0, <4>2, <4>3, <4>4, <4>5, <5>1
      <4>7. /\ http' \in [Clients -> Requests] /\ (\A d \in Clients \ {c} : http'[d] = http[d])
            /\ PostIsAt(c)'
        BY <2>0, <4>2, <4>4, <4>5 DEF WebRTC!Refused
      <4> QED BY <4>2, <4>4, <4>6, <4>7
    <3>8. CASE WebRTC!NeverStarted(c) \/ WebRTC!RunEnded(c)
      BY <1>6, <3>7, <3>8 DEF WebRTC!NeverStarted, WebRTC!RunEnded
    <3> QED BY <1>6, <3>1, <3>2, <3>3, <3>4, <3>5, <3>6, <3>7, <3>8 DEF WebRTC!SessionSteps
  <2>2. /\ Typed(places, Sections)' /\ \A d \in Clients : Table(d)'
        /\ \A d \in Clients \ {c} : client'[d] = client[d] /\ member'[d] = member[d]
    BY <1>0, <1>6, <2>1, MoveStep
  <2>3. \A d \in Clients \ {c} : WebRTCClient(d)' /\ SRT!AdmittedAsChecked(d)
    BY <1>0, <2>1, <2>2 DEF PostIsAt
  <2> QED BY <2>1, <2>2, <2>3, <1>a
<1> QED BY <1>1, <1>2, <1>3, <1>4, <1>5, <1>6, WebRTCSplit

-----------------------------------------------------------------------------
(* RTSP keeps its table itself; the rest is shared.                        *)
LEMMA RTSPIs ==
    /\ \A c \in Clients :
           /\ RTSP!OnSessionOpen(c) => Server!ServeOpen(c, "initial") /\ UNCHANGED http
           /\ RTSP!ManagerFinds(c) = Server!ManagerFinds(c)
           /\ RTSP!PathAnswers(c) = Server!PathAnswers(c)
           /\ RTSP!PathCloses(c) = Server!PathCloses(c)
    /\ \A error \in BOOLEAN : RTSP!RunEnds(error) => Server!LoopEnds(error) /\ UNCHANGED http
    /\ RTSP!ServerClose = Server!ServerClose
    /\ RTSP!ServerCloseReturns = Server!ServerCloseReturns
  BY DEF RTSP!OnSessionOpen, Server!ServeOpen, RTSP!RunEnds, Server!LoopEnds, RTSP!ServerClose, Server!ServerClose,
     RTSP!ServerCloseReturns, Server!ServerCloseReturns, RTSP!ManagerFinds, Server!ManagerFinds,
     RTSP!PathAnswers, Server!PathAnswers, RTSP!PathCloses, Server!PathCloses,
     RTSP!At, Server!At, RTSP!Goes, Server!Goes, RTSP!Asks, Server!Asks, RTSP!Cancel, Server!Cancel,
     RTSP!Opened, Server!Opened, RTSP!NewClient, Server!NewClient, RTSP!None, Server!None,
     RTSP!Ended, Server!Ended, RTSP!pathVars, Server!pathVars

LoopOnly ==
    \/ \E error \in BOOLEAN : Server!LoopEnds(error)
    \/ Server!ServerClose \/ Server!ServerCloseReturns

(* The handlers of a session that is there, between its start and its end. *)
Handler(c) ==
    /\ \/ RTSP!OnAnnounce(c) \/ RTSP!OnSetup(c) \/ RTSP!SetupAnswered(c) \/ RTSP!OnPlay(c)
       \/ RTSP!OnRecord(c) \/ RTSP!RecordAnswered(c) \/ RTSP!OnPause(c)
    /\ UNCHANGED <<ctxDone, loop, closing, table, section>>

LEMMA RTSPSplit ==
    ASSUME RTSP!RTSPNext
    PROVE  \/ \E c \in Clients : Server!ServeOpen(c, "initial") /\ UNCHANGED http
           \/ LoopOnly /\ UNCHANGED http
           \/ \E c \in Clients : PathStepOf(c) /\ UNCHANGED http
           \/ Reloaded(Sections) /\ UNCHANGED http
           \/ \E c \in Clients : Handler(c)
           \/ \E c \in Clients : RTSP!OnSessionClose(c) \/ RTSP!APISessionsKick(c)
<1>1. CASE \E c \in Clients : RTSP!SessionSteps(c)
  BY ZenonT(40), <1>1, RTSPIs DEF RTSP!SessionSteps, Handler, RTSP!OnAnnounce, RTSP!OnSetup, RTSP!SetupAnswered, RTSP!OnPlay,
     RTSP!OnRecord, RTSP!RecordAnswered, RTSP!OnPause, RTSP!Session, RTSP!serverVars
<1>2. CASE RTSP!RunEnds(FALSE) \/ RTSP!RunEnds(TRUE) \/ RTSP!Close \/ RTSP!CloseReturns
  BY <1>2, RTSPIs DEF RTSP!Close, RTSP!CloseReturns, LoopOnly
<1>3. CASE RTSP!PathSteps
  BY <1>3, RTSPIs DEF RTSP!PathSteps, RTSP!PathGoesOn, RTSP!Path, RTSP!SectionReloaded, RTSP!serverVars, PathStepOf, Reloaded
<1> QED BY <1>1, <1>2, <1>3 DEF RTSP!RTSPNext

(* Nothing of a session changes but what its place in the path is.         *)
LEMMA HoldsOn ==
    ASSUME NEW c \in Clients, HoldsPath(c), Answered(c), client'[c].at = client[c].at, client'[c].role = client[c].role,
           http'[c] = http[c], c \in table' <=> c \in table
    PROVE  HoldsPath(c)'
<1>1. member'[c] = "askPublish" => member[c] = "askPublish"
  BY DEF Answered
<1>2. member[c] = "out" => member'[c] = "out"
  BY DEF Answered
<1>3. member[c] \in {"out", "reader", "publisher"} => member'[c] \in {"out", "reader", "publisher"}
  BY DEF Answered
<1> QED BY <1>1, <1>2, <1>3 DEF HoldsPath, RTSP!NewSessionData

LEMMA RTSPStep ==
    ASSUME RTSPInv, RTSP!RTSPNext
    PROVE  RTSPInv' /\ \A c \in Clients : SRT!AdmittedAsChecked(c)
<1> DEFINE places == {"initial", "prePlay", "play", "preRecord", "record"}
           Good == RTSPInv' /\ \A c \in Clients : SRT!AdmittedAsChecked(c)
<1>0. /\ Typed(places, Sections) /\ \A c \in Clients : RTSPClient(c)
      /\ http \in [Clients -> SessionData] /\ "none" \notin Sections
  BY ServersAssumption DEF RTSPInv, SRT!SectionsAssumption
<1>a. ASSUME Typed(places, Sections)', http' \in [Clients -> SessionData],
             \A c \in Clients : RTSPClient(c)' /\ SRT!AdmittedAsChecked(c)
      PROVE  Good
  BY <1>0, <1>a DEF RTSPInv
<1> USE DEF SRT!AdmittedAsChecked
<1>1. ASSUME NEW c \in Clients, Server!ServeOpen(c, "initial"), UNCHANGED http
      PROVE  Good
  <2>0. "initial" \notin Over /\ \A d \in Clients : Table(d)
    BY <1>0 DEF Over, RTSPClient
  <2>1. /\ Typed(places, Sections)' /\ \A d \in Clients : Table(d)'
        /\ \A d \in Clients \ {c} : client'[d] = client[d]
        /\ client[c].at = "none"
        /\ client'[c] = [at |-> "initial", role |-> "none", ctxDone |-> ctxDone, checked |-> "none"]
        /\ UNCHANGED <<ctxDone, member, section>>
    BY <1>0, <1>1, <2>0, OpenStep
  <2>2. table' = table \cup {c}
    BY <1>1 DEF Server!ServeOpen
  <2>3. RTSPClient(c)'
    <3>1. member'[c] = "out" /\ http'[c] = RTSP!NewSessionData
      BY <1>0, <1>1, <2>1 DEF RTSPClient, HoldsPath
    <3> QED BY <2>1, <2>2, <3>1 DEF RTSPClient, IsChecked, HoldsPath, RTSP!NewSessionData, Over
  <2>4. ASSUME NEW d \in Clients \ {c} PROVE RTSPClient(d)'
    <3>1. Answered(d) BY <2>1 DEF Answered
    <3>2. HoldsPath(d)' BY <1>0, <1>1, <2>1, <2>2, <3>1, HoldsOn DEF RTSPClient
    <3> QED BY <1>0, <2>1, <3>2 DEF RTSPClient, IsChecked
  <2> QED BY <1>0, <1>1, <2>1, <2>3, <2>4, <1>a
<1>2. CASE LoopOnly /\ UNCHANGED http
  <2>1. Typed(places, Sections)' /\ Quiet /\ UNCHANGED <<member, section>>
    BY <1>0, <1>2, LoopStep DEF LoopOnly, RTSPClient
  <2>2. table' = table
    BY <1>2 DEF LoopOnly, Server!LoopEnds, Server!ServerClose, Server!ServerCloseReturns
  <2>3. ASSUME NEW d \in Clients PROVE RTSPClient(d)'
    <3>1. Answered(d) BY <2>1 DEF Answered
    <3>2. client'[d].at = client[d].at /\ client'[d].role = client[d].role /\ client'[d].checked = client[d].checked /\ Table(d)'
      BY <1>0, <2>1 DEF RTSPClient, HoldsPath, Quiet, Stays
    <3>3. HoldsPath(d)' BY <1>0, <1>2, <2>2, <3>1, <3>2, HoldsOn DEF RTSPClient
    <3> QED BY <1>0, <3>2, <3>3 DEF RTSPClient, IsChecked
  <2> QED BY <1>0, <1>2, <2>1, <2>3, <1>a
<1>3. ASSUME NEW c \in Clients, PathStepOf(c), UNCHANGED http
      PROVE  Good
  <2>1. Typed(places, Sections)' /\ Quiet /\ \A d \in Clients : Answered(d)
    BY <1>0, <1>3, PathStep DEF PathStepOf, RTSPClient
  <2>2. ASSUME NEW d \in Clients PROVE RTSPClient(d)' /\ SRT!AdmittedAsChecked(d)
    <3>1. Answered(d) BY <2>1
    <3>2. client'[d].at = client[d].at /\ client'[d].role = client[d].role /\ client'[d].checked = client[d].checked /\ Table(d)'
      BY <1>0, <2>1 DEF RTSPClient, HoldsPath, Quiet, Stays
    <3>3. HoldsPath(d)' BY <1>0, <1>3, <3>1, <3>2, HoldsOn DEF RTSPClient, PathStepOf
    <3>4. member[d] = "askPublish" => client[d].checked # "none"
      BY <1>0 DEF RTSPClient, HoldsPath, IsChecked
    <3> QED BY <1>0, <3>1, <3>2, <3>3, <3>4 DEF RTSPClient, IsChecked, Answered
  <2> QED BY <1>0, <1>3, <2>1, <2>2, <1>a
<1>4. CASE Reloaded(Sections) /\ UNCHANGED http
  BY <1>0, <1>4, <1>a DEF Reloaded, Typed, Table, RTSPClient, HoldsPath, IsChecked
<1>5. ASSUME NEW c \in Clients, Handler(c)
      PROVE  Good
  <2>0. /\ client[c] \in Client(places, Sections) /\ RTSPClient(c) /\ section \in Sections
        /\ client \in [Clients -> Client(places, Sections)] /\ member \in [Clients -> Server!MemberStates]
        /\ http \in [Clients -> SessionData] /\ http[c] \in SessionData
        /\ UNCHANGED <<ctxDone, loop, closing, table, section>>
    BY <1>0, <1>5 DEF Typed, Handler
  <2>1. /\ Moves(c, places, Sections) /\ IsChecked(c)' /\ HoldsPath(c)' /\ SRT!AdmittedAsChecked(c)
        /\ http' \in [Clients -> SessionData] /\ \A d \in Clients \ {c} : http'[d] = http[d]
    <3> USE DEF Moves, RTSPClient, Table, IsChecked, HoldsPath, Over, RTSP!Session, RTSP!At, RTSP!Asks, RTSP!Goes,
                RTSP!Handles, RTSP!Cancelled, Client, Server!MemberStates, SessionData
    <3>1. CASE RTSP!OnAnnounce(c)
      BY <2>0, <3>1 DEF RTSP!OnAnnounce
    <3>2. CASE RTSP!OnSetup(c)
      BY <2>0, <3>2 DEF RTSP!OnSetup
    <3>3. CASE RTSP!SetupAnswered(c)
      <4>1. CASE member[c] = "refused"
        <5>1. /\ http' = [http EXCEPT ![c].handler = "none"] /\ UNCHANGED client
              /\ member' = [member EXCEPT ![c] = "out"] /\ http[c].handler = "setup"
          BY <3>3, <4>1 DEF RTSP!SetupAnswered
        <5>2. client'[c] = client[c] /\ member'[c] = "out" /\ Moves(c, places, Sections)
          BY <2>0, <5>1
        <5>3. /\ http' \in [Clients -> SessionData] /\ (\A d \in Clients \ {c} : http'[d] = http[d])
              /\ http'[c].handler = "none" /\ http'[c].path = http[c].path /\ http'[c].hook = http[c].hook
              /\ http'[c].cut = http[c].cut
          BY <2>0, <5>1
        <5> QED BY <2>0, <4>1, <5>1, <5>2, <5>3
      <4>2. CASE member[c] \in {"reader", "out"}
        <5>1. /\ http' = [http EXCEPT ![c].handler = "none", ![c].path = TRUE]
              /\ client' = [client EXCEPT ![c].at = IF @ = "initial" THEN "prePlay" ELSE @, ![c].role = "read"]
              /\ UNCHANGED member /\ http[c].handler = "setup"
          BY <3>3, <4>2 DEF RTSP!SetupAnswered
        <5>2. client'[c].at = "prePlay" /\ client'[c].role = "read" /\ Moves(c, places, Sections)
          BY <2>0, <5>1
        <5>3. /\ http' \in [Clients -> SessionData] /\ (\A d \in Clients \ {c} : http'[d] = http[d])
              /\ http'[c].handler = "none" /\ http'[c].path /\ http'[c].hook = http[c].hook
              /\ http'[c].cut = http[c].cut
          BY <2>0, <5>1
        <5> QED BY <2>0, <4>2, <5>1, <5>2, <5>3
      <4> QED BY <3>3, <4>1, <4>2 DEF RTSP!SetupAnswered
    <3>4. CASE RTSP!OnPlay(c)
      BY <2>0, <3>4 DEF RTSP!OnPlay
    <3>5. CASE RTSP!OnRecord(c)
      BY <2>0, <3>5 DEF RTSP!OnRecord
    <3>6. CASE RTSP!RecordAnswered(c)
      <4>1. CASE member[c] = "refused"
        <5>1. /\ http' = [http EXCEPT ![c].handler = "none"] /\ UNCHANGED client
              /\ member' = [member EXCEPT ![c] = "out"] /\ http[c].handler = "record"
          BY <3>6, <4>1 DEF RTSP!RecordAnswered
        <5>2. client'[c] = client[c] /\ member'[c] = "out" /\ Moves(c, places, Sections)
          BY <2>0, <5>1
        <5>3. /\ http' \in [Clients -> SessionData] /\ (\A d \in Clients \ {c} : http'[d] = http[d])
              /\ http'[c].handler = "none" /\ http'[c].path = http[c].path /\ http'[c].hook = http[c].hook
              /\ http'[c].cut = http[c].cut
          BY <2>0, <5>1
        <5> QED BY <2>0, <4>1, <5>1, <5>2, <5>3
      <4>2. CASE member[c] \in {"publisher", "out"}
        <5>1. /\ http' = [http EXCEPT ![c].handler = "none", ![c].path = TRUE]
              /\ client' = [client EXCEPT ![c].at = "record"]
              /\ UNCHANGED member /\ http[c].handler = "record"
          BY <3>6, <4>2 DEF RTSP!RecordAnswered
        <5>2. /\ client'[c].at = "record" /\ client'[c].role = client[c].role /\ client'[c].checked = client[c].checked
              /\ Moves(c, places, Sections)
          BY <2>0, <5>1
        <5>3. /\ http' \in [Clients -> SessionData] /\ (\A d \in Clients \ {c} : http'[d] = http[d])
              /\ http'[c].handler = "none" /\ http'[c].path /\ http'[c].hook = http[c].hook
              /\ http'[c].cut = http[c].cut
          BY <2>0, <5>1
        <5> QED BY <2>0, <4>2, <5>1, <5>2, <5>3
      <4> QED BY <3>6, <4>1, <4>2 DEF RTSP!RecordAnswered
    <3>7. CASE RTSP!OnPause(c)
      <4>1. CASE client[c].at = "play"
        <5>1. client' = [client EXCEPT ![c].at = "prePlay"] /\ http' = [http EXCEPT ![c].hook = FALSE] /\ UNCHANGED member
          BY <3>7, <4>1 DEF RTSP!OnPause
        <5>2. /\ client'[c].at = "prePlay" /\ client'[c].role = client[c].role /\ client'[c].checked = client[c].checked
              /\ Moves(c, places, Sections)
          BY <2>0, <4>1, <5>1
        <5>3. /\ http' \in [Clients -> SessionData] /\ (\A d \in Clients \ {c} : http'[d] = http[d])
              /\ http'[c].handler = http[c].handler /\ http'[c].path = http[c].path /\ ~http'[c].hook
              /\ http'[c].cut = http[c].cut
          BY <2>0, <5>1
        <5> QED BY <2>0, <4>1, <5>1, <5>2, <5>3
      <4>2. CASE client[c].at = "record"
        BY <2>0, <3>7, <4>2 DEF RTSP!OnPause
      <4> QED BY <3>7, <4>1, <4>2 DEF RTSP!OnPause
    <3> QED BY <1>5, <3>1, <3>2, <3>3, <3>4, <3>5, <3>6, <3>7 DEF Handler
  <2>2. /\ Typed(places, Sections)' /\ \A d \in Clients : Table(d)'
        /\ \A d \in Clients \ {c} : client'[d] = client[d] /\ member'[d] = member[d]
    BY <1>0, <2>0, <2>1, MoveStep DEF RTSPClient
  <2>3. ASSUME NEW d \in Clients \ {c} PROVE RTSPClient(d)' /\ SRT!AdmittedAsChecked(d)
    <3>1. Answered(d) BY <2>2 DEF Answered
    <3>2. HoldsPath(d)' BY <1>0, <2>0, <2>1, <2>2, <3>1, HoldsOn DEF RTSPClient
    <3> QED BY <1>0, <2>2, <3>2 DEF RTSPClient, IsChecked
  <2> QED BY <2>1, <2>2, <2>3, <1>a DEF RTSPClient
<1>6. ASSUME NEW c \in Clients, RTSP!OnSessionClose(c) \/ RTSP!APISessionsKick(c)
      PROVE  Good
  <2>0. /\ client[c] \in Client(places, Sections) /\ RTSPClient(c)
        /\ client \in [Clients -> Client(places, Sections)] /\ member \in [Clients -> Server!MemberStates]
        /\ http \in [Clients -> SessionData] /\ http[c] \in SessionData
        /\ UNCHANGED <<ctxDone, loop, closing, section>> /\ table' = table \ {c}
    BY <1>0, <1>6 DEF Typed, RTSP!OnSessionClose, RTSP!APISessionsKick
  <2>1. /\ client'[c] \in Client(places, Sections) /\ client' = [client EXCEPT ![c] = client'[c]]
        /\ client'[c].role = client[c].role /\ client'[c].checked = client[c].checked
        /\ \/ client'[c].at = "gone" /\ http[c].handler = "none" /\ client[c].at \notin Over
           \/ client'[c].at = client[c].at /\ client'[c].ctxDone /\ c \in table
    <3>1. CASE RTSP!OnSessionClose(c)
      BY <2>0, <3>1 DEF RTSP!OnSessionClose, RTSP!Goes, RTSP!At, RTSP!Ended, Client, Over
    <3>2. CASE RTSP!APISessionsKick(c)
      BY <2>0, <3>2, Told DEF RTSP!APISessionsKick
    <3> QED BY <1>6, <3>1, <3>2
  <2>2. /\ http' \in [Clients -> SessionData] /\ (\A d \in Clients \ {c} : http'[d] = http[d])
        /\ http'[c].handler = http[c].handler
        /\ c \in table => http'[c].hook = FALSE /\ (http'[c].cut <=> http[c].handler # "none")
        /\ c \notin table => http'[c] = http[c]
    <3>1. CASE c \in table
      <4>1. http' = [http EXCEPT ![c].path = FALSE, ![c].hook = client[c].at # "play" /\ @, ![c].cut = http[c].handler # "none"]
        BY <1>6, <3>1 DEF RTSP!OnSessionClose, RTSP!APISessionsKick, RTSP!Released, RTSP!At
      <4>2. PICK hook \in BOOLEAN, cut \in BOOLEAN : /\ hook = (client[c].at # "play" /\ http[c].hook)
                                                  /\ cut = (http[c].handler # "none")
        BY <2>0 DEF SessionData
      <4>3. http' = [http EXCEPT ![c].path = FALSE, ![c].hook = hook, ![c].cut = cut]
        BY <4>1, <4>2
      <4>4. hook = FALSE
        BY <2>0, <3>1, <4>2 DEF RTSPClient, HoldsPath
      <4>5. /\ http' \in [Clients -> SessionData] /\ (\A d \in Clients \ {c} : http'[d] = http[d])
            /\ http'[c].handler = http[c].handler /\ http'[c].hook = hook /\ http'[c].cut = cut
        BY <2>0, <4>3 DEF SessionData
      <4> QED BY <3>1, <4>2, <4>4, <4>5
    <3>2. CASE c \notin table
      BY <1>6, <2>0, <3>2 DEF RTSP!OnSessionClose, RTSP!APISessionsKick
    <3> QED BY <3>1, <3>2
  <2>3. /\ member' = [member EXCEPT ![c] = member'[c]] /\ member'[c] \in {member[c], "out"}
        /\ c \in table /\ http[c].handler = "none" => member'[c] = "out"
        /\ c \notin table => member'[c] = member[c]
    BY <1>6, <2>0 DEF RTSP!OnSessionClose, RTSP!APISessionsKick, RTSP!Released, RTSP!Asks, RTSPClient, HoldsPath, RTSP!At
  <2>4. Typed(places, Sections)'
    <3>1. member'[c] \in Server!MemberStates
      BY <2>0, <2>3 DEF Server!MemberStates
    <3> QED BY <1>0, <2>0, <2>1, <2>3, <3>1 DEF Typed
  <2>5. RTSPClient(c)'
    BY <2>0, <2>1, <2>2, <2>3 DEF RTSPClient, HoldsPath, Table, IsChecked, Over, SessionData
  <2>6. ASSUME NEW d \in Clients \ {c} PROVE RTSPClient(d)' /\ SRT!AdmittedAsChecked(d)
    <3>1. client'[d] = client[d] /\ member'[d] = member[d]
      BY <2>0, <2>1, <2>3
    <3>2. Answered(d) BY <3>1 DEF Answered
    <3>3. HoldsPath(d)' BY <1>0, <2>0, <2>2, <3>1, <3>2, HoldsOn DEF RTSPClient
    <3> QED BY <1>0, <2>0, <3>1, <3>3 DEF RTSPClient, IsChecked, Table
  <2> QED BY <2>2, <2>3, <2>4, <2>5, <2>6, <1>a
<1> QED BY <1>1, <1>2, <1>3, <1>4, <1>5, <1>6, RTSPSplit

-----------------------------------------------------------------------------
(* HLS: the loop of the others, with a table of its own.                   *)
LEMMA HLSIs ==
    /\ \A c \in Clients :
           /\ HLS!ServeClosed(c) = Server!ServeClosed(c)
           /\ HLS!PathCloses(c) = Server!PathCloses(c)
    /\ \A error \in BOOLEAN : HLS!LoopEnds(error) = Server!LoopEnds(error)
    /\ HLS!ServerClose = Server!ServerClose
    /\ HLS!ServerCloseReturns = Server!ServerCloseReturns
  BY DEF HLS!ServeClosed, Server!ServeClosed, HLS!LoopEnds, Server!LoopEnds, HLS!ServerClose, Server!ServerClose,
     HLS!ServerCloseReturns, Server!ServerCloseReturns, HLS!PathCloses, Server!PathCloses,
     HLS!At, Server!At, HLS!Goes, Server!Goes, HLS!Asks, Server!Asks, HLS!Cancel, Server!Cancel,
     HLS!Ended, Server!Ended, HLS!pathVars, Server!pathVars

(* A new muxer.                                                            *)
LEMMA CreateStep ==
    ASSUME Typed(MuxerPlaces, OneSection), \A c \in Clients : HLSClient(c),
           NEW c \in Clients, NEW role \in {"auto", "requested"}, HLS!CreateMuxer(c, role),
           UNCHANGED <<ctxDone, loop, closing, member, section>>
    PROVE  /\ Typed(MuxerPlaces, OneSection)' /\ \A d \in Clients : HLSClient(d)'
           /\ client'[c].at = "created" /\ client'[c].role = role /\ client'[c].ctxDone = ctxDone
           /\ table' = table \cup {c}
<1>1. PICK r : r = [HLS!Opened("created") EXCEPT !.role = role]
  OBVIOUS
<1>2. r \in Client(MuxerPlaces, OneSection) /\ r.at = "created" /\ r.role = role /\ r.ctxDone = ctxDone
  <2>1. r = [at |-> "created", role |-> role, ctxDone |-> ctxDone, checked |-> "none"]
    BY <1>1 DEF HLS!Opened, HLS!NewClient, HLS!None
  <2>2. ctxDone \in BOOLEAN
    BY DEF Typed
  <2> QED BY <2>1, <2>2 DEF Client, MuxerPlaces
<1>3. /\ client[c].at = "none" /\ table' = table \cup {c} /\ client' = [client EXCEPT ![c] = r]
      /\ client'[c] = r /\ \A d \in Clients \ {c} : client'[d] = client[d]
  BY <1>1 DEF HLS!CreateMuxer, HLS!At, Typed
<1>4. Typed(MuxerPlaces, OneSection)'
  BY <1>2, <1>3 DEF Typed
<1>5. \A d \in Clients : HLSClient(d)'
  BY <1>2, <1>3 DEF HLSClient, Table, Out, Over
<1> QED BY <1>2, <1>3, <1>4, <1>5

(* The path: nothing of the clients changes but their place in the path.   *)
LEMMA NoticeStep ==
    ASSUME HLSInv, \/ HLS!PathReady \/ HLS!PathNotReady \/ HLS!PathRemoved \/ HLS!NoticeSkipped
                   \/ \E c \in Clients : HLS!GetInstance(c)
    PROVE  HLSInv'
<1>0. Typed(MuxerPlaces, OneSection) /\ http \in HttpData /\ Muxers /\ \A c \in Clients : HLSClient(c)
  BY DEF HLSInv
<1>1. UNCHANGED <<ctxDone, loop, closing, table, client, member, section>>
  BY DEF HLS!PathReady, HLS!PathNotReady, HLS!PathRemoved, HLS!NoticeSkipped, HLS!GetInstance, HLS!PathOf, HLS!Muxer,
     HLS!serverVars, HLS!pathVars
<1>2. Typed(MuxerPlaces, OneSection)' /\ \A c \in Clients : HLSClient(c)'
  BY <1>0, <1>1 DEF Typed, HLSClient, Table, Out
<1>3. http' \in HttpData /\ Muxers'
  <2> USE DEF HttpData, Muxers, Remuxed
  <2>1. CASE HLS!PathReady
    BY <1>0, <1>1, <2>1 DEF HLS!PathReady, HLS!PathOf
  <2>2. CASE HLS!PathNotReady
    BY <1>0, <1>1, <2>2 DEF HLS!PathNotReady, HLS!PathOf
  <2>3. CASE HLS!PathRemoved
    BY <1>0, <1>1, <2>3 DEF HLS!PathRemoved, HLS!PathOf
  <2>4. CASE HLS!NoticeSkipped
    BY <1>0, <1>1, <2>4 DEF HLS!NoticeSkipped
  <2>5. CASE \E c \in Clients : HLS!GetInstance(c)
    BY <1>0, <1>1, <2>5 DEF HLS!GetInstance, HLS!Muxer
  <2> QED BY <2>1, <2>2, <2>3, <2>4, <2>5
<1> QED BY <1>2, <1>3 DEF HLSInv

LEMMA ReaderStep ==
    ASSUME HLSInv, NEW c \in Clients, HLS!ReaderAnswered(c) \/ HLS!ReaderPutOut(c)
    PROVE  HLSInv'
<1>0. Typed(MuxerPlaces, OneSection) /\ http \in HttpData /\ Muxers /\ \A d \in Clients : HLSClient(d)
  BY DEF HLSInv
<1>1. UNCHANGED <<ctxDone, loop, closing, table, section, http>>
  BY DEF HLS!ReaderAnswered, HLS!ReaderPutOut, HLS!PathOf, HLS!serverVars
<1>2. CASE HLS!ReaderAnswered(c)
  <2>1. UNCHANGED client /\ member[c] = "askRead" /\ \E answer \in {"reader", "refused"} : member' = [member EXCEPT ![c] = answer]
    BY <1>2 DEF HLS!ReaderAnswered, HLS!PathOf, HLS!Asks
  <2>2. Typed(MuxerPlaces, OneSection)' /\ \A d \in Clients : HLSClient(d)'
    BY <1>0, <1>1, <2>1 DEF Typed, HLSClient, Table, Out, Server!MemberStates
  <2>3. Muxers'
    BY <1>0, <1>1, <2>1 DEF Muxers, Remuxed
  <2> QED BY <1>0, <1>1, <2>2, <2>3 DEF HLSInv
<1>3. CASE HLS!ReaderPutOut(c)
  <2>1. PathStepOf(c) /\ ~http.ready /\ http.notice = "none" /\ client' = [client EXCEPT ![c].ctxDone = TRUE]
    BY <1>1, <1>3, HLSIs DEF HLS!ReaderPutOut, HLS!PathOf, PathStepOf, Server!PathCloses
  <2>2. Typed(MuxerPlaces, OneSection)' /\ Quiet /\ \A d \in Clients : Answered(d)
    BY <1>0, <1>3, <2>1, PathStep DEF PathStepOf, HLSClient
  <2>3. \A d \in Clients : HLSClient(d)'
    BY <1>0, <2>2 DEF HLSClient, Quiet, Stays, Answered, Out, Over
  <2>4. \A d \in table : client'[d].role = client[d].role
    BY <1>0, <2>2 DEF Quiet, Stays, Typed
  <2>5. Muxers'
    BY <1>0, <1>1, <2>1, <2>4 DEF Muxers, Remuxed
  <2> QED BY <1>0, <1>1, <2>2, <2>3, <2>5 DEF HLSInv
<1> QED BY <1>2, <1>3

(* The loop.                                                               *)
LEMMA LoopStepHLS ==
    ASSUME HLSInv, HLS!RunEnds \/ HLS!Close \/ HLS!CloseReturns \/ \E c \in Clients : HLS!CloseMuxer(c)
    PROVE  HLSInv'
<1>0. Typed(MuxerPlaces, OneSection) /\ http \in HttpData /\ Muxers /\ \A d \in Clients : HLSClient(d)
  BY DEF HLSInv
<1>1. UNCHANGED http /\ (LoopOnly \/ \E c \in Clients : Server!ServeClosed(c))
  BY HLSIs DEF HLS!RunEnds, HLS!Close, HLS!CloseReturns, HLS!CloseMuxer, LoopOnly
<1>2. Typed(MuxerPlaces, OneSection)' /\ Quiet /\ UNCHANGED <<member, section>>
  BY <1>0, <1>1, LoopStep DEF LoopOnly, HLSClient
<1>3. \A d \in Clients : HLSClient(d)'
  BY <1>0, <1>2 DEF HLSClient, Quiet, Stays, Out, Over
<1>4. Muxers'
  <2>1. CASE LoopOnly
    <3>1. table' = table /\ (ctxDone' \/ UNCHANGED <<ctxDone, client>>)
      BY <2>1 DEF LoopOnly, Server!LoopEnds, Server!ServerClose, Server!ServerCloseReturns, Server!Cancel
    <3>2. ctxDone => ctxDone'
      BY <2>1 DEF LoopOnly, Server!LoopEnds, Server!ServerClose, Server!ServerCloseReturns, Server!Cancel
    <3>3. \A d \in table : client'[d].role = client[d].role
      BY <1>0, <1>2 DEF Quiet, Stays, Typed
    <3> QED BY <1>0, <1>1, <3>1, <3>2, <3>3 DEF Muxers, Remuxed
  <2>2. ASSUME NEW c \in Clients, Server!ServeClosed(c) PROVE Muxers'
    <3>1. /\ client[c].at = "closing" /\ UNCHANGED ctxDone
          /\ table' = table \ {c} \/ (ctxDone /\ table' = table)
          /\ \A d \in Clients \ {c} : client'[d] = client[d]
      BY <1>0, <2>2 DEF Server!ServeClosed, Server!At, Server!Goes, Typed
    <3>2. \A d \in table : client'[d].role = client[d].role
      BY <1>0, <1>2 DEF Quiet, Stays, Typed
    <3>3. table \subseteq Clients
      BY <1>0 DEF Typed
    <3> QED BY <1>0, <1>1, <3>1, <3>2, <3>3 DEF Muxers, Remuxed
  <2> QED BY <1>1, <2>1, <2>2
<1> QED BY <1>0, <1>1, <1>2, <1>3, <1>4 DEF HLSInv

LEMMA ListStep ==
    ASSUME HLSInv, HLS!ListReady
    PROVE  HLSInv'
<1>0. Typed(MuxerPlaces, OneSection) /\ http \in HttpData /\ Muxers /\ \A d \in Clients : HLSClient(d)
  BY DEF HLSInv
<1>1. /\ ~http.listed /\ table = {} /\ http' = [http EXCEPT !.listed = TRUE]
      /\ UNCHANGED <<ctxDone, loop, closing, member, section>>
  BY <1>0 DEF HLS!ListReady, HLS!InLoop, HLS!pathVars, Muxers
<1>2. /\ http' \in HttpData /\ http'.remux = http.remux /\ http'.ready = http.ready /\ http'.notice = http.notice
      /\ http'.lost = http.lost /\ http'.removed = http.removed /\ http.notice = "none"
  BY <1>0, <1>1 DEF HttpData, Muxers
<1>3. CASE http.remux /\ http.ready
  <2>1. PICK c \in Clients : HLS!CreateMuxer(c, "auto")
    BY <1>3 DEF HLS!ListReady
  <2>2. /\ Typed(MuxerPlaces, OneSection)' /\ \A d \in Clients : HLSClient(d)'
        /\ client'[c].at = "created" /\ client'[c].role = "auto" /\ client'[c].ctxDone = ctxDone
        /\ table' = table \cup {c}
    BY <1>0, <1>1, <2>1, CreateStep
  <2>3. Muxers'
    BY <1>0, <1>1, <1>2, <1>3, <2>2 DEF Muxers, Remuxed
  <2> QED BY <1>2, <2>2, <2>3 DEF HLSInv
<1>4. CASE ~(http.remux /\ http.ready)
  <2>1. UNCHANGED <<client, table>>
    BY <1>4 DEF HLS!ListReady
  <2>2. Typed(MuxerPlaces, OneSection)' /\ \A d \in Clients : HLSClient(d)'
    BY <1>0, <1>1, <2>1 DEF Typed, HLSClient, Table, Out
  <2>3. Muxers'
    BY <1>0, <1>1, <1>2, <1>4, <2>1 DEF Muxers, Remuxed
  <2> QED BY <1>2, <2>2, <2>3 DEF HLSInv
<1> QED BY <1>3, <1>4

LEMMA ReadyStep ==
    ASSUME HLSInv, HLS!DoPathReady
    PROVE  HLSInv'
<1>0. Typed(MuxerPlaces, OneSection) /\ http \in HttpData /\ Muxers /\ \A d \in Clients : HLSClient(d)
  BY DEF HLSInv
<1>1. /\ http.listed /\ http.notice = "ready" /\ http.ready /\ UNCHANGED <<ctxDone, loop, closing, member, section>>
      /\ http' = [http EXCEPT !.notice = "none", !.lost = IF table = {} THEN "no" ELSE "dying"]
  BY <1>0 DEF HLS!DoPathReady, HLS!InLoop, HLS!pathVars, Muxers
<1>2. /\ http' \in HttpData /\ http'.remux = http.remux /\ http'.ready = http.ready /\ http'.notice = "none"
      /\ http'.removed = http.removed /\ http'.listed
      /\ table = {} => http'.lost = "no"
      /\ table # {} => http'.lost = "dying"
  BY <1>0, <1>1 DEF HttpData
<1>3. CASE http.remux /\ table = {}
  <2>1. PICK c \in Clients : HLS!CreateMuxer(c, "auto")
    BY <1>3 DEF HLS!DoPathReady
  <2>2. /\ Typed(MuxerPlaces, OneSection)' /\ \A d \in Clients : HLSClient(d)'
        /\ client'[c].at = "created" /\ client'[c].role = "auto" /\ client'[c].ctxDone = ctxDone
        /\ table' = table \cup {c}
    BY <1>0, <1>1, <2>1, CreateStep
  <2>3. Muxers'
    BY <1>0, <1>1, <1>2, <1>3, <2>2 DEF Muxers, Remuxed
  <2> QED BY <1>2, <2>2, <2>3 DEF HLSInv
<1>4. CASE ~(http.remux /\ table = {})
  <2>1. UNCHANGED <<client, table>>
    BY <1>4 DEF HLS!DoPathReady
  <2>2. Typed(MuxerPlaces, OneSection)' /\ \A d \in Clients : HLSClient(d)'
    BY <1>0, <1>1, <2>1 DEF Typed, HLSClient, Table, Out
  <2>3. Muxers'
    BY <1>0, <1>1, <1>2, <1>4, <2>1 DEF Muxers, Remuxed
  <2> QED BY <1>2, <2>2, <2>3 DEF HLSInv
<1> QED BY <1>3, <1>4

LEMMA NotReadyStep ==
    ASSUME HLSInv, HLS!DoPathNotReady
    PROVE  HLSInv'
<1>0. Typed(MuxerPlaces, OneSection) /\ http \in HttpData /\ Muxers /\ \A d \in Clients : HLSClient(d)
  BY DEF HLSInv
<1>1. PICK auto : auto = {c \in table : client[c].role = "auto"}
  OBVIOUS
<1>2. /\ http.listed /\ http.notice = "notReady" /\ ~http.ready /\ UNCHANGED <<ctxDone, loop, closing, member, section>>
      /\ http' = [http EXCEPT !.notice = "none"] /\ table' = table \ auto
      /\ client' = [c \in Clients |-> IF c \in auto THEN [client[c] EXCEPT !.ctxDone = TRUE] ELSE client[c]]
  BY <1>0, <1>1 DEF HLS!DoPathNotReady, HLS!InLoop, HLS!pathVars, Muxers
<1>3. ASSUME NEW c \in Clients
      PROVE  /\ client'[c] \in Client(MuxerPlaces, OneSection) /\ client'[c].at = client[c].at
             /\ client'[c].role = client[c].role /\ (client[c].ctxDone => client'[c].ctxDone)
             /\ c \in auto => client'[c].ctxDone
  <2>1. client[c] \in Client(MuxerPlaces, OneSection)
    BY <1>0 DEF Typed
  <2>2. CASE c \in auto
    <3>1. client'[c] = [client[c] EXCEPT !.ctxDone = TRUE]
      BY <1>2, <2>2
    <3> QED BY <2>1, <3>1, Told
  <2>3. CASE c \notin auto
    BY <1>2, <2>1, <2>3
  <2> QED BY <2>2, <2>3
<1>4. client' \in [Clients -> Client(MuxerPlaces, OneSection)]
  BY <1>2, <1>3
<1>5. Typed(MuxerPlaces, OneSection)'
  BY <1>0, <1>2, <1>4 DEF Typed
<1>6. \A c \in Clients : HLSClient(c)'
  BY <1>0, <1>2, <1>3 DEF HLSClient, Table, Out
<1>7. http' \in HttpData
  BY <1>0, <1>2 DEF HttpData
<1>8. Muxers'
  <2>1. /\ http'.remux = http.remux /\ http'.ready = http.ready /\ http'.notice = "none" /\ http'.listed
        /\ http'.lost = http.lost /\ http'.removed = http.removed
    BY <1>0, <1>2 DEF HttpData
  <2>2. http.remux => table' = {}
    BY <1>0, <1>1, <1>2 DEF Muxers, Remuxed
  <2> QED BY <1>0, <1>2, <2>1, <2>2 DEF Muxers, Remuxed
<1> QED BY <1>5, <1>6, <1>7, <1>8 DEF HLSInv

LEMMA GetStep ==
    ASSUME HLSInv, HLS!GetMuxer
    PROVE  HLSInv'
<1>0. Typed(MuxerPlaces, OneSection) /\ http \in HttpData /\ Muxers /\ \A d \in Clients : HLSClient(d)
  BY DEF HLSInv
<1>1. UNCHANGED <<ctxDone, loop, closing, member, section>> /\ http.listed
  BY DEF HLS!GetMuxer, HLS!InLoop, HLS!pathVars
<1>2. ASSUME NEW answer \in {"none", "muxer"}, NEW muxer \in SUBSET Clients, HLS!Requested(answer, muxer)
      PROVE  /\ http' \in HttpData /\ http'.remux = http.remux /\ http'.ready = http.ready /\ http'.notice = http.notice
             /\ http'.lost = http.lost /\ http'.removed = http.removed /\ http'.listed = http.listed
  BY <1>0, <1>2 DEF HttpData, HLS!Requested
<1>3. CASE UNCHANGED <<client, table>> /\ (HLS!Requested("muxer", table) \/ HLS!Requested("none", {}))
  <2>1. table \in SUBSET Clients /\ {} \in SUBSET Clients
    BY <1>0 DEF Typed
  <2>2. /\ http' \in HttpData /\ http'.remux = http.remux /\ http'.ready = http.ready /\ http'.notice = http.notice
        /\ http'.lost = http.lost /\ http'.removed = http.removed /\ http'.listed = http.listed
    BY <1>2, <1>3, <2>1
  <2>3. Typed(MuxerPlaces, OneSection)' /\ \A d \in Clients : HLSClient(d)'
    BY <1>0, <1>1, <1>3 DEF Typed, HLSClient, Table, Out
  <2>4. Muxers'
    BY <1>0, <1>1, <1>3, <2>2 DEF Muxers, Remuxed
  <2> QED BY <2>2, <2>3, <2>4 DEF HLSInv
<1>4. ASSUME NEW c \in Clients, table = {}, ~http.remux, HLS!CreateMuxer(c, "requested"), HLS!Requested("muxer", {c})
      PROVE  HLSInv'
  <2>1. /\ Typed(MuxerPlaces, OneSection)' /\ \A d \in Clients : HLSClient(d)' /\ table' = table \cup {c}
    BY <1>0, <1>1, <1>4, CreateStep
  <2>2. {c} \in SUBSET Clients
    OBVIOUS
  <2>3. /\ http' \in HttpData /\ http'.remux = http.remux /\ http'.ready = http.ready /\ http'.notice = http.notice
        /\ http'.lost = http.lost /\ http'.removed = http.removed /\ http'.listed = http.listed
    BY <1>2, <1>4, <2>2
  <2>4. Muxers'
    BY <1>0, <1>1, <1>4, <2>1, <2>3 DEF Muxers
  <2> QED BY <2>1, <2>3, <2>4 DEF HLSInv
<1> QED BY <1>3, <1>4 DEF HLS!GetMuxer

(* The muxer.                                                              *)
LEMMA MuxerStep ==
    ASSUME HLSInv, NEW c \in Clients,
           \/ HLS!Run(c) \/ HLS!PathAnswered(c) \/ HLS!InstanceError(c) \/ HLS!Recreate(c)
           \/ HLS!NotUsedAnymore(c) \/ HLS!Terminated(c)
    PROVE  HLSInv'
<1>0. Typed(MuxerPlaces, OneSection) /\ http \in HttpData /\ Muxers /\ \A d \in Clients : HLSClient(d)
  BY DEF HLSInv
<1>1. /\ UNCHANGED <<ctxDone, loop, closing, table, section>>
      /\ client[c] \in Client(MuxerPlaces, OneSection) /\ HLSClient(c) /\ table \subseteq Clients
      /\ client \in [Clients -> Client(MuxerPlaces, OneSection)] /\ member \in [Clients -> Server!MemberStates]
  BY <1>0 DEF HLS!Run, HLS!PathAnswered, HLS!InstanceError, HLS!Recreate, HLS!NotUsedAnymore, HLS!Terminated,
     HLS!Muxer, HLS!serverVars, Typed
<1>2. CASE \/ HLS!Goes(c, "asking") /\ HLS!Asks(c, "askRead") /\ UNCHANGED http
           \/ (\E place \in {"running", "paused"} : HLS!Goes(c, place)) /\ UNCHANGED <<member, http>>
  <2>1. client[c].at \in MuxerPlaces
    BY DEF HLS!Run, HLS!PathAnswered, HLS!InstanceError, HLS!Recreate, HLS!NotUsedAnymore, HLS!Terminated,
       HLS!Muxer, HLS!At, MuxerPlaces
  <2>2. PICK place \in {"asking", "running", "paused"} : client' = [client EXCEPT ![c].at = place]
    BY <1>2 DEF HLS!Goes
  <2>3. /\ client'[c] \in Client(MuxerPlaces, OneSection) /\ client'[c].at = place
        /\ client'[c].role = client[c].role /\ client'[c].ctxDone = client[c].ctxDone
        /\ client' = [client EXCEPT ![c] = client'[c]]
    BY <1>1, <2>2 DEF Client, MuxerPlaces
  <2>4. member' = member \/ member' = [member EXCEPT ![c] = "askRead"]
    BY <1>2 DEF HLS!Asks
  <2>5. Moves(c, MuxerPlaces, OneSection)
    <3>1. "askRead" \in Server!MemberStates
      BY DEF Server!MemberStates
    <3>2. member' \in [Clients -> Server!MemberStates] /\ \A d \in Clients \ {c} : member'[d] = member[d]
      BY <1>1, <2>4, <3>1
    <3> QED BY <2>1, <2>3, <3>2 DEF Moves, Over, MuxerPlaces
  <2>6. /\ Typed(MuxerPlaces, OneSection)' /\ \A d \in Clients : Table(d)'
        /\ \A d \in Clients \ {c} : client'[d] = client[d] /\ member'[d] = member[d]
    BY <1>0, <1>1, <2>5, MoveStep DEF HLSClient
  <2>7. \A d \in Clients : HLSClient(d)'
    BY <1>0, <2>3, <2>6 DEF HLSClient, Out, Over
  <2>8. Muxers'
    <3>1. client[c].at # "closing"
      BY <2>1 DEF MuxerPlaces
    <3>2. \A d \in table : /\ client'[d].role = client[d].role /\ client'[d].ctxDone = client[d].ctxDone
                           /\ client'[d].at = "closing" <=> client[d].at = "closing"
      BY <1>1, <2>3, <2>6, <3>1
    <3> QED BY <1>0, <1>1, <1>2, <3>2 DEF Muxers, Remuxed
  <2> QED BY <1>0, <1>2, <2>6, <2>7, <2>8 DEF HLSInv
<1>3. ASSUME NEW why \in {"gaveUp", "terminated"}, HLS!Ends(c, why), why = "terminated" => client[c].ctxDone,
             client[c].at \in MuxerPlaces
      PROVE  HLSInv'
  <2>1. /\ client' = [client EXCEPT ![c].at = "closing", ![c].ctxDone = TRUE]
        /\ member' = [member EXCEPT ![c] = "out"]
        /\ http' = IF client[c].role = "auto" /\ why # "terminated" THEN [http EXCEPT !.lost = why] ELSE http
    BY <1>3 DEF HLS!Ends, HLS!Asks
  <2>2. PICK r : r = [client[c] EXCEPT !.at = "closing", !.ctxDone = TRUE]
    OBVIOUS
  <2>3. r \in Client(MuxerPlaces, OneSection) /\ r.at = "closing" /\ r.ctxDone /\ r.role = client[c].role
    <3>1. r \in Client(MuxerPlaces, OneSection)
      BY <1>1, <2>2 DEF Client
    <3> QED BY <1>1, <2>2, <3>1 DEF Client
  <2>4. client' = [client EXCEPT ![c] = r] /\ client'[c] = r
    BY <1>1, <2>1, <2>2
  <2>5. Moves(c, MuxerPlaces, OneSection)
    <3>1. "out" \in Server!MemberStates
      BY DEF Server!MemberStates
    <3>2. member' \in [Clients -> Server!MemberStates] /\ \A d \in Clients \ {c} : member'[d] = member[d]
      BY <1>1, <2>1, <3>1
    <3> QED BY <1>3, <2>3, <2>4, <3>2 DEF Moves, Over, MuxerPlaces
  <2>6. /\ Typed(MuxerPlaces, OneSection)' /\ \A d \in Clients : Table(d)'
        /\ \A d \in Clients \ {c} : client'[d] = client[d] /\ member'[d] = member[d]
    BY <1>0, <1>1, <2>5, MoveStep DEF HLSClient
  <2>7. \A d \in Clients : HLSClient(d)'
    BY <1>0, <1>1, <2>1, <2>6 DEF HLSClient, Out, Over
  <2>8. /\ http' \in HttpData /\ http'.remux = http.remux /\ http'.ready = http.ready /\ http'.notice = http.notice
        /\ http'.removed = http.removed /\ http'.listed = http.listed
        /\ http' = http \/ http'.lost = "gaveUp"
        /\ client[c].role = "auto" /\ why = "gaveUp" => http'.lost = "gaveUp"
    BY <1>0, <1>3, <2>1 DEF HttpData
  <2>9. Muxers'
    <3>1. \A d \in table : client'[d].role = client[d].role
      BY <1>1, <2>3, <2>4, <2>6
    <3>2. CASE http'.lost = "gaveUp"
      BY <1>0, <1>1, <2>8, <3>1, <3>2 DEF Muxers, Remuxed
    <3>3. CASE http' = http /\ c \in table /\ why = "terminated"
      BY <1>0, <1>1, <1>3, <2>8, <3>1, <3>3 DEF Muxers, Remuxed
    <3>4. CASE http' = http /\ c \notin table
      <4>1. \A d \in table : client'[d] = client[d]
        BY <1>1, <2>6, <3>4
      <4> QED BY <1>0, <1>1, <2>8, <3>1, <3>4, <4>1 DEF Muxers, Remuxed
    <3>5. CASE http' = http /\ c \in table /\ client[c].role # "auto"
      BY <1>0, <1>1, <3>5 DEF Muxers, Remuxed
    <3> QED BY <1>3, <2>8, <3>2, <3>3, <3>4, <3>5
  <2> QED BY <2>6, <2>7, <2>8, <2>9 DEF HLSInv
<1>4. CASE HLS!Run(c)
  BY <1>2, <1>4 DEF HLS!Run, HLS!Muxer
<1>5. CASE HLS!PathAnswered(c)
  BY <1>2, <1>3, <1>5 DEF HLS!PathAnswered, HLS!Muxer, HLS!At, MuxerPlaces
<1>6. CASE HLS!InstanceError(c)
  BY <1>2, <1>3, <1>6 DEF HLS!InstanceError, HLS!Muxer, HLS!At, MuxerPlaces
<1>7. CASE HLS!Recreate(c)
  BY <1>2, <1>7 DEF HLS!Recreate, HLS!Muxer
<1>8. CASE HLS!NotUsedAnymore(c)
  BY <1>3, <1>8 DEF HLS!NotUsedAnymore, HLS!Muxer, HLS!At, MuxerPlaces
<1>9. CASE HLS!Terminated(c)
  BY <1>3, <1>9 DEF HLS!Terminated, HLS!Muxer, HLS!At, HLS!Cancelled, MuxerPlaces
<1> QED BY <1>4, <1>5, <1>6, <1>7, <1>8, <1>9

LEMMA HLSStep ==
    ASSUME HLSInv, HLS!HLSNext
    PROVE  HLSInv'
  BY NoticeStep, ReaderStep, LoopStepHLS, ListStep, ReadyStep, NotReadyStep, GetStep, MuxerStep
  DEF HLS!HLSNext, HLS!LoopSteps, HLS!PathSide, HLS!MuxerSteps

-----------------------------------------------------------------------------
LEMMA InitInv == Init => IInv
<1> SUFFICES ASSUME Init PROVE IInv
  OBVIOUS
<1> USE DEF Typed, Client, Over, Server!MemberStates, Table, Out
<1>1. CASE proto = "rtmp" /\ RTMP!RTMPInit
  BY <1>1 DEF IInv, RTMPInv, RTMP!RTMPInit, RTMP!ServerInit, RTMP!NewClient, RTMP!None
<1>2. CASE proto = "srt" /\ SRT!SRTInit
  BY <1>2 DEF IInv, SRTInv, SRTClient, IsChecked, Asking, SRT!SRTInit, SRT!ServerInit, SRT!NewClient, SRT!None
<1>3. CASE proto = "rtsp" /\ RTSP!RTSPInit
  BY <1>3 DEF IInv, RTSPInv, RTSPClient, SessionData, IsChecked, HoldsPath, RTSP!NewSessionData,
     RTSP!RTSPInit, RTSP!ServerInit, RTSP!NewClient, RTSP!None
<1>4. CASE proto = "webrtc" /\ WebRTC!WebRTCInit
  BY <1>4 DEF IInv, WebRTCInv, WebRTCClient, Requests, IsChecked, Asking, PostIsAt, WebRTC!NoRequests,
     WebRTC!WebRTCInit, WebRTC!ServerInit, WebRTC!NewClient, WebRTC!None
<1>5. CASE proto = "hls" /\ HLS!HLSInit
  <2>1. Typed(MuxerPlaces, OneSection) /\ \A c \in Clients : HLSClient(c)
    BY <1>5 DEF HLSClient, MuxerPlaces, HLS!HLSInit, HLS!ServerInit, HLS!NewClient, HLS!None
  <2>2. table = {} /\ \E remux \in BOOLEAN, ready \in BOOLEAN :
           http = [remux |-> remux, listed |-> FALSE, ready |-> ready, notice |-> "none",
                   get |-> "none", muxer |-> {}, lost |-> "no", removed |-> FALSE]
    BY <1>5 DEF HLS!HLSInit, HLS!ServerInit
  <2>3. http \in HttpData
    BY <2>2 DEF HttpData
  <2>4. Muxers
    BY <2>2 DEF Muxers, Remuxed
  <2> QED BY <1>5, <2>1, <2>3, <2>4 DEF IInv, HLSInv
<1> QED BY <1>1, <1>2, <1>3, <1>4, <1>5 DEF Init

LEMMA StepInv ==
    ASSUME IInv, [Next]_vars
    PROVE  IInv' /\ [\A c \in Clients : CheckedBefore => SRT!AdmittedAsChecked(c)]_vars
<1>1. CASE Next
  BY <1>1, RTMPStep, SRTStep, RTSPStep, WebRTCStep, HLSStep DEF Next, IInv, CheckedBefore
<1>2. CASE UNCHANGED vars
  <2>1. IInv'
    BY <1>2 DEF vars, IInv, RTMPInv, SRTInv, RTSPInv, WebRTCInv, HLSInv, Typed, Table, Out, SRTClient, RTSPClient,
       WebRTCClient, HLSClient, Muxers, Remuxed, HoldsPath, PostIsAt, IsChecked, Asking
  <2> QED BY <1>2, <2>1
<1> QED BY <1>1, <1>2

LEMMA Inductive == Spec => []IInv
  BY InitInv, StepInv, PTL DEF Spec

-----------------------------------------------------------------------------
(* Every variable stays within its type, whichever protocol the server is  *)
(* of.                                                                     *)
THEOREM TypeCorrect == Spec => []TypeOK
<1>1. IInv => TypeOK
  BY DEF IInv, TypeOK, RTMPInv, SRTInv, RTSPInv, WebRTCInv, HLSInv, Typed, Client, Over, Requests, SessionData, HttpData,
     MuxerPlaces, RTMP!RTMPTypeOK, SRT!SRTTypeOK, RTSP!RTSPTypeOK, WebRTC!WebRTCTypeOK, HLS!HLSTypeOK,
     RTMP!ServerTypeOK, SRT!ServerTypeOK, RTSP!ServerTypeOK, WebRTC!ServerTypeOK, HLS!ServerTypeOK,
     RTMP!Ended, SRT!Ended, RTSP!Ended, WebRTC!Ended, HLS!Ended, RTMP!None, SRT!None, RTSP!None, WebRTC!None, HLS!None,
     RTMP!MemberStates, SRT!MemberStates, RTSP!MemberStates, WebRTC!MemberStates, HLS!MemberStates, Server!MemberStates
<1> QED BY <1>1, Inductive, PTL

(* However a client ends - refused, kicked, put out by the path, cut off,  *)
(* or with its server (closeConn, closeSession, onClose) - it has given    *)
(* its place in the path back, and the table of the API shows who is there.*)
THEOREM LeavesPathCorrect == Spec => []LeavesPath
<1>1. IInv => LeavesPath
  <2> SUFFICES ASSUME IInv, NEW c \in Clients
               PROVE  /\ IF proto = "rtsp" THEN RTSP!SessionLeavesPath(c) ELSE RTMP!LeavesPath(c)
                      /\ RTMP!TableIsTrue(c)
    BY DEF LeavesPath
  <2>1. Table(c) /\ IF proto = "rtsp" THEN HoldsPath(c) ELSE Out(c, Over \cup {"closing"})
    BY DEF IInv, RTMPInv, SRTInv, RTSPInv, WebRTCInv, HLSInv, SRTClient, RTSPClient, WebRTCClient, HLSClient, Out
  <2> QED BY <2>1 DEF HoldsPath, Table, Out, Over, RTSP!SessionLeavesPath, RTMP!LeavesPath, RTMP!TableIsTrue,
                      RTSP!At, RTMP!At, RTMP!Ended, RTMP!Cancelled
<1> QED BY <1>1, Inductive, PTL

(* The hook of a reader of RTSP runs exactly while it plays, a POST of     *)
(* WebRTC is answered once and before its session is gone, and with        *)
(* alwaysRemux a path of HLS that is ready has its one muxer, but for the  *)
(* reasons the server knows of.                                            *)
THEOREM SessionsCorrect == Spec => []SessionsAreSound
<1>1. IInv => SessionsAreSound
  <2> SUFFICES ASSUME IInv PROVE SessionsAreSound
    OBVIOUS
  <2>1. ASSUME proto = "rtsp", NEW c \in Clients PROVE RTSP!HookRunsInPlay(c)
    BY <2>1 DEF IInv, RTSPInv, RTSPClient, HoldsPath, RTSP!HookRunsInPlay, RTSP!At
  <2>2. ASSUME proto = "webrtc", NEW c \in Clients PROVE WebRTC!PostAnsweredOnce(c)
    BY <2>2 DEF IInv, WebRTCInv, WebRTCClient, PostIsAt, WebRTC!PostAnsweredOnce, WebRTC!At
  <2>3. ASSUME proto = "hls" PROVE HLS!AlwaysRemuxed
    <3>1. Muxers
      BY <2>3 DEF IInv, HLSInv
    <3>2. Cardinality(table) <= 1
      <4>1. CASE table = {}
        BY <4>1, FS_EmptySet
      <4>2. CASE table # {}
        <5>1. PICK c \in table : table = {c}
          BY <3>1, <4>2 DEF Muxers
        <5>2. Cardinality({c}) = 1
          BY FS_Singleton
        <5> QED BY <5>1, <5>2
      <4> QED BY <4>1, <4>2
    <3>3. HLS!Cardinality(table) = Cardinality(table)
      BY DEF HLS!Cardinality, Cardinality, HLS!IsFiniteSet, IsFiniteSet
    <3> QED BY <3>1, <3>2, <3>3 DEF Muxers, Remuxed, HLS!AlwaysRemuxed
  <2> QED BY <2>1, <2>2, <2>3 DEF SessionsAreSound
<1> QED BY <1>1, Inductive, PTL

(* A publisher of SRT, RTSP or WebRTC, whose credentials the server has    *)
(* had checked before it asks the manager (ConfToCompare), gets through    *)
(* only under the section they were checked against, however many reloads  *)
(* there were in between.                                                  *)
THEOREM AdmittedCorrect == Spec => AdmittedAsChecked
<1>1. IInv /\ [Next]_vars => [\A c \in Clients : CheckedBefore => SRT!AdmittedAsChecked(c)]_vars
  BY StepInv
<1> QED BY <1>1, Inductive, PTL DEF Spec, AdmittedAsChecked
=============================================================================
