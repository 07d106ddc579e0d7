------------------------------ MODULE WebRTCServer ------------------------------
(***************************************************************************)
(* The WebRTC server (servers/webrtc): its sessions are made by a POST     *)
(* (WHIP, WHEP), get more candidates by PATCH and end by DELETE.  A POST   *)
(* goes through the loop of the server to the session it has made, which   *)
(* answers it; a PATCH goes through the loop to the session.               *)
(***************************************************************************)
EXTENDS ProtocolServer

(* Of each session: its POST, how often that was answered, and the PATCH   *)
(* that is under way; "lost" are those that meet a blocked reader.         *)
NoRequests == [post |-> "none", answers |-> 0, patch |-> "none"]

WebRTCInit == ServerInit /\ http = [c \in Clients |-> NoRequests]

Server(A) == A /\ UNCHANGED http
Session(A) == A /\ UNCHANGED <<serverVars, section>>
Request(A) == A /\ UNCHANGED <<serverVars, client, pathVars>>

-----------------------------------------------------------------------------
(* The loop.                                                               *)

(* newSession: the session is made and in both maps when the handler of    *)
(* the POST hears of it.                                                   *)
NewSession(c) ==
    /\ ServeOpen(c, "created")
    /\ http' = [http EXCEPT ![c].post = "created"]

CloseSession(c) == Server(ServeClosed(c))
APISessionsKick(c) == Server(ServeKick(c))

(* deleteSession: by whoever was told the secret.                          *)
DeleteSession(c) ==
    /\ http[c].post = "answered"
    /\ Server(ServeKick(c))

(* Bound: one session at a time has a PATCH under way.                     *)
OnePatch == \A c \in Clients : http[c].patch = "none"

(* addSessionCandidates: the loop finds the session, which then has to be  *)
(* handed the candidates.                                                  *)
AddSessionCandidates(c) == Request(
    /\ loop = "running" /\ c \in table
    /\ http[c].post = "answered" /\ OnePatch
    /\ http' = [http EXCEPT ![c].patch = "found"])

RunEnds == Server(LoopEnds(FALSE))
Close == Server(ServerClose)
CloseReturns == Server(ServerCloseReturns)

-----------------------------------------------------------------------------
(* The session.                                                            *)

(* session.new hands the POST to the session, if neither is told to go.    *)
New(c) == At(c, {"created"}) /\ http[c].post = "created"
NewSkipped(c) == Request(
    /\ Cancelled(c) /\ http[c].post = "created"
    /\ http' = [http EXCEPT ![c].post = "refused", ![c].answers = @ + 1])
NeverStarted(c) == Session(
    /\ Cancelled(c) /\ At(c, {"created"})
    /\ Leaves(c)
    /\ UNCHANGED <<member, http>>)

(* The POST is answered with a status: an error before the answer was      *)
(* written.                                                                *)
Refused(c) == [http EXCEPT ![c].post = "refused", ![c].answers = @ + 1]

(* runPublish: the section is found, the credentials are checked.          *)
RunPublish(c) == Session(
    /\ New(c)
    /\ \/ /\ client' = [client EXCEPT ![c].at = "offered", ![c].role = "publish", ![c].checked = section]
          /\ http' = [http EXCEPT ![c].post = "waiting"]
       \/ Leaves(c) /\ http' = Refused(c)
    /\ UNCHANGED member)

(* runRead: the path is asked before anything is answered.                 *)
RunRead(c) == Session(
    /\ New(c)
    /\ client' = [client EXCEPT ![c].at = "asking", ![c].role = "read"]
    /\ Asks(c, "askRead")
    /\ http' = [http EXCEPT ![c].post = "waiting"])
ReaderAnswered(c) == Session(
    /\ At(c, {"asking"}) /\ client[c].role = "read"
    /\ \/ member[c] \in {"reader", "out"} /\ Goes(c, "offered") /\ UNCHANGED <<member, http>>
       \/ member[c] = "refused" /\ Leaves(c) /\ Asks(c, "out") /\ http' = Refused(c))

(* writeAnswer: from now on remote candidates are read.                    *)
WriteAnswer(c) == Session(
    /\ At(c, {"offered"})
    /\ \/ /\ Goes(c, "connecting")
          /\ http' = [http EXCEPT ![c].post = "answered", ![c].answers = @ + 1]
          /\ UNCHANGED member
       \/ Leaves(c) /\ http' = Refused(c) /\ Asks(c, "out"))

(* WaitUntilConnected; then a reader is served, and the tracks of a        *)
(* publisher are gathered before the path is asked.                        *)
Connected(c) == Session(
    /\ At(c, {"connecting"})
    /\ IF client[c].role = "read"
       THEN Goes(c, "serving") /\ UNCHANGED member
       ELSE Goes(c, "asking") /\ Asks(c, "askPublish")
    /\ UNCHANGED http)
PublisherAnswered(c) == Session(
    /\ At(c, {"asking"}) /\ client[c].role = "publish"
    /\ \/ member[c] \in {"publisher", "out"} /\ Goes(c, "serving") /\ UNCHANGED member
       \/ member[c] = "refused" /\ Leaves(c) /\ Asks(c, "out")
    /\ UNCHANGED http)

(* Mutant: an error after the answer carries a status.                     *)
RunEnded_Answers(c) == Session(
    /\ At(c, {"connecting", "serving"})
    /\ Leaves(c) /\ Asks(c, "out")
    /\ http' = Refused(c))

(* The handshake fails or times out, the peer connection fails, the        *)
(* stream reader fails, the context is done.                               *)
RunEnded(c) == Session(
    /\ At(c, {"connecting", "serving"})
    /\ Leaves(c) /\ Asks(c, "out")
    /\ UNCHANGED http)

-----------------------------------------------------------------------------
(* readRemoteCandidates.  It answers each candidate that is refused, and   *)
(* the request once more when it is through: the first answer is the one   *)
(* that the handler takes.  Nobody takes the next, and the goroutine stays *)
(* where it is.                                                            *)
CandidatesAdded(c) == Request(
    /\ http[c].patch = "found"
    /\ \E patch \in {"none", "lost"} : http' = [http EXCEPT ![c].patch = patch])
CandidatesSkipped(c) == Request(
    /\ Cancelled(c) /\ http[c].patch \in {"found", "lost"}
    /\ http' = [http EXCEPT ![c].patch = "none"])

-----------------------------------------------------------------------------
SessionSteps(c) ==
    \/ NeverStarted(c) \/ RunPublish(c) \/ RunRead(c) \/ ReaderAnswered(c) \/ WriteAnswer(c)
    \/ Connected(c) \/ PublisherAnswered(c) \/ RunEnded(c)
RequestSteps(c) == NewSkipped(c) \/ CandidatesAdded(c) \/ CandidatesSkipped(c)
ServerSteps ==
    \/ \E c \in Clients : NewSession(c) \/ CloseSession(c) \/ APISessionsKick(c)
                          \/ DeleteSession(c) \/ AddSessionCandidates(c)
    \/ RunEnds \/ Close \/ CloseReturns

WebRTCNext == ServerSteps \/ (\E c \in Clients : SessionSteps(c) \/ RequestSteps(c)) \/ PathSteps

ServerGoesOn == RunEnds \/ CloseReturns
ClientGoesOn(c) ==
    \/ NeverStarted(c) \/ RunPublish(c) \/ RunRead(c) \/ ReaderAnswered(c) \/ WriteAnswer(c)
    \/ PublisherAnswered(c) \/ (Cancelled(c) /\ RunEnded(c)) \/ CloseSession(c)

-----------------------------------------------------------------------------
WebRTCTypeOK ==
    /\ ServerTypeOK({"created", "offered", "asking", "connecting", "serving"})
    /\ http \in [Clients -> [post : {"none", "created", "waiting", "answered", "refused"}, answers : {0, 1},
                             patch : {"none", "found", "lost"}]]

(* The handler of a POST waits for one answer, on a channel only the       *)
(* session sends to: no session ends without having answered, and none     *)
(* answers twice, which would block it for ever.                           *)
PostAnsweredOnce(c) ==
    /\ http[c].answers = IF http[c].post \in {"answered", "refused"} THEN 1 ELSE 0
    /\ At(c, {"gone"}) /\ http[c].post # "created" => http[c].answers = 1

RequestAnswered(c) ==
    /\ http[c].post \notin {"created", "waiting"}
    /\ http[c].patch # "found"
=============================================================================
