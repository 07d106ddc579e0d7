-------------------------------- MODULE SRTServer --------------------------------
(* The SRT server (servers/srt).  Its loop is that of RTMP; a connection   *)
(* is only a request until the server has found out whom it is from.       *)
EXTENDS ProtocolServer

SRTInit == ServerInit /\ http = <<>>

Server(A) == A /\ UNCHANGED http
Conn(A) == A /\ UNCHANGED <<serverVars, section, http>>

NewConnRequest(c) == Server(ServeOpen(c, "requested"))
CloseConn(c) == Server(ServeClosed(c))
APIConnsKick(c) == Server(ServeKick(c))
Close == Server(ServerClose)
CloseReturns == Server(ServerCloseReturns)
RunEnds == Server(LoopEnds(FALSE))
AcceptError == Server(LoopEnds(TRUE))

-----------------------------------------------------------------------------
(* The stream ID: an action, a path, credentials, in the standard syntax   *)
(* or in another one.                                                      *)
(* Whatever is wrong with it, the request is rejected.                     *)
StreamIDRefused(c) == Conn(
    /\ At(c, {"requested"})
    /\ Leaves(c)
    /\ UNCHANGED member)

(* Mutant: the section is not kept to be compared.                         *)
RunPublish_NoCompare(c) == Conn(
    /\ At(c, {"requested"})
    /\ client' = [client EXCEPT ![c].at = "accepted", ![c].role = "publish"]
    /\ UNCHANGED member)

(* To publish: the section is found and the credentials are checked, then  *)
(* the passphrase of the section; the connection is accepted, its tracks   *)
(* are read, and only then the path is asked.                              *)
RunPublish(c) == Conn(
    /\ At(c, {"requested"})
    /\ client' = [client EXCEPT ![c].at = "accepted", ![c].role = "publish", ![c].checked = section]
    /\ UNCHANGED member)
RunPublishReader(c) == Conn(
    /\ At(c, {"accepted"}) /\ client[c].role = "publish"
    /\ Goes(c, "asking") /\ Asks(c, "askPublish"))

(* To read: the path is asked, on hold if need be, before the passphrase   *)
(* is checked and the connection accepted.                                 *)
RunRead(c) == Conn(
    /\ At(c, {"requested"})
    /\ client' = [client EXCEPT ![c].at = "asking", ![c].role = "read"]
    /\ Asks(c, "askRead"))
PathAnswered(c) == Conn(
    /\ At(c, {"asking"})
    /\ \/ member[c] \in {"reader", "publisher", "out"} /\ UNCHANGED member
          /\ Goes(c, IF client[c].role = "read" THEN "accepted" ELSE "serving")
       \/ member[c] = "refused" /\ Leaves(c) /\ Asks(c, "out"))
AddReader(c) == Conn(
    /\ At(c, {"accepted"}) /\ client[c].role = "read"
    /\ Goes(c, "serving") /\ UNCHANGED member)

(* The passphrase, the connection, the tracks, a deadline, the context     *)
(* (which only the publisher and the reader that is served look at).       *)
RunEnded(c) == Conn(
    /\ At(c, {"accepted", "serving"})
    /\ Leaves(c)
    /\ Asks(c, "out"))

ConnSteps(c) ==
    \/ StreamIDRefused(c) \/ RunPublish(c) \/ RunPublishReader(c)
    \/ RunRead(c) \/ PathAnswered(c) \/ AddReader(c) \/ RunEnded(c)
ServerSteps ==
    \/ \E c \in Clients : NewConnRequest(c) \/ CloseConn(c) \/ APIConnsKick(c)
    \/ Close \/ CloseReturns \/ RunEnds \/ AcceptError

SRTNext == ServerSteps \/ (\E c \in Clients : ConnSteps(c)) \/ PathSteps

(* A request is looked at and a connection is accepted without delay.      *)
ServerGoesOn == RunEnds \/ CloseReturns
ClientGoesOn(c) ==
    \/ CloseConn(c) \/ PathAnswered(c) \/ (Cancelled(c) /\ RunEnded(c))
    \/ StreamIDRefused(c) \/ RunPublish(c) \/ RunRead(c)

SRTTypeOK == http = <<>> /\ ServerTypeOK({"requested", "accepted", "asking", "serving"})
=============================================================================
