------------------------------- MODULE RTMPServer -------------------------------
(* The RTMP and RTMPS servers (servers/rtmp).                              *)
EXTENDS ProtocolServer

RTMPInit == ServerInit /\ http = <<>>

Server(A) == A /\ UNCHANGED http
Conn(A) == A /\ UNCHANGED <<serverVars, section, http>>

NewConn(c) == Server(ServeOpen(c, "handshake"))
CloseConn(c) == Server(ServeClosed(c))
APIConnsKick(c) == Server(ServeKick(c))
Close == Server(ServerClose)
CloseReturns == Server(ServerCloseReturns)
RunEnds == Server(LoopEnds(FALSE))
AcceptError == Server(LoopEnds(TRUE))

-----------------------------------------------------------------------------
(* conn.run waits for runReader, a goroutine of its own, which is cut off  *)
(* by closing the connection.                                              *)

(* Accept tells a reader from a publisher; the tracks of a publisher are   *)
(* read (ToStream) before the path is asked.  The credentials are checked  *)
(* by the same request.                                                    *)
RunRead(c) == Conn(
    /\ At(c, {"handshake"})
    /\ client' = [client EXCEPT ![c].at = "asking", ![c].role = "read"]
    /\ Asks(c, "askRead"))
RunPublish(c) == Conn(
    /\ At(c, {"handshake"})
    /\ client' = [client EXCEPT ![c].at = "asking", ![c].role = "publish"]
    /\ Asks(c, "askPublish"))

(* The answer, which nothing cuts short: not even the end of the context.  *)
PathAnswered(c) == Conn(
    /\ At(c, {"asking"})
    /\ \/ member[c] \in {"reader", "publisher", "out"} /\ Goes(c, "serving") /\ UNCHANGED member
       \/ member[c] = "refused" /\ Leaves(c) /\ Asks(c, "out"))

(* Mutant: an error before the reader is added to the stream leaves the    *)
(* reader in the path.                                                     *)
RunEnded_KeepsReader(c) == Conn(
    /\ At(c, {"handshake", "serving"})
    /\ Leaves(c)
    /\ member' = IF client[c].role = "read" /\ ~Cancelled(c) THEN member ELSE [member EXCEPT ![c] = "out"])

(* The context, the connection, a deadline, the tracks, the write of a     *)
(* reader: the deferred calls take the client out of the stream and of     *)
(* the path.                                                               *)
RunEnded(c) == Conn(
    /\ At(c, {"handshake", "serving"})
    /\ Leaves(c)
    /\ Asks(c, "out"))

ConnSteps(c) == RunRead(c) \/ RunPublish(c) \/ PathAnswered(c) \/ RunEnded(c)
ServerSteps ==
    \/ \E c \in Clients : NewConn(c) \/ CloseConn(c) \/ APIConnsKick(c)
    \/ Close \/ CloseReturns \/ RunEnds \/ AcceptError

RTMPNext == ServerSteps \/ (\E c \in Clients : ConnSteps(c)) \/ PathSteps

-----------------------------------------------------------------------------
(* What must go on: the loop, an answer of the path, the end of what was   *)
(* closed.                                                                 *)
ServerGoesOn == RunEnds \/ CloseReturns
ClientGoesOn(c) == CloseConn(c) \/ PathAnswered(c) \/ (Cancelled(c) /\ RunEnded(c))

RTMPTypeOK == http = <<>> /\ ServerTypeOK({"handshake", "asking", "serving"})
=============================================================================
