------------------------------- MODULE RTSPServer -------------------------------
(***************************************************************************)
(* The RTSP and RTSPS servers (servers/rtsp), on top of gortsplib, which   *)
(* calls the handlers of a session one at a time, changes the state of the *)
(* session after a handler has returned OK, and calls OnSessionClose once, *)
(* with no handler in progress, after the session was closed.              *)
(*                                                                         *)
(* client[c].at is the state of the session, handler[c] the handler that   *)
(* waits for the path.                                                     *)
(***************************************************************************)
EXTENDS ProtocolServer

(* Of each session: the handler in progress, s.path (set or nil), the hook *)
(* of a reader (running or not).  cut: it was kicked while a handler was   *)
(* waiting for the path.                                                   *)
NewSessionData == [handler |-> "none", path |-> FALSE, hook |-> FALSE, cut |-> FALSE]

RTSPInit == ServerInit /\ http = [c \in Clients |-> NewSessionData]

Handles(c, states) == At(c, states) /\ http[c].handler = "none" /\ ~Cancelled(c)
Session(A) == A /\ UNCHANGED <<serverVars, section>>

-----------------------------------------------------------------------------
(* Handlers.                                                               *)

OnSessionOpen(c) ==
    /\ ~ctxDone /\ loop = "running" /\ At(c, {"none"})
    /\ client' = [client EXCEPT ![c] = Opened("initial")]
    /\ table' = table \cup {c}
    /\ UNCHANGED <<ctxDone, loop, closing, pathVars, http>>

(* ANNOUNCE: the section is found, the credentials are checked.            *)
OnAnnounce(c) == Session(
    /\ Handles(c, {"initial"})
    /\ client' = [client EXCEPT ![c].at = "preRecord", ![c].role = "publish", ![c].checked = section]
    /\ UNCHANGED <<member, http>>)

(* SETUP, of a reader, once per track.                                     *)
OnSetup(c) == Session(
    /\ Handles(c, {"initial", "prePlay"})
    /\ http' = [http EXCEPT ![c].handler = "setup"]
    /\ member' = [member EXCEPT ![c] = IF @ = "reader" THEN "reader" ELSE "askRead"]
    /\ UNCHANGED client)
SetupAnswered(c) == Session(
    /\ http[c].handler = "setup"
    /\ \/ /\ member[c] \in {"reader", "out"}
          /\ http' = [http EXCEPT ![c].handler = "none", ![c].path = TRUE]
          /\ client' = [client EXCEPT ![c].at = IF @ = "initial" THEN "prePlay" ELSE @, ![c].role = "read"]
          /\ UNCHANGED member
       \/ /\ member[c] = "refused"
          /\ http' = [http EXCEPT ![c].handler = "none"]
          /\ Asks(c, "out")
          /\ UNCHANGED client)

(* PLAY: onPlay and the hook use s.path.                                   *)
OnPlay(c) == Session(
    /\ Handles(c, {"prePlay"})
    /\ http[c].path
    /\ Goes(c, "play")
    /\ http' = [http EXCEPT ![c].hook = TRUE]
    /\ UNCHANGED member)

(* RECORD: the path is asked, with the section that was checked.           *)
OnRecord(c) == Session(
    /\ Handles(c, {"preRecord"})
    /\ http' = [http EXCEPT ![c].handler = "record"]
    /\ Asks(c, "askPublish")
    /\ UNCHANGED client)
RecordAnswered(c) == Session(
    /\ http[c].handler = "record"
    /\ \/ /\ member[c] \in {"publisher", "out"}
          /\ http' = [http EXCEPT ![c].handler = "none", ![c].path = TRUE]
          /\ Goes(c, "record") /\ UNCHANGED member
       \/ /\ member[c] = "refused"
          /\ http' = [http EXCEPT ![c].handler = "none"]
          /\ Asks(c, "out") /\ UNCHANGED client)

(* PAUSE: a reader stays in the path, a publisher leaves it.               *)
OnPause(c) == Session(
    /\ Handles(c, {"play", "record"})
    /\ IF At(c, {"play"})
       THEN Goes(c, "prePlay") /\ http' = [http EXCEPT ![c].hook = FALSE] /\ UNCHANGED member
       ELSE Goes(c, "preRecord") /\ Asks(c, "out") /\ UNCHANGED http)

(* onClose: what is released depends on the state gortsplib reports.       *)
Released(c) ==
    /\ IF At(c, {"prePlay", "play", "record"}) /\ member[c] \in {"reader", "publisher"}
       THEN Asks(c, "out")
       ELSE UNCHANGED member
    /\ http' = [http EXCEPT ![c].path = FALSE, ![c].hook = ~At(c, {"play"}) /\ @, ![c].cut = http[c].handler # "none"]

(* The end of the connection, a timeout, TEARDOWN, or session.Close.  If   *)
(* the session was kicked it is not in the map any more.                   *)
OnSessionClose(c) ==
    /\ ~At(c, Ended) /\ http[c].handler = "none"
    /\ Goes(c, "gone")
    /\ table' = table \ {c}
    /\ IF c \in table THEN Released(c) ELSE UNCHANGED <<member, http>>
    /\ UNCHANGED <<ctxDone, loop, closing, section>>

(* APISessionsKick: in the goroutine of the API, under the mutex of the    *)
(* map, but not of the session: its handler may be anywhere.               *)
APISessionsKick(c) ==
    /\ ~ctxDone /\ c \in table
    /\ client' = [client EXCEPT ![c].ctxDone = TRUE]
    /\ table' = table \ {c}
    /\ Released(c)
    /\ UNCHANGED <<ctxDone, loop, closing, section>>

-----------------------------------------------------------------------------
(* srv.Wait returns: an error, or srv.Close, which waits for the sessions. *)
RunEnds(error) ==
    /\ loop = "running" /\ (ctxDone \/ error)
    /\ \A c \in Clients : At(c, Ended)
    /\ loop' = "ended" /\ Cancel
    /\ UNCHANGED <<closing, table, pathVars, http>>
Close == ServerClose /\ UNCHANGED http
CloseReturns == ServerCloseReturns /\ UNCHANGED http

SessionSteps(c) ==
    \/ OnSessionOpen(c) \/ OnAnnounce(c) \/ OnSetup(c) \/ SetupAnswered(c) \/ OnPlay(c)
    \/ OnRecord(c) \/ RecordAnswered(c) \/ OnPause(c) \/ OnSessionClose(c)
RTSPNext ==
    \/ \E c \in Clients : SessionSteps(c) \/ APISessionsKick(c)
    \/ RunEnds(FALSE) \/ RunEnds(TRUE) \/ Close \/ CloseReturns
    \/ PathSteps

ServerGoesOn == RunEnds(FALSE) \/ CloseReturns
ClientGoesOn(c) == SetupAnswered(c) \/ RecordAnswered(c) \/ (Cancelled(c) /\ OnSessionClose(c))

-----------------------------------------------------------------------------
RTSPTypeOK ==
    /\ ServerTypeOK({"initial", "prePlay", "play", "preRecord", "record"})
    /\ http \in [Clients -> [handler : {"none", "setup", "record"}, path : BOOLEAN, hook : BOOLEAN, cut : BOOLEAN]]

(* The hook of a reader runs while it plays, and what the session knows of *)
(* its path is there whenever a handler uses it.                           *)
HookRunsInPlay(c) ==
    /\ http[c].hook <=> At(c, {"play"}) /\ c \in table
    /\ At(c, {"prePlay", "play", "record"}) /\ c \in table => http[c].path

(* session.go: "things that need to be released must go in onClose()".  A  *)
(* session that is gone is neither a reader nor the publisher of a path,   *)
(* unless it was kicked while a handler was waiting for the path.          *)
SessionLeavesPath(c) == At(c, {"gone"}) /\ ~http[c].cut => member[c] = "out"
=============================================================================
