-------------------------------- MODULE HLSServer --------------------------------
(***************************************************************************)
(* The HLS server (servers/hls): a muxer per path, a reader of it.  With   *)
(* alwaysRemux a muxer is made when the manager says that the path is      *)
(* ready, and is closed when it says that it is not; otherwise the first   *)
(* request makes it, and it ends when nobody has asked for a while.        *)
(***************************************************************************)
EXTENDS ProtocolServer

(* ready, notice: the path, and what the manager is telling the server.    *)
(* get: the request under way, and the muxer it was given.  lost: why a    *)
(* path that is ready may have no muxer; removed: an earlier path of this  *)
(* name was removed by the manager, which says nothing to the server.      *)
HLSInit ==
    /\ ServerInit
    /\ \E remux \in BOOLEAN, ready \in BOOLEAN :
           http = [remux |-> remux, listed |-> FALSE, ready |-> ready, notice |-> "none",
                   get |-> "none", muxer |-> {}, lost |-> "no", removed |-> FALSE]

Muxer(A) == A /\ UNCHANGED <<serverVars, section>>
PathOf(A) == A /\ UNCHANGED <<serverVars, section>>

-----------------------------------------------------------------------------
(* The path and the manager (core).                                        *)

NoReaders == \A c \in Clients : member[c] # "reader"
(* Bound: a path becomes ready as long as there is a muxer left for it.    *)
PathReady == PathOf(
    /\ \E c \in Clients : At(c, {"none"})
    /\ ~http.ready /\ http.notice = "none" /\ NoReaders
    /\ http' = [http EXCEPT !.ready = TRUE, !.notice = IF http.listed THEN "ready" ELSE "none"]
    /\ UNCHANGED <<client, member>>)
PathNotReady == PathOf(
    /\ http.ready /\ http.notice = "none"
    /\ http' = [http EXCEPT !.ready = FALSE, !.notice = IF http.listed THEN "notReady" ELSE "none"]
    /\ UNCHANGED <<client, member>>)
PathRemoved == PathOf(
    /\ http.ready /\ http.notice = "none"
    /\ http' = [http EXCEPT !.ready = FALSE, !.removed = TRUE]
    /\ UNCHANGED <<client, member>>)
ReaderAnswered(c) == PathOf(
    /\ http.notice = "none" /\ member[c] = "askRead"
    /\ \/ http.ready /\ Asks(c, "reader")
       \/ Asks(c, "refused")
    /\ UNCHANGED <<client, http>>)
ReaderPutOut(c) == PathOf(
    /\ ~http.ready /\ http.notice = "none" /\ PathCloses(c)
    /\ UNCHANGED http)

-----------------------------------------------------------------------------
(* The loop.                                                               *)

(* createMuxer.                                                            *)
CreateMuxer(c, role) ==
    /\ At(c, {"none"})
    /\ client' = [client EXCEPT ![c] = [Opened("created") EXCEPT !.role = role]]
    /\ table' = table \cup {c}

Loop == loop = "running"
InLoop == UNCHANGED <<ctxDone, loop, closing, pathVars>>

(* SetHLSServer: what is ready when the server starts.                     *)
ListReady ==
    /\ Loop /\ ~http.listed
    /\ http' = [http EXCEPT !.listed = TRUE]
    /\ IF http.remux /\ http.ready
       THEN \E c \in Clients : CreateMuxer(c, "auto")
       ELSE UNCHANGED <<client, table>>
    /\ InLoop

(* chPathReady: a muxer is there already if the one of an earlier path of  *)
(* this name is still dying.                                               *)
DoPathReady ==
    /\ Loop /\ http.listed /\ http.notice = "ready"
    /\ IF http.remux /\ table = {}
       THEN \E c \in Clients : CreateMuxer(c, "auto")
       ELSE UNCHANGED <<client, table>>
    /\ http' = [http EXCEPT !.notice = "none", !.lost = IF table = {} THEN "no" ELSE "dying"]
    /\ InLoop

(* Mutant: the muxer is closed, and stays in the map until it has ended.   *)
DoPathNotReady_KeepsMuxer ==
    /\ Loop /\ http.listed /\ http.notice = "notReady"
    /\ LET auto == {c \in table : client[c].role = "auto"}
       IN  /\ client' = [c \in Clients |-> IF c \in auto THEN [client[c] EXCEPT !.ctxDone = TRUE] ELSE client[c]]
           /\ table' = table
    /\ http' = [http EXCEPT !.notice = "none"]
    /\ InLoop

DoPathNotReady ==
    /\ Loop /\ http.listed /\ http.notice = "notReady"
    /\ LET auto == {c \in table : client[c].role = "auto"}
       IN  /\ client' = [c \in Clients |-> IF c \in auto THEN [client[c] EXCEPT !.ctxDone = TRUE] ELSE client[c]]
           /\ table' = table \ auto
    /\ http' = [http EXCEPT !.notice = "none"]
    /\ InLoop
NoticeSkipped ==
    /\ ctxDone /\ http.notice # "none"
    /\ http' = [http EXCEPT !.notice = "none"]
    /\ UNCHANGED <<serverVars, client, pathVars>>

(* onRequest, getMuxer.                                                    *)
Requested(answer, muxer) ==
    http' = [http EXCEPT !.get = answer, !.muxer = muxer]
GetMuxer ==
    /\ Loop /\ http.listed /\ http.get = "none"
    /\ \/ table # {} /\ Requested("muxer", table) /\ UNCHANGED <<client, table>>
       \/ table = {} /\ http.remux /\ Requested("none", {}) /\ UNCHANGED <<client, table>>
       \/ table = {} /\ ~http.remux
          /\ \E c \in Clients : CreateMuxer(c, "requested") /\ Requested("muxer", {c})
    /\ InLoop

CloseMuxer(c) == ServeClosed(c) /\ http.listed /\ UNCHANGED http
RunEnds == http.listed /\ LoopEnds(FALSE) /\ UNCHANGED http
Close == ServerClose /\ UNCHANGED http
CloseReturns == ServerCloseReturns /\ UNCHANGED http

-----------------------------------------------------------------------------
(* The muxer.                                                              *)

Run(c) == Muxer(
    /\ At(c, {"created"})
    /\ Goes(c, "asking") /\ Asks(c, "askRead")
    /\ UNCHANGED http)

(* The end of the muxer, for a reason of its own or because it was closed. *)
Ends(c, why) ==
    /\ client' = [client EXCEPT ![c].at = "closing", ![c].ctxDone = TRUE]
    /\ Asks(c, "out")
    /\ http' = IF client[c].role = "auto" /\ why # "terminated" THEN [http EXCEPT !.lost = why] ELSE http

(* An instance is made, or cannot be: a muxer that was requested gives up, *)
(* and so does any when there is no codec it can convert.                  *)
PathAnswered(c) == Muxer(
    /\ At(c, {"asking"})
    /\ \/ member[c] \in {"reader", "out"} /\ Goes(c, "running") /\ UNCHANGED <<member, http>>
       \/ member[c] \in {"reader", "out"} /\ client[c].role = "auto" /\ Goes(c, "paused") /\ UNCHANGED <<member, http>>
       \/ member[c] \in {"refused", "reader", "out"} /\ Ends(c, "gaveUp"))

(* The instance fails: one that was made automatically is made again.      *)
InstanceError(c) == Muxer(
    /\ At(c, {"running"})
    /\ IF client[c].role = "requested" THEN Ends(c, "gaveUp")
       ELSE Goes(c, "paused") /\ UNCHANGED <<member, http>>)
Recreate(c) == Muxer(
    /\ At(c, {"paused"})
    /\ Goes(c, "running")
    /\ UNCHANGED <<member, http>>)
NotUsedAnymore(c) == Muxer(
    /\ At(c, {"running"}) /\ client[c].role = "requested"
    /\ Ends(c, "gaveUp"))
Terminated(c) == Muxer(
    /\ At(c, {"running", "paused"}) /\ Cancelled(c)
    /\ Ends(c, "terminated"))

(* getInstance: the muxer answers, with nil when there is no instance, or  *)
(* it has ended.                                                           *)
GetInstance(c) == Muxer(
    /\ c \in http.muxer /\ (At(c, {"running", "paused"}) \/ Cancelled(c))
    /\ http' = [http EXCEPT !.get = "none", !.muxer = {}]
    /\ UNCHANGED <<client, member>>)

-----------------------------------------------------------------------------
MuxerSteps(c) ==
    \/ Run(c) \/ PathAnswered(c) \/ InstanceError(c) \/ Recreate(c) \/ NotUsedAnymore(c)
    \/ Terminated(c) \/ GetInstance(c) \/ CloseMuxer(c)
PathSide ==
    \/ PathReady \/ PathNotReady \/ PathRemoved
    \/ \E c \in Clients : ReaderAnswered(c) \/ ReaderPutOut(c)
LoopSteps ==
    ListReady \/ DoPathReady \/ DoPathNotReady \/ NoticeSkipped \/ GetMuxer \/ RunEnds \/ Close \/ CloseReturns
HLSNext == LoopSteps \/ PathSide \/ \E c \in Clients : MuxerSteps(c)

ServerGoesOn == ListReady \/ RunEnds \/ CloseReturns
NoticeTaken == DoPathReady \/ DoPathNotReady \/ NoticeSkipped
ClientGoesOn(c) == Run(c) \/ PathAnswered(c) \/ Terminated(c) \/ CloseMuxer(c)

-----------------------------------------------------------------------------
HLSTypeOK ==
    /\ ServerTypeOK({"created", "asking", "running", "paused"})
    /\ http \in [remux : BOOLEAN, listed : BOOLEAN, ready : BOOLEAN, notice : {"none", "ready", "notReady"},
                 get : {"none", "muxer"}, muxer : SUBSET Clients, lost : {"no", "dying", "gaveUp"}, removed : BOOLEAN]

(* There is one muxer per path.  With alwaysRemux a path that is ready has *)
(* a muxer, which tries again whatever befalls it, unless it gave up       *)
(* before it ever ran; or unless an earlier path of this name was removed  *)
(* while it was ready, and its muxer had not yet left the map.             *)
AlwaysRemuxed ==
    /\ Cardinality(table) <= 1
    /\ http.remux /\ http.ready /\ http.listed /\ http.notice = "none" /\ ~ctxDone /\ table = {}
           => http.lost # "no"
    /\ http.remux /\ http.lost = "dying" => http.removed \/ ctxDone
=============================================================================
