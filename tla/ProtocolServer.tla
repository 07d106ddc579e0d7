----------------------------- MODULE ProtocolServer -----------------------------
(***************************************************************************)
(* What the servers of RTMP, SRT, RTSP, WebRTC and HLS have in common: the *)
(* state they keep, the loop that owns the table of the clients, and what  *)
(* the path manager and the path do to their clients.                      *)
(*                                                                         *)
(* One path is enough: a client asks for one path only.  How the path      *)
(* decides is the subject of Path and PathManager; here it answers in any  *)
(* way it may, and puts out whom it likes.                                 *)
(***************************************************************************)
EXTENDS Naturals, FiniteSets

CONSTANTS
    Clients,    \* connections, sessions or muxers, each used once
    Sections    \* versions of the section of the path in the configuration

SectionsAssumption == Clients # {} /\ Sections # {} /\ "none" \notin Sections

VARIABLES
    ctxDone,    \* the context of the server is done
    loop,       \* Server.run: running, ended
    closing,    \* Server.Close, called by the core: no, waiting, returned
    table,      \* s.conns, s.sessions, s.muxers
    client,     \* the clients
    member,     \* what each client is to the path, or what it has asked to be
    section,    \* the section of the path, in the manager
    http        \* the HTTP requests of WebRTC and HLS

serverVars == <<ctxDone, loop, closing, table>>
pathVars == <<member, section>>
vars == <<serverVars, client, pathVars, http>>

None == "none"    \* of the section: not looked up

NewClient == [at |-> "none", role |-> "none", ctxDone |-> FALSE, checked |-> None]
Opened(at) == [NewClient EXCEPT !.at = at, !.ctxDone = ctxDone]
At(c, places) == client[c].at \in places
Goes(c, place) == client' = [client EXCEPT ![c].at = place]
Leaving == [NewClient EXCEPT !.at = "closing", !.ctxDone = TRUE]
Leaves(c) == client' = [client EXCEPT ![c] = Leaving]    \* the end of run
Cancelled(c) == client[c].ctxDone
Ended == {"none", "gone", "panicked"}

ServerInit ==
    /\ ctxDone = FALSE /\ loop = "running" /\ closing = "no" /\ table = {}
    /\ client = [c \in Clients |-> NewClient]
    /\ member = [c \in Clients |-> "out"]
    /\ section \in Sections

-----------------------------------------------------------------------------
(* The loop of the server.                                                 *)

(* The end of the context of the server ends the contexts of the clients.  *)
Cancel ==
    /\ ctxDone' = TRUE
    /\ client' = [c \in Clients |-> [client[c] EXCEPT !.ctxDone = @ \/ client[c].at # "none"]]

(* A new client: its goroutine starts with a context below the server's,   *)
(* which may be done if the loop has not noticed.                          *)
ServeOpen(c, at) ==
    /\ loop = "running" /\ At(c, {"none"})
    /\ client' = [client EXCEPT ![c] = Opened(at)]
    /\ table' = table \cup {c}
    /\ UNCHANGED <<ctxDone, loop, closing, pathVars>>

(* Mutant: a client that ends waits for the loop, which may have ended.    *)
ServeClosed_WaitsForLoop(c) ==
    /\ At(c, {"closing"})
    /\ loop = "running" /\ table' = table \ {c}
    /\ Goes(c, "gone")
    /\ UNCHANGED <<ctxDone, loop, closing, pathVars>>

(* closeConn, closeSession: the last thing a client does.                  *)
ServeClosed(c) ==
    /\ At(c, {"closing"})
    /\ \/ loop = "running" /\ table' = table \ {c}
       \/ ctxDone /\ UNCHANGED table
    /\ Goes(c, "gone")
    /\ UNCHANGED <<ctxDone, loop, closing, pathVars>>

(* Mutant: the connection is taken out of the table and not closed.        *)
ServeKick_NoClose(c) ==
    /\ loop = "running" /\ c \in table
    /\ table' = table \ {c}
    /\ UNCHANGED <<ctxDone, loop, closing, client, pathVars>>

(* APIConnsKick.                                                           *)
ServeKick(c) ==
    /\ loop = "running" /\ c \in table
    /\ table' = table \ {c}
    /\ client' = [client EXCEPT ![c].ctxDone = TRUE]
    /\ UNCHANGED <<ctxDone, loop, closing, pathVars>>

(* ctx.Done, or an error of the listener: the loop ends.                   *)
LoopEnds(error) ==
    /\ loop = "running" /\ (ctxDone \/ error)
    /\ loop' = "ended" /\ Cancel
    /\ UNCHANGED <<closing, table, pathVars>>

ServerClose ==
    /\ closing = "no"
    /\ closing' = "waiting" /\ Cancel
    /\ UNCHANGED <<loop, table, pathVars>>

(* The wait group: the loop and the goroutine of every client.             *)
ServerCloseReturns ==
    /\ closing = "waiting" /\ loop = "ended" /\ \A c \in Clients : At(c, Ended)
    /\ closing' = "returned"
    /\ UNCHANGED <<ctxDone, loop, table, client, pathVars>>

-----------------------------------------------------------------------------
(* What a client asks of the path manager and of the path.                 *)

Asks(c, request) == member' = [member EXCEPT ![c] = request]

(* pathManager.doAddPublisher: the section must be the one the server      *)
(* checked (ConfToCompare), unless the request is to be checked here.      *)
ManagerFinds(c) ==
    /\ member[c] = "askPublish"
    /\ IF client[c].checked \in {None, section}
       THEN Asks(c, "routed")
       ELSE Asks(c, "refused")
    /\ UNCHANGED <<client, section>>

(* The path answers, in the end: path.doAddReader, doAddPublisher.  It may *)
(* put out the publisher it has, or refuse the new one.                    *)
PathAnswers(c) ==
    \/ /\ member[c] = "askRead"
       /\ \E answer \in {"reader", "refused"} : Asks(c, answer)
       /\ UNCHANGED <<client, section>>
    \/ /\ member[c] \in {"askPublish", "routed"} /\ Asks(c, "refused")
       /\ UNCHANGED <<client, section>>
    \/ /\ member[c] = "routed"
       /\ \E old \in {{p \in Clients : member[p] = "publisher"}} :
              /\ member' = [p \in Clients |-> IF p = c THEN "publisher" ELSE IF p \in old THEN "out" ELSE member[p]]
              /\ client' = [p \in Clients |-> IF p \in old THEN [client[p] EXCEPT !.ctxDone = TRUE] ELSE client[p]]
       /\ UNCHANGED section

(* The path puts out a reader or its publisher (not ready, terminated).    *)
PathCloses(c) ==
    /\ member[c] \in {"reader", "publisher"}
    /\ Asks(c, "out")
    /\ client' = [client EXCEPT ![c].ctxDone = TRUE]
    /\ UNCHANGED section

SectionReloaded ==
    /\ section' \in Sections \ {section}
    /\ UNCHANGED <<client, member>>

Path(A) == A /\ UNCHANGED <<serverVars, http>>
PathGoesOn(c) == Path(ManagerFinds(c) \/ PathAnswers(c))
PathSteps ==
    \/ \E c \in Clients : PathGoesOn(c) \/ Path(PathCloses(c))
    \/ Path(SectionReloaded)

-----------------------------------------------------------------------------
MemberStates == {"out", "askRead", "askPublish", "routed", "refused", "reader", "publisher"}

ServerTypeOK(places) ==
    /\ ctxDone \in BOOLEAN /\ loop \in {"running", "ended"} /\ closing \in {"no", "waiting", "returned"}
    /\ table \subseteq Clients
    /\ client \in [Clients -> [at : places \cup Ended \cup {"closing"}, role : {"none", "read", "publish", "auto", "requested"},
                               ctxDone : BOOLEAN, checked : Sections \cup {None}]]
    /\ member \in [Clients -> MemberStates]
    /\ section \in Sections

(* A client that has ended, or has only its farewell left, has given back  *)
(* its place in the path and waits for nothing there, however it ended:    *)
(* kicked, put out by the path, refused, cut off, with the server.  And    *)
(* once Close has returned nobody is left.                                 *)
LeavesPath(c) == At(c, Ended \cup {"closing"}) => member[c] = "out"

(* What the API lists is what is there: a client in the table has not      *)
(* ended, and one that is not is on its way out.                           *)
TableIsTrue(c) ==
    /\ c \in table => (client[c].at # "gone" \/ ctxDone)
    /\ c \notin table /\ ~At(c, Ended) => Cancelled(c)

(* A publisher whose credentials the server has had checked beforehand is  *)
(* let in only under the section they were checked against.                *)
AdmittedAsChecked(c) == member[c] = "askPublish" /\ member'[c] = "routed" => client[c].checked = section
=============================================================================
