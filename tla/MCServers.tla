------------------------------- MODULE MCServers ------------------------------
(* The servers on small instances, one protocol per behaviour.             *)
EXTENDS Naturals, FiniteSets

CONSTANTS Clients, Sections
VARIABLES proto, ctxDone, loop, closing, table, client, member, section, http

(* The sections matter only where credentials are checked beforehand.      *)
OneSection == {CHOOSE s \in Sections : TRUE}

RTMP == INSTANCE RTMPServer WITH Sections <- OneSection
SRT == INSTANCE SRTServer
RTSP == INSTANCE RTSPServer
WebRTC == INSTANCE WebRTCServer
HLS == INSTANCE HLSServer WITH Sections <- OneSection

ASSUME ServersAssumption == RTMP!SectionsAssumption /\ SRT!SectionsAssumption

vars == <<proto, ctxDone, loop, closing, table, client, member, section, http>>

Init ==
    \/ proto = "rtmp" /\ RTMP!RTMPInit
    \/ proto = "srt" /\ SRT!SRTInit
    \/ proto = "rtsp" /\ RTSP!RTSPInit
    \/ proto = "webrtc" /\ WebRTC!WebRTCInit
    \/ proto = "hls" /\ HLS!HLSInit

Next ==
    /\ UNCHANGED proto
    /\ \/ proto = "rtmp" /\ RTMP!RTMPNext
       \/ proto = "srt" /\ SRT!SRTNext
       \/ proto = "rtsp" /\ RTSP!RTSPNext
       \/ proto = "webrtc" /\ WebRTC!WebRTCNext
       \/ proto = "hls" /\ HLS!HLSNext

(***************************************************************************)
(* Every goroutine goes on: the loop, the one of a client, the one of a    *)
(* request; and the path answers in the end whom it has not refused.       *)
(***************************************************************************)
ServerGoesOn ==
    /\ UNCHANGED proto
    /\ \/ proto = "rtmp" /\ RTMP!ServerGoesOn
       \/ proto = "srt" /\ SRT!ServerGoesOn
       \/ proto = "rtsp" /\ RTSP!ServerGoesOn
       \/ proto = "webrtc" /\ WebRTC!ServerGoesOn
       \/ proto = "hls" /\ HLS!ServerGoesOn
ClientGoesOn(c) ==
    /\ UNCHANGED proto
    /\ \/ proto = "rtmp" /\ RTMP!ClientGoesOn(c)
       \/ proto = "srt" /\ SRT!ClientGoesOn(c)
       \/ proto = "rtsp" /\ RTSP!ClientGoesOn(c)
       \/ proto = "webrtc" /\ WebRTC!ClientGoesOn(c)
       \/ proto = "hls" /\ HLS!ClientGoesOn(c)
RequestGoesOn(c) ==
    /\ UNCHANGED proto
    /\ \/ proto = "webrtc" /\ WebRTC!RequestSteps(c)
       \/ proto = "hls" /\ HLS!GetInstance(c)
PathGoesOn(c) ==
    /\ UNCHANGED proto
    /\ IF proto = "hls" THEN HLS!ReaderAnswered(c) ELSE RTMP!PathGoesOn(c)
NoticeTaken == proto = "hls" /\ HLS!NoticeTaken /\ UNCHANGED proto

Spec == Init /\ [][Next]_vars
FairSpec ==
    /\ Spec
    /\ WF_vars(ServerGoesOn) /\ WF_vars(NoticeTaken)
    /\ \A c \in Clients :
           WF_vars(ClientGoesOn(c)) /\ WF_vars(RequestGoesOn(c)) /\ SF_vars(PathGoesOn(c))

-----------------------------------------------------------------------------
TypeOK ==
    /\ proto = "rtmp" => RTMP!RTMPTypeOK
    /\ proto = "srt" => SRT!SRTTypeOK
    /\ proto = "rtsp" => RTSP!RTSPTypeOK
    /\ proto = "webrtc" => WebRTC!WebRTCTypeOK
    /\ proto = "hls" => HLS!HLSTypeOK

(* Whoever has ended is neither a reader nor the publisher of the path,    *)
(* and the tables list who is there, or is on the way out.                 *)
LeavesPath ==
    \A c \in Clients :
        /\ IF proto = "rtsp" THEN RTSP!SessionLeavesPath(c) ELSE RTMP!LeavesPath(c)
        /\ RTMP!TableIsTrue(c)

CheckedBefore == proto \in {"srt", "rtsp", "webrtc"}

(* A reload between the check of the credentials and the request to        *)
(* publish never lets a publisher in under a section it was not checked    *)
(* against (RTMP has the manager check it).                                *)
AdmittedAsChecked == [][\A c \in Clients : CheckedBefore => SRT!AdmittedAsChecked(c)]_vars

(* What one protocol promises alone: RTSP that the hook of a reader runs   *)
(* while it plays, WebRTC that a POST is answered once, HLS that a path    *)
(* has a muxer.                                                            *)
SessionsAreSound ==
    /\ \A c \in Clients : proto = "rtsp" => RTSP!HookRunsInPlay(c)
    /\ \A c \in Clients : proto = "webrtc" => WebRTC!PostAnsweredOnce(c)
    /\ proto = "hls" => HLS!AlwaysRemuxed

(* Whoever was told to go goes, whatever it was waiting for, and so Close  *)
(* returns; a request of HTTP gets its answer, except a PATCH that comes   *)
(* after an answer nobody took.                                            *)
EverythingEnds ==
    /\ []<>(closing # "waiting")
    /\ \A c \in Clients :
           /\ []<>(RTMP!Cancelled(c) => RTMP!At(c, RTMP!Ended))
           /\ []<>(proto = "webrtc" => WebRTC!RequestAnswered(c))
    /\ []<>(proto = "hls" => http.get = "none")
=============================================================================
