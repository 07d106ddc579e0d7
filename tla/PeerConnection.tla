----------------------------- MODULE PeerConnection -----------------------------
(***************************************************************************)
(* A WebRTC peer connection (protocols/webrtc) and whoever uses it: the    *)
(* session of a publisher or of a reader, or a static source (the client   *)
(* of protocols/whip).  Its library calls back from goroutines of its own, *)
(* one for each change of its state, in any order; one for each track; one *)
(* for all local candidates.                                               *)
(***************************************************************************)
EXTENDS Naturals, FiniteSets

CONSTANTS
    Tracks,          \* that the other side may send
    MaxCandidates,   \* bound: local candidates
    MaxReconnects    \* bound: from disconnected to connected

PeerAssumption == MaxCandidates \in Nat /\ MaxReconnects \in Nat

VARIABLES
    role,        \* publisher and reader: sessions; client: a static source that reads
    told,        \* the context of the session, or of the source, is done
    owner,       \* who closes the connection: waiting, closing, done
    user,        \* who takes it from one step to the next
    ctxDone,     \* PeerConnection.ctx is done
    run,         \* PeerConnection.run: running, closing, closed, done
    signal,      \* how often each channel that tells of the connection was closed
    library,     \* webrtc.PeerConnection: its state, and the reconnections it may still do
    changes,     \* the changes of its state that have yet to be told
    candidates,  \* OnICECandidate: no, gathering, blocked, done; and how many are to come
    track        \* of each track: none, offered (OnTrack waits), gathered, reading, closed, dropped

peerVars == <<role, told, owner, user, ctxDone, run, signal, library, changes, candidates, track>>

Signals == {"connected", "failed", "closed", "gatheringDone"}
Is(s) == signal[s] > 0
Receives == role # "reader"
IsServer == role # "client"
Gathered == {t \in Tracks : track[t] \in {"gathered", "reading", "closed"}}

(* Start has registered the callbacks and started run.                     *)
PeerInit ==
    /\ role \in {"publisher", "reader", "client"}
    /\ told = FALSE /\ owner = "waiting" /\ user = "describing"
    /\ ctxDone = FALSE /\ run = "running"
    /\ signal = [s \in Signals |-> 0]
    /\ library = [state |-> "new", reconnects |-> MaxReconnects]
    /\ changes = [s \in {"connected", "failed", "closed"} |-> 0]
    /\ candidates = [at |-> "no", left |-> MaxCandidates]
    /\ track = [t \in Tracks |-> "none"]

-----------------------------------------------------------------------------
(* The library: what the network does to the connection.                   *)
Becomes(state, change) ==
    /\ library' = [library EXCEPT !.state = state]
    /\ changes' = IF change \in DOMAIN changes THEN [changes EXCEPT ![change] = @ + 1] ELSE changes
    /\ UNCHANGED <<role, told, owner, user, ctxDone, run, signal, candidates, track>>

Connects == library.state = "negotiated" /\ Becomes("connected", "connected")
Disconnects == library.state = "connected" /\ Becomes("disconnected", "disconnected")
Reconnects ==
    /\ library.state = "disconnected" /\ library.reconnects > 0
    /\ library' = [state |-> "connected", reconnects |-> library.reconnects - 1]
    /\ changes' = [changes EXCEPT !["connected"] = @ + 1]
    /\ UNCHANGED <<role, told, owner, user, ctxDone, run, signal, candidates, track>>
ConnectionFails ==
    library.state \in {"negotiated", "connected", "disconnected"} /\ Becomes("failed", "failed")
(* Like a CloseNotify of the other side.                                   *)
OtherSideCloses == library.state \in {"connected", "disconnected"} /\ Becomes("closed", "closed")

(* Mutant: "failed" is not expected after "closed".                        *)
OnConnectionStateChange_NoGuard(state) ==
    /\ changes[state] > 0
    /\ changes' = [changes EXCEPT ![state] = @ - 1]
    /\ signal' = CASE state = "connected" /\ ~Is("connected") -> [signal EXCEPT !["connected"] = 1]
                   [] state = "connected" /\ Is("connected") -> signal
                   [] state = "failed" -> [signal EXCEPT !["failed"] = @ + 1]
                   [] state = "closed" -> [signal EXCEPT !["failed"] = IF @ > 0 THEN @ ELSE 1, !["closed"] = @ + 1]
    /\ UNCHANGED <<role, told, owner, user, ctxDone, run, library, candidates, track>>

(* OnConnectionStateChange, one at a time.  "closed" tells of a failure    *)
(* too, and is the last one that counts.                                   *)
OnConnectionStateChange(state) ==
    /\ changes[state] > 0
    /\ changes' = [changes EXCEPT ![state] = @ - 1]
    /\ signal' = CASE Is("closed") \/ (state = "connected" /\ Is("connected")) -> signal
                   [] ~Is("closed") /\ state = "connected" /\ ~Is("connected") -> [signal EXCEPT !["connected"] = 1]
                   [] ~Is("closed") /\ state = "failed" -> [signal EXCEPT !["failed"] = @ + 1]
                   [] ~Is("closed") /\ state = "closed" ->
                          [signal EXCEPT !["failed"] = IF @ > 0 THEN @ ELSE 1, !["closed"] = @ + 1]
    /\ UNCHANGED <<role, told, owner, user, ctxDone, run, library, candidates, track>>

(* OnICECandidate waits for whoever sends the candidate to the other side. *)
CandidateFound ==
    /\ candidates.at = "gathering" /\ candidates.left > 0 /\ library.state # "closed"
    /\ candidates' = [at |-> "blocked", left |-> candidates.left - 1]
    /\ UNCHANGED <<role, told, owner, user, ctxDone, run, signal, library, changes, track>>
CandidateSkipped ==
    /\ candidates.at = "blocked" /\ (Is("connected") \/ ctxDone)
    /\ candidates' = [candidates EXCEPT !.at = "gathering"]
    /\ UNCHANGED <<role, told, owner, user, ctxDone, run, signal, library, changes, track>>
GatheringDone ==
    /\ candidates.at = "gathering" /\ candidates.left = 0 /\ library.state # "closed"
    /\ candidates' = [candidates EXCEPT !.at = "done"]
    /\ signal' = [signal EXCEPT !["gatheringDone"] = @ + 1]
    /\ UNCHANGED <<role, told, owner, user, ctxDone, run, library, changes, track>>

(* OnTrack waits for GatherIncomingTracks.                                 *)
OnTrack(t) ==
    /\ Receives /\ library.state = "connected" /\ track[t] = "none"
    /\ track' = [track EXCEPT ![t] = "offered"]
    /\ UNCHANGED <<role, told, owner, user, ctxDone, run, signal, library, changes, candidates>>

(* Mutant: it waits for nothing else.                                      *)
TrackSkipped_Never(t) == FALSE /\ t \in Tracks /\ UNCHANGED peerVars

TrackSkipped(t) ==
    /\ track[t] = "offered" /\ ctxDone
    /\ track' = [track EXCEPT ![t] = "dropped"]
    /\ UNCHANGED <<role, told, owner, user, ctxDone, run, signal, library, changes, candidates>>

-----------------------------------------------------------------------------
(* The user: a session, or the goroutines of a source.                     *)
Goes(at) == user' = at /\ UNCHANGED <<role, told, owner, ctxDone, run, signal, changes>>
Stays == UNCHANGED <<library, candidates, track>>

(* The local description is set, which starts the search for candidates.   *)
Describes ==
    /\ user = "describing" /\ Goes("answering")
    /\ candidates' = [candidates EXCEPT !.at = "gathering"]
    /\ UNCHANGED <<library, track>>

(* An error of any call on the way, of the other side or of the path.      *)
Errs ==
    /\ user \in {"describing", "answering", "adding"} /\ Goes("left") /\ Stays

(* waitGatheringDone, of a session; a client has other candidates to send  *)
(* when the connection is being established.                               *)
CandidateTaken ==
    /\ candidates.at = "blocked" /\ user = (IF IsServer THEN "answering" ELSE "connecting")
    /\ \/ Goes(user)
       \/ ~IsServer /\ Goes("left")
    /\ candidates' = [candidates EXCEPT !.at = "gathering"]
    /\ UNCHANGED <<library, track>>
Negotiated ==
    /\ user = "answering" /\ (IsServer => Is("gatheringDone"))
    /\ Goes("connecting")
    /\ library' = [library EXCEPT !.state = IF @ = "new" THEN "negotiated" ELSE @]
    /\ UNCHANGED <<candidates, track>>

(* WaitUntilConnected, and the loop of a client, which has no eye on the   *)
(* context of the connection.                                              *)
WaitUntilConnected ==
    /\ user = "connecting"
    /\ \/ Is("connected") /\ Goes(IF Receives THEN "gathering" ELSE "reading")
       \/ Goes("left")    \* the deadline
    /\ Stays

GatherIncomingTracks ==
    /\ user = "gathering"
    /\ \/ \E t \in Tracks :
              /\ track[t] = "offered" /\ track' = [track EXCEPT ![t] = "gathered"]
              /\ Goes(IF Gathered \cup {t} = Tracks THEN "adding" ELSE "gathering")
       \/ (* the deadline *) Goes(IF Gathered # {} THEN "adding" ELSE "left") /\ UNCHANGED track
       \/ Is("failed") /\ Goes("left") /\ UNCHANGED track
    /\ UNCHANGED <<library, candidates>>

(* The path has taken the publisher, or the source is ready.  A source     *)
(* that was told to end meanwhile does not get that far.                   *)
Added == user = "adding" /\ (IsServer \/ owner = "waiting") /\ Goes("starting") /\ Stays

(* StartReading, when run does not take it any more.                       *)
StartReadingSkipped == user = "starting" /\ ctxDone /\ Goes("reading") /\ Stays

CtxDone ==
    /\ ctxDone /\ user \in (IF IsServer THEN {"answering", "connecting", "gathering"} ELSE {"gathering"})
    /\ Goes("left") /\ Stays

(* The select of a session; of a source, the goroutine of Client.Wait.     *)
Leaves ==
    /\ user = "reading" /\ (Is("failed") \/ (IsServer /\ told) \/ role = "reader")
    /\ Goes("left") /\ Stays

-----------------------------------------------------------------------------
(* The owner: the terminator of a session, or the first goroutine of a     *)
(* source, which looks neither at its context while it reports ready nor   *)
(* at the other one before that has failed.                                *)
Told ==
    /\ ~told /\ told' = TRUE
    /\ UNCHANGED <<role, owner, user, ctxDone, run, signal, library, changes, candidates, track>>
Close ==
    /\ owner = "waiting"
    /\ user = "left" \/ (told /\ (IsServer \/ user \notin {"adding", "starting"}))
    /\ owner' = "closing" /\ ctxDone' = TRUE
    /\ UNCHANGED <<role, told, user, run, signal, library, changes, candidates, track>>
CloseReturns ==
    /\ owner = "closing" /\ run = "done"
    /\ owner' = "done"
    /\ UNCHANGED <<role, told, user, ctxDone, run, signal, library, changes, candidates, track>>

-----------------------------------------------------------------------------
(* PeerConnection.run.                                                     *)
StartReading ==
    /\ run = "running" /\ user = "starting"
    /\ track' = [t \in Tracks |-> IF track[t] = "gathered" THEN "reading" ELSE track[t]]
    /\ Goes("reading")
    /\ UNCHANGED <<library, candidates>>

(* The tracks are closed, then the library, which calls "closed" unless it *)
(* has.                                                                    *)
RunTerminated ==
    /\ run = "running" /\ ctxDone
    /\ run' = "closing"
    /\ track' = [t \in Tracks |-> IF track[t] \in {"gathered", "reading"} THEN "closed" ELSE track[t]]
    /\ library' = [library EXCEPT !.state = "closed"]
    /\ changes' = IF library.state = "closed" THEN changes ELSE [changes EXCEPT !["closed"] = @ + 1]
    /\ UNCHANGED <<role, told, owner, user, ctxDone, signal, candidates>>

(* GracefulClose waits for the callbacks of candidates and tracks, not for *)
(* those of states.                                                        *)
GracefulCloseReturns ==
    /\ run = "closing" /\ candidates.at # "blocked" /\ \A t \in Tracks : track[t] # "offered"
    /\ run' = "closed"
    /\ UNCHANGED <<role, told, owner, user, ctxDone, signal, library, changes, candidates, track>>

(* Mutant: "closed" is not waited for.                                     *)
RunEnds_NoWait ==
    /\ run = "closed"
    /\ run' = "done"
    /\ UNCHANGED <<role, told, owner, user, ctxDone, signal, library, changes, candidates, track>>

RunEnds ==
    /\ run = "closed" /\ Is("closed")
    /\ run' = "done"
    /\ UNCHANGED <<role, told, owner, user, ctxDone, signal, library, changes, candidates, track>>

-----------------------------------------------------------------------------
LibraryCalls ==
    \/ \E s \in DOMAIN changes : OnConnectionStateChange(s)
    \/ CandidateFound \/ CandidateSkipped \/ GatheringDone
    \/ \E t \in Tracks : TrackSkipped(t)
NetworkSteps ==
    \/ Connects \/ Disconnects \/ Reconnects \/ ConnectionFails \/ OtherSideCloses
    \/ \E t \in Tracks : OnTrack(t)
UserGoesOn ==
    \/ Describes \/ Errs \/ CandidateTaken \/ Negotiated \/ WaitUntilConnected \/ GatherIncomingTracks
    \/ Added \/ StartReadingSkipped \/ CtxDone \/ Leaves
PeerGoesOn == Close \/ CloseReturns \/ StartReading \/ RunTerminated \/ GracefulCloseReturns \/ RunEnds
PeerNext == LibraryCalls \/ NetworkSteps \/ UserGoesOn \/ Told \/ PeerGoesOn

-----------------------------------------------------------------------------
PeerTypeOK ==
    /\ role \in {"publisher", "reader", "client"} /\ told \in BOOLEAN /\ ctxDone \in BOOLEAN
    /\ owner \in {"waiting", "closing", "done"}
    /\ user \in {"describing", "answering", "connecting", "gathering", "adding", "starting", "reading", "left"}
    /\ run \in {"running", "closing", "closed", "done"}
    /\ library \in [state : {"new", "negotiated", "connected", "disconnected", "failed", "closed"},
                    reconnects : 0 .. MaxReconnects]
    /\ changes \in [{"connected", "failed", "closed"} -> 0 .. 1 + MaxReconnects]
    /\ candidates \in [at : {"no", "gathering", "blocked", "done"}, left : 0 .. MaxCandidates]
    /\ track \in [Tracks -> {"none", "offered", "gathered", "reading", "closed", "dropped"}]
    /\ \A t \in Tracks : track[t] \in {"gathered", "reading"} => Receives

(* No channel is closed twice, whatever the order of the callbacks.  A     *)
(* connection that is closed has told whoever waits for its failure, reads *)
(* no track any more, and has no callback that waits.                      *)
ClosedForGood ==
    /\ \A s \in Signals : signal[s] <= 1
    /\ run = "done" =>
           /\ Is("failed") /\ candidates.at # "blocked"
           /\ \A t \in Tracks : track[t] \notin {"offered", "reading"}

(* Who is told to end does.                                                *)
Gone == owner = "done" /\ user = "left"
=============================================================================
