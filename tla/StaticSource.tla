----------------------------- MODULE StaticSource -----------------------------
(***************************************************************************)
(* A static source: the Handler (internal/staticsources/handler.go), its   *)
(* goroutine, the instance it runs, the path that starts and stops it and  *)
(* the path manager that removes the path.                                 *)
(*                                                                         *)
(* Every send on a channel that several goroutines select on is a step of  *)
(* its own; a goroutine that waits for something is in a state named for   *)
(* what it waits for.                                                      *)
(***************************************************************************)
EXTENDS Naturals, FiniteSets

CONSTANTS
    Settings,     \* values of what is reloaded in place
    Confs,        \* configurations the path may be created with or reloaded to
    MaxCouriers   \* bound: configurations on their way at the same time

(* "plain": RTSP, RTMP, SRT, MPEG-TS and RTP; "hls"; "whep".  "camera":    *)
(* rpicamera, primary stream.  "secondary": rpicamera, secondary stream,   *)
(* which reads another path.                                               *)
Network == {"plain", "hls", "whep"}
SourceConf == [sourceOnDemand: BOOLEAN, kind: Network \cup {"camera", "secondary"}, setting: Settings]

ASSUME ConfsAssumption == Confs \subseteq SourceConf /\ MaxCouriers \in Nat

VARIABLES
    path,          \* the goroutine of the path: serving, in Stop, in its last Stop, ended
    pathCtxDone,   \* pa.ctx is done
    pathConf,      \* pa.conf
    ready,         \* pa.stream is set
    manager,       \* the path manager: free, or waiting for this path to end
    running,       \* Handler.running
    ctxDone,       \* Handler.ctx is done
    handlerConf,   \* Handler.Conf
    loop,          \* the goroutine of Handler.run
    recreating,    \* the instance returned, the retry pause is running
    instance,      \* the goroutine of instance.Run
    runCtxDone,    \* the context of the instance is done
    instanceConf,  \* the configuration the instance has
    toHandler,     \* goroutines that bring a configuration to the handler...
    toInstance     \* ...and to the instance; "old" when their context is done

pathVars == <<path, pathCtxDone, pathConf, ready>>
loopVars == <<running, ctxDone, handlerConf, loop, recreating>>
instanceVars == <<instance, runCtxDone, instanceConf>>
vars == <<pathVars, manager, loopVars, instanceVars, toHandler, toInstance>>

(* Neither changes without the path being recreated. *)
OnDemand == pathConf.sourceOnDemand
Kind == pathConf.kind

(* pathConfCanBeUpdated *)
CanBeUpdated(old, new) == new = [old EXCEPT !.setting = new.setting]

Courier == [conf: Confs, ctx: {"current", "old"}]

(* The context the couriers were given is done. *)
Outdated(couriers) == {[c EXCEPT !.ctx = "old"] : c \in couriers}

Sent(couriers, c) == couriers \cup {[conf |-> c, ctx |-> "current"]}

Init ==
    /\ path = "serving" /\ pathCtxDone = FALSE
    /\ pathConf \in Confs /\ handlerConf = pathConf /\ instanceConf = pathConf
    /\ ready = FALSE /\ manager = "free"
    /\ running = ~OnDemand /\ ctxDone = FALSE
    /\ loop = IF OnDemand THEN "none" ELSE "select"
    /\ recreating = FALSE
    /\ instance = IF OnDemand THEN "none" ELSE "connecting"
    /\ runCtxDone = FALSE
    /\ toHandler = {} /\ toInstance = {}

-----------------------------------------------------------------------------
(* Handler.Start and Handler.Stop, called by the path.  A new goroutine    *)
(* has a new channel to its instances, which no older courier sends on.    *)

(* Faulty variant: the new instance is given no settings. *)
Recreate_NoSetting ==
    /\ instance' = "connecting" /\ runCtxDone' = FALSE
    /\ instanceConf' = [handlerConf EXCEPT !.setting = "none"]

(* recreate(): a new context and a new call of instance.Run. *)
Recreate == instance' = "connecting" /\ runCtxDone' = FALSE /\ instanceConf' = handlerConf

Start ==
    /\ path = "serving" /\ OnDemand /\ ~running
    /\ running' = TRUE /\ ctxDone' = FALSE
    /\ loop' = "select" /\ recreating' = FALSE
    /\ Recreate
    /\ toHandler' = Outdated(toHandler) /\ toInstance' = {}
    /\ UNCHANGED <<pathVars, manager, handlerConf>>

(* Stop cancels the context and waits for the goroutine to return. *)
Cancel == running' = FALSE /\ ctxDone' = TRUE /\ toHandler' = Outdated(toHandler)

(* Faulty variant: the stream is left in place. *)
OnDemandStop_KeepsReady ==
    /\ path = "serving" /\ OnDemand /\ running
    /\ path' = "stopping" /\ UNCHANGED ready
    /\ Cancel
    /\ UNCHANGED <<pathCtxDone, pathConf, manager, handlerConf, loop, recreating, instanceVars,
                   toInstance>>

(* The ready timer or the close timer of the path fires. *)
OnDemandStop ==
    /\ path = "serving" /\ OnDemand /\ running
    /\ path' = "stopping" /\ ready' = FALSE
    /\ Cancel
    /\ UNCHANGED <<pathCtxDone, pathConf, manager, handlerConf, loop, recreating, instanceVars,
                   toInstance>>

(* <-s.done *)
Returned == loop = "none"

StopReturns ==
    /\ path \in {"stopping", "closing"} /\ Returned
    /\ path' = IF path = "stopping" THEN "serving" ELSE "ended"
    /\ UNCHANGED <<pathCtxDone, pathConf, ready, manager, loopVars, instanceVars, toHandler,
                   toInstance>>

-----------------------------------------------------------------------------
(* The rest of the path, and its manager.                                  *)

ReachesHandler == running

(* path.doReloadConf and Handler.ReloadConf, which forgets the new         *)
(* configuration when the handler is not running.                          *)
DoReloadConf(c) ==
    /\ path = "serving" /\ c # pathConf /\ CanBeUpdated(pathConf, c)
    /\ Cardinality(toHandler) + Cardinality(toInstance) < MaxCouriers
    /\ pathConf' = c
    /\ toHandler' = IF ReachesHandler THEN Sent(toHandler, c) ELSE toHandler
    /\ UNCHANGED <<path, pathCtxDone, ready, manager, loopVars, instanceVars, toInstance>>

(* path.setReady succeeds here; Path covers its failure. *)
DoSourceStaticSetReady ==
    /\ path = "serving" /\ loop = "passReady"
    /\ ready' = TRUE
    /\ loop' = "select" /\ instance' = "streaming"
    /\ UNCHANGED <<path, pathCtxDone, pathConf, manager, running, ctxDone, handlerConf, recreating,
                   runCtxDone, instanceConf, toHandler, toInstance>>

(* The answer goes out before Stop, "in order to avoid a deadlock". *)
DoSourceStaticSetNotReady ==
    /\ path = "serving" /\ loop = "passNotReady"
    /\ ready' = FALSE
    /\ loop' = "select" /\ instance' = "returned"
    /\ IF OnDemand
         THEN path' = "stopping" /\ Cancel
         ELSE UNCHANGED <<path, running, ctxDone, toHandler>>
    /\ UNCHANGED <<pathCtxDone, pathConf, manager, handlerConf, recreating, runCtxDone,
                   instanceConf, toInstance>>

(* removeAndClosePath: the manager serves nobody until the path has ended. *)
RemoveAndClosePath ==
    /\ manager = "free" /\ ~pathCtxDone
    /\ manager' = "removing" /\ pathCtxDone' = TRUE
    /\ UNCHANGED <<path, pathConf, ready, loopVars, instanceVars, toHandler, toInstance>>

PathWaited ==
    /\ manager = "removing" /\ path = "ended"
    /\ manager' = "free"
    /\ UNCHANGED <<pathVars, loopVars, instanceVars, toHandler, toInstance>>

(* runInner returns; run() takes the stream down and closes the source.    *)
Terminate ==
    /\ path = "serving" /\ pathCtxDone
    /\ ready' = FALSE
    /\ IF running
         THEN path' = "closing" /\ Cancel
         ELSE path' = "ended" /\ UNCHANGED <<running, ctxDone, toHandler>>
    /\ UNCHANGED <<pathCtxDone, pathConf, manager, handlerConf, loop, recreating, instanceVars,
                   toInstance>>

-----------------------------------------------------------------------------
(* The goroutine of the handler.                                           *)

LoopTakesSetReady ==
    /\ loop = "select" /\ instance = "setReady"
    /\ loop' = "passReady" /\ instance' = "awaitReady"
    /\ UNCHANGED <<pathVars, manager, running, ctxDone, handlerConf, recreating, runCtxDone,
                   instanceConf, toHandler, toInstance>>

LoopTakesSetNotReady ==
    /\ loop = "select" /\ instance = "setNotReady"
    /\ loop' = "passNotReady" /\ instance' = "awaitNotReady"
    /\ UNCHANGED <<pathVars, manager, running, ctxDone, handlerConf, recreating, runCtxDone,
                   instanceConf, toHandler, toInstance>>

(* Faulty variant: the error is looked over. *)
Refused_Ignored == "streaming"

(* An error of SetReady ends a network source, and is not expected by the  *)
(* primary camera, which panics.                                           *)
Refused == IF Kind = "camera" THEN "panicked" ELSE "returned"

(* Faulty variant: only the context of the path is looked at. *)
Unserved_PathOnly == pathCtxDone

(* StaticSourceHandlerSetReady and ...SetNotReady give up. *)
Unserved == pathCtxDone \/ ctxDone

PassRefused ==
    /\ loop \in {"passReady", "passNotReady"} /\ Unserved
    /\ instance' = IF loop = "passReady" THEN Refused ELSE "returned"
    /\ loop' = "select"
    /\ UNCHANGED <<pathVars, manager, running, ctxDone, handlerConf, recreating, runCtxDone,
                   instanceConf, toHandler, toInstance>>

LoopReloads(c) ==
    /\ loop = "select" /\ c \in toHandler
    /\ handlerConf' = c.conf
    /\ toHandler' = toHandler \ {c}
    /\ toInstance' = IF recreating THEN toInstance ELSE Sent(toInstance, c.conf)
    /\ UNCHANGED <<pathVars, manager, running, ctxDone, loop, recreating, instanceVars>>

LoopInstanceReturned ==
    /\ loop = "select" /\ instance = "returned"
    /\ runCtxDone' = TRUE /\ instance' = "none" /\ recreating' = TRUE
    /\ toInstance' = Outdated(toInstance)
    /\ UNCHANGED <<pathVars, manager, running, ctxDone, handlerConf, loop, instanceConf, toHandler>>

(* Faulty variant: no instance is created after the pause. *)
LoopRecreates_Never ==
    /\ loop = "select" /\ recreating
    /\ UNCHANGED vars

(* The retry pause is over. *)
LoopRecreates ==
    /\ loop = "select" /\ recreating
    /\ Recreate
    /\ recreating' = FALSE
    /\ UNCHANGED <<pathVars, manager, running, ctxDone, handlerConf, loop, toHandler, toInstance>>

(* Faulty variant: the goroutine does not wait for the instance. *)
LoopTerminated_NoDrain ==
    /\ loop = "select" /\ ctxDone
    /\ runCtxDone' = (runCtxDone \/ ~recreating)
    /\ loop' = "none"
    /\ toInstance' = Outdated(toInstance)
    /\ UNCHANGED <<pathVars, manager, running, ctxDone, handlerConf, recreating, instance,
                   instanceConf, toHandler>>

(* Faulty variant: the context of the instance is left alone. *)
LoopTerminated_NoCancel ==
    /\ loop = "select" /\ ctxDone
    /\ loop' = (IF recreating THEN "none" ELSE "draining")
    /\ UNCHANGED <<pathVars, manager, running, ctxDone, handlerConf, recreating, instanceVars,
                   toHandler, toInstance>>

LoopTerminated ==
    /\ loop = "select" /\ ctxDone
    /\ IF recreating
         THEN loop' = "none" /\ UNCHANGED <<runCtxDone, toInstance>>
         ELSE loop' = "draining" /\ runCtxDone' = TRUE /\ toInstance' = Outdated(toInstance)
    /\ UNCHANGED <<pathVars, manager, running, ctxDone, handlerConf, recreating, instance,
                   instanceConf, toHandler>>

(* <-runErr *)
LoopDrained ==
    /\ loop = "draining" /\ instance = "returned"
    /\ loop' = "none" /\ instance' = "none"
    /\ UNCHANGED <<pathVars, manager, running, ctxDone, handlerConf, recreating, runCtxDone,
                   instanceConf, toHandler, toInstance>>

-----------------------------------------------------------------------------
(* The goroutine of the instance.  Most network sources run a second one,  *)
(* that connects, reports ready and reads; the first waits for it when the *)
(* context is done, and takes reloads meanwhile.                           *)

InstanceConnects ==
    /\ instance = "connecting"
    /\ instance' = IF Kind = "secondary" THEN "addReader" ELSE "setReady"
    /\ UNCHANGED <<pathVars, manager, loopVars, runCtxDone, instanceConf, toHandler, toInstance>>

(* waitForPrimary: the manager answers when it is free; without a stream   *)
(* the instance asks again after a second.                                 *)
PrimaryAnswers ==
    /\ instance = "addReader" /\ manager = "free"
    /\ instance' \in {"setReady", "connecting", "returned"}
    /\ UNCHANGED <<pathVars, manager, loopVars, runCtxDone, instanceConf, toHandler, toInstance>>

(* Faulty variant: they do. *)
InstanceUnserved_Never == FALSE /\ UNCHANGED vars

(* Handler.SetReady and SetNotReady do not wait for a stopped handler. *)
InstanceUnserved ==
    /\ instance \in {"setReady", "setNotReady"} /\ ctxDone
    /\ instance' = IF instance = "setReady" THEN Refused ELSE "returned"
    /\ UNCHANGED <<pathVars, manager, loopVars, runCtxDone, instanceConf, toHandler, toInstance>>

(* Faulty variant: the stream is not reported as ended. *)
AfterStreaming_Silent == "returned"

(* The deferred SetNotReady; the secondary camera source has none. *)
AfterStreaming == IF Kind = "secondary" THEN "returned" ELSE "setNotReady"

(* An error, the end of the stream, or the context. *)
InstanceEnds ==
    /\ instance \in {"connecting", "streaming"}
    /\ instance' = IF instance = "streaming" THEN AfterStreaming ELSE "returned"
    /\ UNCHANGED <<pathVars, manager, loopVars, runCtxDone, instanceConf, toHandler, toInstance>>

(* When a configuration is taken: as long as the second goroutine runs,    *)
(* which for HLS does not report not ready, and which for WHEP only waits  *)
(* for the connection to fail.  The secondary camera source takes none.    *)
PlainTakesReload == {"connecting", "setReady", "awaitReady", "streaming", "setNotReady", "awaitNotReady"}
HLSTakesReload == {"connecting", "setReady", "awaitReady", "streaming"}
WHEPTakesReload == {"streaming"}
CameraTakesReload == {"connecting", "setReady", "awaitReady", "streaming"}
TakesReload ==
    CASE Kind = "plain" -> PlainTakesReload
      [] Kind = "hls" -> HLSTakesReload
      [] Kind = "whep" -> WHEPTakesReload
      [] Kind = "camera" -> CameraTakesReload
      [] Kind = "secondary" -> {}

InstanceReloads(c) ==
    /\ instance \in TakesReload /\ c \in toInstance
    /\ instanceConf' = c.conf
    /\ toInstance' = toInstance \ {c}
    /\ UNCHANGED <<pathVars, manager, loopVars, instance, runCtxDone, toHandler>>

(* A courier sees that its context is done. *)
CourierLeaves(c) ==
    /\ c.ctx = "old"
    /\ \/ c \in toHandler /\ toHandler' = toHandler \ {c} /\ UNCHANGED toInstance
       \/ c \in toInstance /\ toInstance' = toInstance \ {c} /\ UNCHANGED toHandler
    /\ UNCHANGED <<pathVars, manager, loopVars, instanceVars>>

-----------------------------------------------------------------------------
PathStep ==
    \/ Start \/ OnDemandStop \/ StopReturns
    \/ \E c \in Confs : DoReloadConf(c)
    \/ DoSourceStaticSetReady \/ DoSourceStaticSetNotReady
    \/ Terminate

ManagerStep == RemoveAndClosePath \/ PathWaited

LoopStep ==
    \/ LoopTakesSetReady \/ LoopTakesSetNotReady \/ PassRefused
    \/ \E c \in Courier : LoopReloads(c)
    \/ LoopInstanceReturned \/ LoopRecreates \/ LoopTerminated \/ LoopDrained

InstanceStep ==
    \/ InstanceConnects \/ PrimaryAnswers \/ InstanceUnserved \/ InstanceEnds
    \/ \E c \in Courier : InstanceReloads(c) \/ CourierLeaves(c)

(* Everything has come to its end, or the process is dead. *)
Ended ==
    /\ \/ path = "ended" /\ manager = "free"
       \/ instance = "panicked"
    /\ UNCHANGED vars

Next ==
    \/ instance # "panicked" /\ (PathStep \/ ManagerStep \/ LoopStep \/ InstanceStep)
    \/ Ended

Spec == Init /\ [][Next]_vars

(* Goroutines that can run do.  Go's select chooses at random among the    *)
(* cases that are ready, so that a context which stays done is seen by a   *)
(* goroutine that selects again and again.  Nothing obliges a source to    *)
(* connect or to fail, but one whose context is done returns.              *)
Fairness ==
    /\ WF_vars(StopReturns) /\ WF_vars(PathWaited)
    /\ SF_vars(DoSourceStaticSetReady) /\ SF_vars(DoSourceStaticSetNotReady)
    /\ SF_vars(Terminate)
    /\ WF_vars(LoopTakesSetReady) /\ WF_vars(LoopTakesSetNotReady) /\ SF_vars(PassRefused)
    /\ SF_vars(LoopInstanceReturned) /\ WF_vars(LoopRecreates)
    /\ SF_vars(LoopTerminated) /\ WF_vars(LoopDrained)
    /\ SF_vars(PrimaryAnswers) /\ WF_vars(InstanceUnserved)
    /\ SF_vars(runCtxDone /\ InstanceEnds)
    /\ \A c \in Courier : WF_vars(CourierLeaves(c))

FairSpec == Spec /\ Fairness

-----------------------------------------------------------------------------
(* Type correctness of every variable.                                     *)
TypeOK ==
    /\ path \in {"serving", "stopping", "closing", "ended"}
    /\ pathCtxDone \in BOOLEAN /\ pathConf \in Confs /\ ready \in BOOLEAN
    /\ manager \in {"free", "removing"}
    /\ running \in BOOLEAN /\ ctxDone \in BOOLEAN /\ handlerConf \in Confs
    /\ loop \in {"none", "select", "passReady", "passNotReady", "draining"}
    /\ recreating \in BOOLEAN
    /\ instance \in {"none", "connecting", "addReader", "setReady", "awaitReady", "streaming",
                     "setNotReady", "awaitNotReady", "returned", "panicked"}
    /\ runCtxDone \in BOOLEAN /\ instanceConf \in Confs
    /\ toHandler \subseteq Courier /\ toInstance \subseteq Courier

(* The stream of a path that is not being closed is fed: there is an       *)
(* instance that streams, or that is about to report the end.              *)
(* (The secondary camera source does not keep this, see AfterStreaming.)  *)
ReadyIsFed ==
    ready /\ ~pathCtxDone => instance \in {"streaming", "setNotReady", "awaitNotReady"}

(* When Stop has returned, nothing of the source is left: no goroutine of  *)
(* the handler and no instance that could be in the way of the next one    *)
(* ("avoid conflicts between sources"); an instance is replaced only after *)
(* it has returned; and an instance streams into the stream of the path,   *)
(* unless it was stopped and has not noticed yet.                          *)
OneInstanceAtATime ==
    /\ (~running /\ path \in {"serving", "ended"}) => (loop = "none" /\ instance = "none")
    /\ (recreating /\ loop = "select") => instance = "none"
    /\ (instance = "streaming" /\ ~ctxDone) => ready

Contract == INSTANCE SourceContract WITH
    source <- IF ~running THEN "stopped" ELSE IF ready THEN "ready" ELSE "starting"

(* The path meets a source that keeps the contract.                        *)
KeepsContract == Contract!ContractSpec

(* Nobody waits for ever: Stop returns, the manager is not blocked by a    *)
(* path it removes, and whatever an instance asks is answered.             *)
NobodyWaitsForEver ==
    LET asks == instance \in {"setReady", "awaitReady", "setNotReady", "awaitNotReady"}
    IN /\ (path \in {"stopping", "closing"}) ~> (path \in {"serving", "ended"})
       /\ (manager = "removing") ~> (manager = "free")
       /\ asks ~> ~asks

(* A source that failed is tried again, unless it is stopped.              *)
FailedSourceRetries == (running /\ recreating) ~> (~recreating \/ ~running)

=============================================================================
