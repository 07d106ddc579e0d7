-------------------------- MODULE StaticSourceProofs --------------------------
(***************************************************************************)
(* Theorems about StaticSource, for every set of configurations and every  *)
(* number of couriers: nothing of a source is left when Stop has returned, *)
(* the path meets a source that keeps SourceContract, and the stream of a  *)
(* path is fed.                                                            *)
(***************************************************************************)
EXTENDS StaticSource, TLAPS

(* The goroutine of the handler exists while the handler runs, and until   *)
(* Stop has returned.                                                      *)
HandlerInv ==
    /\ running => path = "serving" /\ ~ctxDone /\ loop # "none"
    /\ ~running /\ loop # "none" => path \in {"stopping", "closing"} /\ ctxDone
    /\ path \in {"stopping", "closing"} => ~running /\ ctxDone
    /\ loop = "draining" => ctxDone

(* There is an instance exactly when the goroutine of the handler has one  *)
(* to wait for, and it waits for the answer that is being fetched.         *)
InstanceInv ==
    /\ loop = "none" => instance = "none"
    /\ loop = "select" => (recreating <=> instance = "none")
    /\ loop \in {"passReady", "passNotReady", "draining"} => ~recreating /\ instance # "none"
    /\ loop = "passReady" <=> instance = "awaitReady"
    /\ loop = "passNotReady" <=> instance = "awaitNotReady"

(* Only a handler that runs has a stream, and an instance that streams has *)
(* the one of the path.                                                    *)
ReadyInv ==
    /\ ready => running
    /\ instance = "streaming" /\ ~ctxDone => ready

IInv == TypeOK /\ HandlerInv /\ InstanceInv /\ ReadyInv

-----------------------------------------------------------------------------
LEMMA TypeStep == ASSUME TypeOK, [Next]_vars PROVE TypeOK'
<1> USE DEF TypeOK, pathVars, loopVars, instanceVars, Cancel, Recreate
<1>1. Outdated(toHandler) \subseteq Courier /\ Outdated(toInstance) \subseteq Courier
  BY DEF Outdated, Courier
<1>2. \A c \in Confs : Sent(toHandler, c) \subseteq Courier /\ Sent(toInstance, c) \subseteq Courier
  BY DEF Sent, Courier
<1>3. \A c \in Courier : c.conf \in Confs
  BY DEF Courier
<1>4. CASE PathStep
  <2>1. CASE Start
    BY <1>1, <2>1 DEF Start
  <2>2. CASE OnDemandStop
    BY <1>1, <2>2 DEF OnDemandStop
  <2>3. CASE StopReturns
    BY <2>3 DEF StopReturns
  <2>4. ASSUME NEW c \in Confs, DoReloadConf(c) PROVE TypeOK'
    BY <1>2, <2>4 DEF DoReloadConf
  <2>5. CASE DoSourceStaticSetReady \/ DoSourceStaticSetNotReady \/ Terminate
    BY ZenonT(40), <1>1, <2>5 DEF DoSourceStaticSetReady, DoSourceStaticSetNotReady, Terminate
  <2> QED BY <1>4, <2>1, <2>2, <2>3, <2>4, <2>5 DEF PathStep
<1>5. CASE ManagerStep
  BY ZenonT(40), <1>5 DEF ManagerStep, RemoveAndClosePath, PathWaited
<1>6. CASE LoopStep
  <2>1. CASE LoopTakesSetReady \/ LoopTakesSetNotReady \/ PassRefused
    BY <2>1 DEF LoopTakesSetReady, LoopTakesSetNotReady, PassRefused, Refused
  <2>2. ASSUME NEW c \in Courier, LoopReloads(c) PROVE TypeOK'
    BY <1>2, <1>3, <2>2 DEF LoopReloads
  <2>3. CASE LoopInstanceReturned \/ LoopRecreates \/ LoopTerminated \/ LoopDrained
    BY <1>1, <2>3 DEF LoopInstanceReturned, LoopRecreates, LoopTerminated, LoopDrained
  <2> QED BY <1>6, <2>1, <2>2, <2>3 DEF LoopStep
<1>7. CASE InstanceStep
  <2>1. CASE InstanceConnects \/ PrimaryAnswers \/ InstanceUnserved \/ InstanceEnds
    BY <2>1 DEF InstanceConnects, PrimaryAnswers, InstanceUnserved, InstanceEnds, Refused,
       AfterStreaming
  <2>2. ASSUME NEW c \in Courier, InstanceReloads(c) \/ CourierLeaves(c) PROVE TypeOK'
    BY <1>3, <2>2 DEF InstanceReloads, CourierLeaves
  <2> QED BY <1>7, <2>1, <2>2 DEF InstanceStep
<1>8. CASE Ended \/ UNCHANGED vars
  BY <1>8 DEF Ended, vars
<1> QED BY <1>4, <1>5, <1>6, <1>7, <1>8 DEF Next

LEMMA SourceStep ==
    ASSUME IInv, [Next]_vars
    PROVE  HandlerInv' /\ InstanceInv' /\ ReadyInv'
<1> USE DEF IInv, HandlerInv, InstanceInv, ReadyInv, TypeOK, pathVars, loopVars, instanceVars,
            Cancel, Recreate
<1>1. CASE PathStep
  <2>1. CASE Start
    BY <2>1 DEF Start
  <2>2. CASE OnDemandStop
    BY <2>2 DEF OnDemandStop
  <2>3. CASE StopReturns
    BY <2>3 DEF StopReturns, Returned
  <2>4. ASSUME NEW c \in Confs, DoReloadConf(c)
        PROVE  HandlerInv' /\ InstanceInv' /\ ReadyInv'
    BY <2>4 DEF DoReloadConf
  <2>5. CASE DoSourceStaticSetReady
    BY <2>5 DEF DoSourceStaticSetReady
  <2>6. CASE DoSourceStaticSetNotReady
    BY <2>6 DEF DoSourceStaticSetNotReady
  <2>7. CASE Terminate
    BY <2>7 DEF Terminate
  <2> QED BY <1>1, <2>1, <2>2, <2>3, <2>4, <2>5, <2>6, <2>7 DEF PathStep
<1>2. CASE ManagerStep
  BY <1>2 DEF ManagerStep, RemoveAndClosePath, PathWaited
<1>3. CASE LoopStep
  <2>1. CASE LoopTakesSetReady \/ LoopTakesSetNotReady
    BY <2>1 DEF LoopTakesSetReady, LoopTakesSetNotReady
  <2>2. CASE PassRefused
    BY <2>2 DEF PassRefused, Refused
  <2>3. ASSUME NEW c \in Courier, LoopReloads(c)
        PROVE  HandlerInv' /\ InstanceInv' /\ ReadyInv'
    BY <2>3 DEF LoopReloads
  <2>4. CASE LoopInstanceReturned
    BY <2>4 DEF LoopInstanceReturned
  <2>5. CASE LoopRecreates
    BY <2>5 DEF LoopRecreates
  <2>6. CASE LoopTerminated
    BY <2>6 DEF LoopTerminated
  <2>7. CASE LoopDrained
    BY <2>7 DEF LoopDrained
  <2> QED BY <1>3, <2>1, <2>2, <2>3, <2>4, <2>5, <2>6, <2>7 DEF LoopStep
<1>4. CASE InstanceStep
  <2>1. CASE InstanceConnects \/ PrimaryAnswers
    BY <2>1 DEF InstanceConnects, PrimaryAnswers
  <2>2. CASE InstanceUnserved
    BY <2>2 DEF InstanceUnserved, Refused
  <2>3. CASE InstanceEnds
    BY <2>3 DEF InstanceEnds, AfterStreaming
  <2>4. ASSUME NEW c \in Courier, InstanceReloads(c) \/ CourierLeaves(c)
        PROVE  HandlerInv' /\ InstanceInv' /\ ReadyInv'
    BY <2>4 DEF InstanceReloads, CourierLeaves
  <2> QED BY <1>4, <2>1, <2>2, <2>3, <2>4 DEF InstanceStep
<1>5. CASE Ended \/ UNCHANGED vars
  BY <1>5 DEF Ended, vars
<1> QED BY <1>1, <1>2, <1>3, <1>4, <1>5 DEF Next

LEMMA InvCorrect == Spec => []IInv
<1>1. Init => IInv
  BY DEF Init, IInv, TypeOK, HandlerInv, InstanceInv, ReadyInv, OnDemand
<1>2. IInv /\ [Next]_vars => IInv'
  BY TypeStep, SourceStep DEF IInv
<1> QED BY <1>1, <1>2, PTL DEF Spec

(* Every variable of a static source keeps its type.                       *)
THEOREM TypeCorrect == Spec => []TypeOK
<1>1. IInv => TypeOK
  BY DEF IInv
<1> QED BY InvCorrect, <1>1, PTL

(* "avoid conflicts between sources": when Handler.Stop has returned, no   *)
(* goroutine and no instance of the source is left, an instance is         *)
(* replaced only after it has returned, and one that was not stopped       *)
(* streams into the stream of the path.                                    *)
THEOREM OneInstanceCorrect == Spec => []OneInstanceAtATime
<1>1. IInv => OneInstanceAtATime
  BY DEF IInv, TypeOK, HandlerInv, InstanceInv, ReadyInv, OneInstanceAtATime
<1> QED BY InvCorrect, <1>1, PTL

-----------------------------------------------------------------------------
(* The stream is fed.  The secondary camera source ends without a word.    *)

LEMMA FedStep ==
    ASSUME \A c \in Confs : c.kind # "secondary", IInv, ReadyIsFed, [Next]_vars
    PROVE  ReadyIsFed'
<1> USE DEF IInv, HandlerInv, InstanceInv, ReadyInv, ReadyIsFed, pathVars, loopVars, instanceVars,
            Cancel, Recreate
<1>1. Kind # "secondary"
  BY DEF Kind, TypeOK
<1>2. CASE PathStep
  BY <1>2 DEF PathStep, Start, OnDemandStop, StopReturns, DoReloadConf, DoSourceStaticSetReady,
     DoSourceStaticSetNotReady, Terminate
<1>3. CASE ManagerStep
  BY <1>3 DEF ManagerStep, RemoveAndClosePath, PathWaited
<1>4. CASE LoopStep
  BY <1>4 DEF LoopStep, LoopTakesSetReady, LoopTakesSetNotReady, PassRefused, Unserved,
     LoopReloads, LoopInstanceReturned, LoopRecreates, LoopTerminated, LoopDrained
<1>5. CASE InstanceStep
  BY <1>1, <1>5 DEF InstanceStep, InstanceConnects, PrimaryAnswers, InstanceUnserved,
     InstanceEnds, AfterStreaming, InstanceReloads, CourierLeaves
<1>6. CASE Ended \/ UNCHANGED vars
  BY <1>6 DEF Ended, vars
<1> QED BY <1>2, <1>3, <1>4, <1>5, <1>6 DEF Next

(* The stream of a path that is not being closed has an instance that      *)
(* feeds it or is about to report its end, whatever kind of source it is   *)
(* except a secondary camera.                                              *)
THEOREM ReadyIsFedCorrect ==
    ASSUME \A c \in Confs : c.kind # "secondary" PROVE Spec => []ReadyIsFed
<1>1. Init => ReadyIsFed
  BY DEF Init, ReadyIsFed
<1>2. ReadyIsFed /\ IInv /\ [Next]_vars => ReadyIsFed'
  BY FedStep
<1> QED BY InvCorrect, <1>1, <1>2, PTL DEF Spec

-----------------------------------------------------------------------------
(* Refinement: each step is one of the contract, or none.                  *)

Source == IF ~running THEN "stopped" ELSE IF ready THEN "ready" ELSE "starting"

LEMMA ContractStep ==
    ASSUME IInv, IInv', [Next]_vars
    PROVE  \/ Contract!Start \/ Contract!BecomeReady \/ Contract!BecomeNotReady \/ Contract!Stop
           \/ Source' = Source
<1> USE DEF IInv, HandlerInv, InstanceInv, ReadyInv, Source, Contract!Start,
            Contract!BecomeReady, Contract!BecomeNotReady, Contract!Stop, pathVars, loopVars, Cancel
<1>1. CASE PathStep
  <2>1. CASE Start \/ OnDemandStop \/ StopReturns
    BY <2>1 DEF Start, OnDemandStop, StopReturns
  <2>2. ASSUME NEW c \in Confs, DoReloadConf(c) PROVE Source' = Source
    BY <2>2 DEF DoReloadConf
  <2>3. CASE DoSourceStaticSetReady
    BY <2>3 DEF DoSourceStaticSetReady
  <2>4. CASE DoSourceStaticSetNotReady
    BY <2>4 DEF DoSourceStaticSetNotReady
  <2>5. CASE Terminate
    BY <2>5 DEF Terminate
  <2> QED BY <1>1, <2>1, <2>2, <2>3, <2>4, <2>5 DEF PathStep
<1>2. CASE ManagerStep \/ LoopStep \/ InstanceStep \/ Ended \/ UNCHANGED vars
  <2>1. running' = running /\ ready' = ready
    BY <1>2 DEF ManagerStep, RemoveAndClosePath, PathWaited, LoopStep, LoopTakesSetReady,
       LoopTakesSetNotReady, PassRefused, LoopReloads, LoopInstanceReturned, LoopRecreates,
       LoopTerminated, LoopDrained, InstanceStep, InstanceConnects, PrimaryAnswers,
       InstanceUnserved, InstanceEnds, InstanceReloads, CourierLeaves, Ended, vars
  <2> QED BY <2>1
<1> QED BY <1>1, <1>2 DEF Next

(* A static source keeps the contract that the proofs of Path rely on: it  *)
(* runs between Start and Stop, and becomes ready only once in between.    *)
THEOREM ContractCorrect == Spec => KeepsContract
<1>1. Init => Contract!ContractInit
  BY DEF Init, Contract!ContractInit
<1>2. IInv /\ IInv' /\ [Next]_vars =>
          [Contract!Start \/ Contract!BecomeReady \/ Contract!BecomeNotReady \/ Contract!Stop]_Source
  BY ContractStep
<1> QED BY InvCorrect, <1>1, <1>2, PTL DEF Spec, KeepsContract, Contract!ContractSpec, Source

=============================================================================
