------------------------------ MODULE PathProofs ------------------------------
(***************************************************************************)
(* Theorems about Path.  The first part holds for every set of clients,    *)
(* streams, settings and configurations, whether or not a stream may fail  *)
(* to be initialized: types, requests on hold, timers, the limit of        *)
(* readers. The second is about streams that can always be initialized     *)
(* (when one cannot, setReady leaves pa.stream set, and most of it does    *)
(* not hold): IInv is the inductive invariant it follows from.  The third  *)
(* is about the steps: a path that falls out of use closes at once, and a  *)
(* path implements StreamBroker.                                           *)
(***************************************************************************)
EXTENDS Path, TLAPS, FiniteSetTheorems

LEMMA FreshTypes ==
    ASSUME NEW s \in FreshStreams
    PROVE  s \in Streams /\ s # stream /\ s # NoStream
BY NamesAssumption DEF FreshStreams

LEMMA HeldTypes ==
    ASSUME TypeOK
    PROVE  /\ HeldReaders \subseteq Readers
           /\ HeldDescribers \subseteq Describers
           /\ \A base : AdmittedHeld(base) \subseteq HeldReaders
BY DEF TypeOK, HoldTypeOK, HeldReaders, HeldDescribers, RangeOf, AdmittedHeld

LEMMA RecorderTypes ==
    ASSUME NEW s \in Streams, NEW c \in Confs
    PROVE  RecorderOf(s, c) \in [stream: Streams, setting: Settings] \cup {NoRecorder}
BY ConfsAssumption DEF RecorderOf, PathConf

(* A reload that updates a path in place keeps what the path depends on.   *)
LEMMA ConfFields ==
    ASSUME NEW c \in Confs, NEW d \in Confs, CanBeUpdated(c, d)
    PROVE  /\ d.source = c.source /\ d.sourceOnDemand = c.sourceOnDemand
           /\ d.runOnDemand = c.runOnDemand /\ d.maxReaders = c.maxReaders
           /\ d.overridePublisher = c.overridePublisher
BY ConfsAssumption DEF CanBeUpdated, PathConf

(* Putting a request on hold adds one client to those that are held.       *)
LEMMA AppendHeld ==
    ASSUME NEW S, NEW q \in Seq(S), NEW x \in S, x \notin RangeOf(q), NoRepeats(q)
    PROVE  /\ RangeOf(Append(q, x)) = RangeOf(q) \cup {x}
           /\ Append(q, x) # <<>>
           /\ NoRepeats(Append(q, x))
<1> DEFINE n == Len(q)
           t == Append(q, x)
<1>1. /\ n \in Nat /\ DOMAIN q = 1..n /\ DOMAIN t = 1..(n + 1)
      /\ t[n + 1] = x /\ \A i \in 1..n : t[i] = q[i]
  OBVIOUS
<1>2. RangeOf(t) = RangeOf(q) \cup {x}
  BY <1>1 DEF RangeOf
<1>3. NoRepeats(t)
  BY <1>1 DEF RangeOf, NoRepeats
<1> QED BY <1>1, <1>2, <1>3

LEMMA EmptyHeld == RangeOf(<<>>) = {} /\ NoRepeats(<<>>)
BY DEF RangeOf, NoRepeats

-----------------------------------------------------------------------------
(* Type correctness: one lemma per part of the state.                      *)

LEMMA TypeInit == Init => TypeOK
<1> SUFFICES ASSUME Init PROVE TypeOK
  OBVIOUS
<1>1. CoreTypeOK
  BY ConfsAssumption DEF Init, CoreTypeOK, PathConf, SourceKind, HasStaticSource
<1>2. StreamTypeOK
  BY DEF Init, StreamTypeOK
<1>3. DemandTypeOK
  BY DEF Init, DemandTypeOK, OnDemandState
<1>4. HoldTypeOK
  BY DEF Init, HoldTypeOK
<1>5. ReaderTypeOK
  BY DEF Init, ReaderTypeOK
<1> QED BY <1>1, <1>2, <1>3, <1>4, <1>5 DEF TypeOK

LEMMA CoreTypeStep ==
    ASSUME TypeOK, [Next]_vars
    PROVE  CoreTypeOK'
<1> USE DEF TypeOK, CoreTypeOK, publisherVars, streamVars, demandVars, pubDemandVars, holdVars,
            readerVars, Continue
<1>1. CASE DoOnDemandStaticSourceReadyTimer
  BY <1>1 DEF DoOnDemandStaticSourceReadyTimer
<1>2. CASE DoOnDemandStaticSourceCloseTimer
  BY <1>2 DEF DoOnDemandStaticSourceCloseTimer
<1>3. CASE DoOnDemandPublisherReadyTimer
  BY <1>3 DEF DoOnDemandPublisherReadyTimer
<1>4. CASE DoOnDemandPublisherCloseTimer
  BY <1>4 DEF DoOnDemandPublisherCloseTimer
<1>5. ASSUME NEW c \in Confs, DoReloadConf(c)
      PROVE  CoreTypeOK'
  BY <1>5 DEF DoReloadConf
<1>6. ASSUME NEW s \in FreshStreams, DoSourceStaticSetReady(s)
      PROVE  CoreTypeOK'
  BY <1>6, FreshTypes DEF DoSourceStaticSetReady
<1>7. ASSUME NEW s \in FreshStreams, DoSourceStaticSetReadyFails(s)
      PROVE  CoreTypeOK'
  BY <1>7, FreshTypes DEF DoSourceStaticSetReadyFails
<1>8. CASE DoSourceStaticSetNotReady
  BY <1>8 DEF DoSourceStaticSetNotReady
<1>9. ASSUME NEW d \in Describers, DoDescribeHeld(d)
      PROVE  CoreTypeOK'
  BY <1>9 DEF DoDescribeHeld
<1>10. ASSUME NEW r \in Readers, DoAddReaderAccepted(r)
      PROVE  CoreTypeOK'
  BY <1>10 DEF DoAddReaderAccepted
<1>11. ASSUME NEW r \in Readers, DoAddReaderHeld(r)
      PROVE  CoreTypeOK'
  BY <1>11 DEF DoAddReaderHeld
<1>12. ASSUME NEW r \in Readers, DoRemoveReader(r)
      PROVE  CoreTypeOK'
  BY <1>12 DEF DoRemoveReader
<1>13. ASSUME NEW r \in Readers, RemoveReaderSkipped(r)
      PROVE  CoreTypeOK'
  BY <1>13 DEF RemoveReaderSkipped
<1>14. ASSUME NEW p \in Publishers, NEW s \in FreshStreams, DoAddPublisher(p, s)
      PROVE  CoreTypeOK'
  BY <1>14, FreshTypes DEF DoAddPublisher
<1>15. ASSUME NEW p \in Publishers, NEW s \in FreshStreams, DoAddPublisherFails(p, s)
      PROVE  CoreTypeOK'
  BY <1>15, FreshTypes DEF DoAddPublisherFails
<1>16. ASSUME NEW p \in Publishers, DoRemovePublisher(p)
      PROVE  CoreTypeOK'
  BY <1>16 DEF DoRemovePublisher
<1>17. ASSUME NEW p \in Publishers, RemovePublisherSkipped(p)
      PROVE  CoreTypeOK'
  BY <1>17 DEF RemovePublisherSkipped
<1>18. CASE Terminate
  BY <1>18 DEF Terminate
<1>19. CASE
           \/ \E d \in Describers : DoDescribeAnswered(d)
           \/ \E r \in Readers : DoAddReaderRefused(r)
           \/ Close \/ RunInnerTerminated \/ ClosePath \/ Ended \/ UNCHANGED vars
  BY <1>19 DEF DoDescribeAnswered, DoAddReaderRefused, Close, RunInnerTerminated, ClosePath,
     Ended, vars
<1> QED BY <1>1, <1>2, <1>3, <1>4, <1>5, <1>6, <1>7, <1>8, <1>9, <1>10, <1>11, <1>12, <1>13,
           <1>14, <1>15, <1>16, <1>17, <1>18, <1>19 DEF Next, ReaderStep, PublisherStep,
           SourceStep, TimerStep, ShutdownStep

LEMMA StreamTypeStep ==
    ASSUME TypeOK, [Next]_vars
    PROVE  StreamTypeOK'
<1> USE DEF TypeOK, CoreTypeOK, StreamTypeOK, publisherVars, streamVars, demandVars,
            pubDemandVars, holdVars, readerVars, Continue
<1>1. CASE DoOnDemandStaticSourceReadyTimer
  BY <1>1 DEF DoOnDemandStaticSourceReadyTimer
<1>2. CASE DoOnDemandStaticSourceCloseTimer
  BY <1>2 DEF DoOnDemandStaticSourceCloseTimer, SetNotReady
<1>3. CASE DoOnDemandPublisherReadyTimer
  BY <1>3 DEF DoOnDemandPublisherReadyTimer
<1>4. CASE DoOnDemandPublisherCloseTimer
  BY <1>4 DEF DoOnDemandPublisherCloseTimer
<1>5. ASSUME NEW c \in Confs, DoReloadConf(c)
      PROVE  StreamTypeOK'
  BY <1>5, RecorderTypes DEF DoReloadConf, RecorderAfterReload
<1>6. ASSUME NEW s \in FreshStreams, DoSourceStaticSetReady(s)
      PROVE  StreamTypeOK'
  BY <1>6, RecorderTypes, FreshTypes DEF DoSourceStaticSetReady, SetReady
<1>7. ASSUME NEW s \in FreshStreams, DoSourceStaticSetReadyFails(s)
      PROVE  StreamTypeOK'
  BY <1>7, FreshTypes DEF DoSourceStaticSetReadyFails
<1>8. CASE DoSourceStaticSetNotReady
  BY <1>8 DEF DoSourceStaticSetNotReady, SetNotReady
<1>9. ASSUME NEW d \in Describers, DoDescribeHeld(d)
      PROVE  StreamTypeOK'
  BY <1>9 DEF DoDescribeHeld
<1>10. ASSUME NEW r \in Readers, DoAddReaderAccepted(r)
      PROVE  StreamTypeOK'
  BY <1>10 DEF DoAddReaderAccepted
<1>11. ASSUME NEW r \in Readers, DoAddReaderHeld(r)
      PROVE  StreamTypeOK'
  BY <1>11 DEF DoAddReaderHeld
<1>12. ASSUME NEW r \in Readers, DoRemoveReader(r)
      PROVE  StreamTypeOK'
  BY <1>12 DEF DoRemoveReader
<1>13. ASSUME NEW r \in Readers, RemoveReaderSkipped(r)
      PROVE  StreamTypeOK'
  BY <1>13 DEF RemoveReaderSkipped
<1>14. ASSUME NEW p \in Publishers, NEW s \in FreshStreams, DoAddPublisher(p, s)
      PROVE  StreamTypeOK'
  BY <1>14, RecorderTypes, FreshTypes DEF DoAddPublisher, SetReady, OpenAfterOverride
<1>15. ASSUME NEW p \in Publishers, NEW s \in FreshStreams, DoAddPublisherFails(p, s)
      PROVE  StreamTypeOK'
  BY <1>15, FreshTypes DEF DoAddPublisherFails, OpenAfterOverride
<1>16. ASSUME NEW p \in Publishers, DoRemovePublisher(p)
      PROVE  StreamTypeOK'
  BY <1>16 DEF DoRemovePublisher, SetNotReady
<1>17. ASSUME NEW p \in Publishers, RemovePublisherSkipped(p)
      PROVE  StreamTypeOK'
  BY <1>17 DEF RemovePublisherSkipped
<1>18. CASE Terminate
  BY <1>18 DEF Terminate, SetNotReady
<1>19. CASE
           \/ \E d \in Describers : DoDescribeAnswered(d)
           \/ \E r \in Readers : DoAddReaderRefused(r)
           \/ Close \/ RunInnerTerminated \/ ClosePath \/ Ended \/ UNCHANGED vars
  BY <1>19 DEF DoDescribeAnswered, DoAddReaderRefused, Close, RunInnerTerminated, ClosePath,
     Ended, vars
<1> QED BY <1>1, <1>2, <1>3, <1>4, <1>5, <1>6, <1>7, <1>8, <1>9, <1>10, <1>11, <1>12, <1>13,
           <1>14, <1>15, <1>16, <1>17, <1>18, <1>19 DEF Next, ReaderStep, PublisherStep,
           SourceStep, TimerStep, ShutdownStep

LEMMA DemandTypeStep ==
    ASSUME TypeOK, [Next]_vars
    PROVE  DemandTypeOK'
<1> USE DEF TypeOK, DemandTypeOK, OnDemandState, publisherVars, streamVars, demandVars,
            pubDemandVars, holdVars, readerVars, Continue
<1>1. CASE DoOnDemandStaticSourceReadyTimer
  BY <1>1 DEF DoOnDemandStaticSourceReadyTimer, OnDemandStaticSourceStop
<1>2. CASE DoOnDemandStaticSourceCloseTimer
  BY <1>2 DEF DoOnDemandStaticSourceCloseTimer
<1>3. CASE DoOnDemandPublisherReadyTimer
  BY <1>3 DEF DoOnDemandPublisherReadyTimer, OnDemandPublisherStop
<1>4. CASE DoOnDemandPublisherCloseTimer
  BY <1>4 DEF DoOnDemandPublisherCloseTimer
<1>5. ASSUME NEW c \in Confs, DoReloadConf(c)
      PROVE  DemandTypeOK'
  BY <1>5 DEF DoReloadConf
<1>6. ASSUME NEW s \in FreshStreams, DoSourceStaticSetReady(s)
      PROVE  DemandTypeOK'
  BY <1>6, FreshTypes DEF DoSourceStaticSetReady
<1>7. ASSUME NEW s \in FreshStreams, DoSourceStaticSetReadyFails(s)
      PROVE  DemandTypeOK'
  BY <1>7, FreshTypes DEF DoSourceStaticSetReadyFails
<1>8. CASE DoSourceStaticSetNotReady
  BY <1>8 DEF DoSourceStaticSetNotReady, OnDemandStaticSourceStop
<1>9. ASSUME NEW d \in Describers, DoDescribeHeld(d)
      PROVE  DemandTypeOK'
  BY <1>9 DEF DoDescribeHeld, StartOnDemand, OnDemandStaticSourceStart, OnDemandPublisherStart
<1>10. ASSUME NEW r \in Readers, DoAddReaderAccepted(r)
      PROVE  DemandTypeOK'
  BY <1>10 DEF DoAddReaderAccepted
<1>11. ASSUME NEW r \in Readers, DoAddReaderHeld(r)
      PROVE  DemandTypeOK'
  BY <1>11 DEF DoAddReaderHeld, StartOnDemand, OnDemandStaticSourceStart, OnDemandPublisherStart
<1>12. ASSUME NEW r \in Readers, DoRemoveReader(r)
      PROVE  DemandTypeOK'
  BY <1>12 DEF DoRemoveReader
<1>13. ASSUME NEW r \in Readers, RemoveReaderSkipped(r)
      PROVE  DemandTypeOK'
  BY <1>13 DEF RemoveReaderSkipped
<1>14. ASSUME NEW p \in Publishers, NEW s \in FreshStreams, DoAddPublisher(p, s)
      PROVE  DemandTypeOK'
  BY <1>14, FreshTypes DEF DoAddPublisher
<1>15. ASSUME NEW p \in Publishers, NEW s \in FreshStreams, DoAddPublisherFails(p, s)
      PROVE  DemandTypeOK'
  BY <1>15, FreshTypes DEF DoAddPublisherFails
<1>16. ASSUME NEW p \in Publishers, DoRemovePublisher(p)
      PROVE  DemandTypeOK'
  BY <1>16 DEF DoRemovePublisher
<1>17. ASSUME NEW p \in Publishers, RemovePublisherSkipped(p)
      PROVE  DemandTypeOK'
  BY <1>17 DEF RemovePublisherSkipped
<1>18. CASE Terminate
  BY <1>18 DEF Terminate
<1>19. CASE
           \/ \E d \in Describers : DoDescribeAnswered(d)
           \/ \E r \in Readers : DoAddReaderRefused(r)
           \/ Close \/ RunInnerTerminated \/ ClosePath \/ Ended \/ UNCHANGED vars
  BY <1>19 DEF DoDescribeAnswered, DoAddReaderRefused, Close, RunInnerTerminated, ClosePath,
     Ended, vars
<1> QED BY <1>1, <1>2, <1>3, <1>4, <1>5, <1>6, <1>7, <1>8, <1>9, <1>10, <1>11, <1>12, <1>13,
           <1>14, <1>15, <1>16, <1>17, <1>18, <1>19 DEF Next, ReaderStep, PublisherStep,
           SourceStep, TimerStep, ShutdownStep

LEMMA HoldTypeStep ==
    ASSUME TypeOK, [Next]_vars
    PROVE  HoldTypeOK'
<1> USE DEF TypeOK, HoldTypeOK, publisherVars, streamVars, demandVars, pubDemandVars, holdVars,
            readerVars, Continue
<1>1. CASE DoOnDemandStaticSourceReadyTimer
  BY <1>1 DEF DoOnDemandStaticSourceReadyTimer, FailHeld
<1>2. CASE DoOnDemandStaticSourceCloseTimer
  BY <1>2 DEF DoOnDemandStaticSourceCloseTimer
<1>3. CASE DoOnDemandPublisherReadyTimer
  BY <1>3 DEF DoOnDemandPublisherReadyTimer, FailHeld
<1>4. CASE DoOnDemandPublisherCloseTimer
  BY <1>4 DEF DoOnDemandPublisherCloseTimer
<1>5. ASSUME NEW c \in Confs, DoReloadConf(c)
      PROVE  HoldTypeOK'
  BY <1>5 DEF DoReloadConf
<1>6. ASSUME NEW s \in FreshStreams, DoSourceStaticSetReady(s)
      PROVE  HoldTypeOK'
  BY <1>6, FreshTypes DEF DoSourceStaticSetReady, ConsumeOnHoldRequests
<1>7. ASSUME NEW s \in FreshStreams, DoSourceStaticSetReadyFails(s)
      PROVE  HoldTypeOK'
  BY <1>7, FreshTypes DEF DoSourceStaticSetReadyFails
<1>8. CASE DoSourceStaticSetNotReady
  BY <1>8 DEF DoSourceStaticSetNotReady
<1>9. ASSUME NEW d \in Describers, DoDescribeHeld(d)
      PROVE  HoldTypeOK'
  BY <1>9 DEF DoDescribeHeld
<1>10. ASSUME NEW r \in Readers, DoAddReaderAccepted(r)
      PROVE  HoldTypeOK'
  BY <1>10 DEF DoAddReaderAccepted
<1>11. ASSUME NEW r \in Readers, DoAddReaderHeld(r)
      PROVE  HoldTypeOK'
  BY <1>11 DEF DoAddReaderHeld
<1>12. ASSUME NEW r \in Readers, DoRemoveReader(r)
      PROVE  HoldTypeOK'
  BY <1>12 DEF DoRemoveReader
<1>13. ASSUME NEW r \in Readers, RemoveReaderSkipped(r)
      PROVE  HoldTypeOK'
  BY <1>13 DEF RemoveReaderSkipped
<1>14. ASSUME NEW p \in Publishers, NEW s \in FreshStreams, DoAddPublisher(p, s)
      PROVE  HoldTypeOK'
  BY <1>14, FreshTypes DEF DoAddPublisher, ConsumeOnHoldRequests
<1>15. ASSUME NEW p \in Publishers, NEW s \in FreshStreams, DoAddPublisherFails(p, s)
      PROVE  HoldTypeOK'
  BY <1>15, FreshTypes DEF DoAddPublisherFails
<1>16. ASSUME NEW p \in Publishers, DoRemovePublisher(p)
      PROVE  HoldTypeOK'
  BY <1>16 DEF DoRemovePublisher
<1>17. ASSUME NEW p \in Publishers, RemovePublisherSkipped(p)
      PROVE  HoldTypeOK'
  BY <1>17 DEF RemovePublisherSkipped
<1>18. CASE Terminate
  BY <1>18 DEF Terminate, FailHeld
<1>19. CASE
           \/ \E d \in Describers : DoDescribeAnswered(d)
           \/ \E r \in Readers : DoAddReaderRefused(r)
           \/ Close \/ RunInnerTerminated \/ ClosePath \/ Ended \/ UNCHANGED vars
  BY <1>19 DEF DoDescribeAnswered, DoAddReaderRefused, Close, RunInnerTerminated, ClosePath,
     Ended, vars
<1> QED BY <1>1, <1>2, <1>3, <1>4, <1>5, <1>6, <1>7, <1>8, <1>9, <1>10, <1>11, <1>12, <1>13,
           <1>14, <1>15, <1>16, <1>17, <1>18, <1>19 DEF Next, ReaderStep, PublisherStep,
           SourceStep, TimerStep, ShutdownStep

LEMMA ReaderTypeStep ==
    ASSUME TypeOK, [Next]_vars
    PROVE  ReaderTypeOK'
<1> USE DEF TypeOK, ReaderTypeOK, publisherVars, streamVars, demandVars, pubDemandVars,
            holdVars, readerVars, Continue
<1>1. CASE DoOnDemandStaticSourceReadyTimer
  BY <1>1 DEF DoOnDemandStaticSourceReadyTimer, FailHeld
<1>2. CASE DoOnDemandStaticSourceCloseTimer
  BY <1>2 DEF DoOnDemandStaticSourceCloseTimer, SetNotReady
<1>3. CASE DoOnDemandPublisherReadyTimer
  BY <1>3 DEF DoOnDemandPublisherReadyTimer, FailHeld
<1>4. CASE DoOnDemandPublisherCloseTimer
  BY <1>4 DEF DoOnDemandPublisherCloseTimer
<1>5. ASSUME NEW c \in Confs, DoReloadConf(c)
      PROVE  ReaderTypeOK'
  BY <1>5 DEF DoReloadConf
<1>6. ASSUME NEW s \in FreshStreams, DoSourceStaticSetReady(s)
      PROVE  ReaderTypeOK'
  BY <1>6, HeldTypes, FreshTypes DEF DoSourceStaticSetReady, ConsumeOnHoldRequests
<1>7. ASSUME NEW s \in FreshStreams, DoSourceStaticSetReadyFails(s)
      PROVE  ReaderTypeOK'
  BY <1>7, FreshTypes DEF DoSourceStaticSetReadyFails
<1>8. CASE DoSourceStaticSetNotReady
  BY <1>8 DEF DoSourceStaticSetNotReady, SetNotReady
<1>9. ASSUME NEW d \in Describers, DoDescribeHeld(d)
      PROVE  ReaderTypeOK'
  BY <1>9 DEF DoDescribeHeld
<1>10. ASSUME NEW r \in Readers, DoAddReaderAccepted(r)
      PROVE  ReaderTypeOK'
  BY <1>10 DEF DoAddReaderAccepted, StreamTypeOK
<1>11. ASSUME NEW r \in Readers, DoAddReaderHeld(r)
      PROVE  ReaderTypeOK'
  BY <1>11 DEF DoAddReaderHeld
<1>12. ASSUME NEW r \in Readers, DoRemoveReader(r)
      PROVE  ReaderTypeOK'
  BY <1>12 DEF DoRemoveReader
<1>13. ASSUME NEW r \in Readers, RemoveReaderSkipped(r)
      PROVE  ReaderTypeOK'
  BY <1>13 DEF RemoveReaderSkipped
<1>14. ASSUME NEW p \in Publishers, NEW s \in FreshStreams, DoAddPublisher(p, s)
      PROVE  ReaderTypeOK'
  BY <1>14, HeldTypes, FreshTypes DEF DoAddPublisher, ConsumeOnHoldRequests, RemovedReaders
<1>15. ASSUME NEW p \in Publishers, NEW s \in FreshStreams, DoAddPublisherFails(p, s)
      PROVE  ReaderTypeOK'
  BY <1>15, FreshTypes DEF DoAddPublisherFails, RemovedReaders
<1>16. ASSUME NEW p \in Publishers, DoRemovePublisher(p)
      PROVE  ReaderTypeOK'
  BY <1>16 DEF DoRemovePublisher, SetNotReady
<1>17. ASSUME NEW p \in Publishers, RemovePublisherSkipped(p)
      PROVE  ReaderTypeOK'
  BY <1>17 DEF RemovePublisherSkipped
<1>18. CASE Terminate
  BY <1>18 DEF Terminate, FailHeld, SetNotReady
<1>19. CASE
           \/ \E d \in Describers : DoDescribeAnswered(d)
           \/ \E r \in Readers : DoAddReaderRefused(r)
           \/ Close \/ RunInnerTerminated \/ ClosePath \/ Ended \/ UNCHANGED vars
  BY <1>19 DEF DoDescribeAnswered, DoAddReaderRefused, Close, RunInnerTerminated, ClosePath,
     Ended, vars
<1> QED BY <1>1, <1>2, <1>3, <1>4, <1>5, <1>6, <1>7, <1>8, <1>9, <1>10, <1>11, <1>12, <1>13,
           <1>14, <1>15, <1>16, <1>17, <1>18, <1>19 DEF Next, ReaderStep, PublisherStep,
           SourceStep, TimerStep, ShutdownStep

(* Every variable keeps its type, panics and failed initializations        *)
(* included.                                                               *)
THEOREM TypeCorrect == Spec => []TypeOK
<1>1. TypeOK /\ [Next]_vars => TypeOK'
  BY CoreTypeStep, StreamTypeStep, DemandTypeStep, HoldTypeStep, ReaderTypeStep DEF TypeOK
<1> QED BY TypeInit, <1>1, PTL DEF Spec

-----------------------------------------------------------------------------
(* Requests on hold.  HeldExactlyOnce is inductive given the types: only a *)
(* client that is not waiting asks, leaves or is told to close.            *)

LEMMA HeldStep ==
    ASSUME TypeOK, HeldExactlyOnce, [Next]_vars
    PROVE  HeldExactlyOnce'
<1> USE DEF HeldExactlyOnce, HeldReaders, HeldDescribers, TypeOK, HoldTypeOK, ReaderTypeOK,
            publisherVars, streamVars, demandVars, pubDemandVars, holdVars, readerVars, Continue
<1>1. CASE DoOnDemandStaticSourceReadyTimer
  BY <1>1, EmptyHeld DEF DoOnDemandStaticSourceReadyTimer, FailHeld
<1>2. CASE DoOnDemandStaticSourceCloseTimer
  BY <1>2, EmptyHeld DEF DoOnDemandStaticSourceCloseTimer
<1>3. CASE DoOnDemandPublisherReadyTimer
  BY <1>3, EmptyHeld DEF DoOnDemandPublisherReadyTimer, FailHeld
<1>4. CASE DoOnDemandPublisherCloseTimer
  BY <1>4, EmptyHeld DEF DoOnDemandPublisherCloseTimer
<1>5. ASSUME NEW c \in Confs, DoReloadConf(c)
      PROVE  HeldExactlyOnce'
  BY <1>5, EmptyHeld DEF DoReloadConf
<1>6. ASSUME NEW s \in FreshStreams, DoSourceStaticSetReady(s)
      PROVE  HeldExactlyOnce'
  BY <1>6, EmptyHeld, FreshTypes DEF DoSourceStaticSetReady, ConsumeOnHoldRequests
<1>7. ASSUME NEW s \in FreshStreams, DoSourceStaticSetReadyFails(s)
      PROVE  HeldExactlyOnce'
  BY <1>7, EmptyHeld, FreshTypes DEF DoSourceStaticSetReadyFails
<1>8. CASE DoSourceStaticSetNotReady
  BY <1>8, EmptyHeld DEF DoSourceStaticSetNotReady
<1>9. ASSUME NEW d \in Describers, DoDescribeHeld(d)
      PROVE  HeldExactlyOnce'
  <2>1. describeRequestsOnHold \in Seq(Describers) /\ d \notin RangeOf(describeRequestsOnHold) /\ NoRepeats(describeRequestsOnHold)
    BY <1>9 DEF DoDescribeHeld
  <2> QED BY <1>9, <2>1, AppendHeld DEF DoDescribeHeld
<1>10. ASSUME NEW r \in Readers, DoAddReaderAccepted(r)
      PROVE  HeldExactlyOnce'
  BY <1>10, EmptyHeld DEF DoAddReaderAccepted, MayAsk
<1>11. ASSUME NEW r \in Readers, DoAddReaderHeld(r)
      PROVE  HeldExactlyOnce'
  <2>1. readerAddRequestsOnHold \in Seq(Readers) /\ r \notin RangeOf(readerAddRequestsOnHold) /\ NoRepeats(readerAddRequestsOnHold)
    BY <1>11 DEF DoAddReaderHeld, MayAsk
  <2> QED BY <1>11, <2>1, AppendHeld DEF DoAddReaderHeld, MayAsk
<1>12. ASSUME NEW r \in Readers, DoRemoveReader(r)
      PROVE  HeldExactlyOnce'
  BY <1>12, EmptyHeld DEF DoRemoveReader
<1>13. ASSUME NEW r \in Readers, RemoveReaderSkipped(r)
      PROVE  HeldExactlyOnce'
  BY <1>13, EmptyHeld DEF RemoveReaderSkipped
<1>14. ASSUME NEW p \in Publishers, NEW s \in FreshStreams, DoAddPublisher(p, s)
      PROVE  HeldExactlyOnce'
  BY <1>14, EmptyHeld, FreshTypes DEF DoAddPublisher, ConsumeOnHoldRequests
<1>15. ASSUME NEW p \in Publishers, NEW s \in FreshStreams, DoAddPublisherFails(p, s)
      PROVE  HeldExactlyOnce'
  BY <1>15, EmptyHeld, FreshTypes DEF DoAddPublisherFails
<1>16. ASSUME NEW p \in Publishers, DoRemovePublisher(p)
      PROVE  HeldExactlyOnce'
  BY <1>16, EmptyHeld DEF DoRemovePublisher
<1>17. ASSUME NEW p \in Publishers, RemovePublisherSkipped(p)
      PROVE  HeldExactlyOnce'
  BY <1>17, EmptyHeld DEF RemovePublisherSkipped
<1>18. CASE Terminate
  BY <1>18, EmptyHeld DEF Terminate, FailHeld
<1>19. CASE
           \/ \E d \in Describers : DoDescribeAnswered(d)
           \/ \E r \in Readers : DoAddReaderRefused(r)
           \/ Close \/ RunInnerTerminated \/ ClosePath \/ Ended \/ UNCHANGED vars
  BY <1>19, EmptyHeld DEF DoDescribeAnswered, DoAddReaderRefused, Close, RunInnerTerminated,
     ClosePath, Ended, vars
<1> QED BY <1>1, <1>2, <1>3, <1>4, <1>5, <1>6, <1>7, <1>8, <1>9, <1>10, <1>11, <1>12, <1>13,
           <1>14, <1>15, <1>16, <1>17, <1>18, <1>19 DEF Next, ReaderStep, PublisherStep,
           SourceStep, TimerStep, ShutdownStep

(* A client waits exactly when its request is on hold, once.               *)
THEOREM HeldCorrect == Spec => []HeldExactlyOnce
<1>1. Init => HeldExactlyOnce
  BY EmptyHeld DEF Init, HeldExactlyOnce, HeldReaders, HeldDescribers
<1>2. TypeOK /\ HeldExactlyOnce /\ [Next]_vars => HeldExactlyOnce'
  BY HeldStep
<1> QED BY TypeCorrect, <1>1, <1>2, PTL DEF Spec

-----------------------------------------------------------------------------
(* Timers.  What is added to TimersFollowDemand: a static source is not    *)
(* waited for once its instance is ready, and the state of the on-demand   *)
(* source is only used by the configurations that have one.                *)
TimerInv ==
    /\ TimersFollowDemand
    /\ Alive /\ handler = "ready" => staticState # "waitingReady"
    /\ ~HasOnDemandStaticSource(conf) => staticState = "initial"

LEMMA TimerInvStep ==
    ASSUME TypeOK, TimerInv, [Next]_vars
    PROVE  TimerInv'
<1> USE DEF TimerInv, TimersFollowDemand, Alive, TypeOK, CoreTypeOK, DemandTypeOK,
            OnDemandState, HasOnDemandStaticSource, HasStaticSource, publisherVars, streamVars,
            demandVars, pubDemandVars, holdVars, readerVars, Continue
<1>1. CASE DoOnDemandStaticSourceReadyTimer
  BY <1>1 DEF DoOnDemandStaticSourceReadyTimer, OnDemandStaticSourceStop
<1>2. CASE DoOnDemandStaticSourceCloseTimer
  BY <1>2 DEF DoOnDemandStaticSourceCloseTimer
<1>3. CASE DoOnDemandPublisherReadyTimer
  BY <1>3 DEF DoOnDemandPublisherReadyTimer, OnDemandPublisherStop
<1>4. CASE DoOnDemandPublisherCloseTimer
  BY <1>4 DEF DoOnDemandPublisherCloseTimer
<1>5. ASSUME NEW c \in Confs, DoReloadConf(c)
      PROVE  TimerInv'
  BY <1>5, ConfFields DEF DoReloadConf
<1>6. ASSUME NEW s \in FreshStreams, DoSourceStaticSetReady(s)
      PROVE  TimerInv'
  BY <1>6, FreshTypes DEF DoSourceStaticSetReady
<1>7. ASSUME NEW s \in FreshStreams, DoSourceStaticSetReadyFails(s)
      PROVE  TimerInv'
  BY <1>7, FreshTypes DEF DoSourceStaticSetReadyFails
<1>8. CASE DoSourceStaticSetNotReady
  BY <1>8 DEF DoSourceStaticSetNotReady, OnDemandStaticSourceStop
<1>9. ASSUME NEW d \in Describers, DoDescribeHeld(d)
      PROVE  TimerInv'
  BY <1>9 DEF DoDescribeHeld, StartOnDemand, OnDemandStaticSourceStart, OnDemandPublisherStart
<1>10. ASSUME NEW r \in Readers, DoAddReaderAccepted(r)
      PROVE  TimerInv'
  BY <1>10 DEF DoAddReaderAccepted, KeepsSource, KeepsCommand
<1>11. ASSUME NEW r \in Readers, DoAddReaderHeld(r)
      PROVE  TimerInv'
  BY <1>11 DEF DoAddReaderHeld, StartOnDemand, OnDemandStaticSourceStart, OnDemandPublisherStart
<1>12. ASSUME NEW r \in Readers, DoRemoveReader(r)
      PROVE  TimerInv'
  BY <1>12 DEF DoRemoveReader, LeavesSource, LeavesCommand
<1>13. ASSUME NEW r \in Readers, RemoveReaderSkipped(r)
      PROVE  TimerInv'
  BY <1>13 DEF RemoveReaderSkipped
<1>14. ASSUME NEW p \in Publishers, NEW s \in FreshStreams, DoAddPublisher(p, s)
      PROVE  TimerInv'
  BY <1>14, FreshTypes DEF DoAddPublisher
<1>15. ASSUME NEW p \in Publishers, NEW s \in FreshStreams, DoAddPublisherFails(p, s)
      PROVE  TimerInv'
  BY <1>15, FreshTypes DEF DoAddPublisherFails
<1>16. ASSUME NEW p \in Publishers, DoRemovePublisher(p)
      PROVE  TimerInv'
  BY <1>16 DEF DoRemovePublisher
<1>17. ASSUME NEW p \in Publishers, RemovePublisherSkipped(p)
      PROVE  TimerInv'
  BY <1>17 DEF RemovePublisherSkipped
<1>18. CASE Terminate
  BY <1>18 DEF Terminate
<1>19. CASE
           \/ \E d \in Describers : DoDescribeAnswered(d)
           \/ \E r \in Readers : DoAddReaderRefused(r)
           \/ Close \/ RunInnerTerminated \/ ClosePath \/ Ended \/ UNCHANGED vars
  BY <1>19 DEF DoDescribeAnswered, DoAddReaderRefused, Close, RunInnerTerminated, ClosePath,
     Ended, vars
<1> QED BY <1>1, <1>2, <1>3, <1>4, <1>5, <1>6, <1>7, <1>8, <1>9, <1>10, <1>11, <1>12, <1>13,
           <1>14, <1>15, <1>16, <1>17, <1>18, <1>19 DEF Next, ReaderStep, PublisherStep,
           SourceStep, TimerStep, ShutdownStep

(* Each timer is armed exactly in the on-demand state that needs it.       *)
THEOREM TimersCorrect == Spec => []TimersFollowDemand
<1>1. Init => TimerInv
  BY DEF Init, TimerInv, TimersFollowDemand
<1>2. TypeOK /\ TimerInv /\ [Next]_vars => TimerInv'
  BY TimerInvStep
<1>3. TimerInv => TimersFollowDemand
  BY DEF TimerInv
<1> QED BY TypeCorrect, <1>1, <1>2, <1>3, PTL DEF Spec

-----------------------------------------------------------------------------
(* The limit of readers.                                                   *)

LEMMA IntervalSize ==
    ASSUME NEW n \in Nat
    PROVE  IsFiniteSet(1..n) /\ Cardinality(1..n) = n
<1>1. Cardinality(1..n) = IF 1 > n THEN 0 ELSE n - 1 + 1
  BY FS_Interval
<1>2. IsFiniteSet(1..n)
  BY FS_Interval
<1> QED BY <1>1, <1>2

(* addReaderPost accepts at most as many requests on hold as there is room *)
(* for next to the readers that stay.                                      *)
LEMMA AdmittedBound ==
    ASSUME TypeOK, NEW base \in SUBSET Readers, conf.maxReaders # 0,
           Cardinality(base) <= conf.maxReaders
    PROVE  Cardinality(base \cup AdmittedHeld(base)) <= conf.maxReaders
<1> DEFINE q == readerAddRequestsOnHold
           n == conf.maxReaders - Cardinality(base)
           I == {j \in DOMAIN q : j <= n}
<1>1. /\ conf.maxReaders \in Nat /\ DOMAIN q = 1..Len(q) /\ Len(q) \in Nat
      /\ IsFiniteSet(base) /\ Cardinality(base) \in Nat
  <2>1. conf.maxReaders \in Nat
    BY ConfsAssumption DEF TypeOK, CoreTypeOK, PathConf
  <2>2. q \in Seq(Readers)
    BY DEF TypeOK, HoldTypeOK
  <2>3. IsFiniteSet(base)
    BY ReadersAssumption, FS_Subset
  <2>4. Cardinality(base) \in Nat
    BY <2>3, FS_CardinalityType
  <2>5. DOMAIN q = 1..Len(q) /\ Len(q) \in Nat
    BY <2>2
  <2> QED BY <2>1, <2>3, <2>4, <2>5
<1>2. n \in Nat /\ FreeSlots(base) = n
  BY <1>1 DEF FreeSlots
<1>3. I \subseteq 1..n
  BY <1>1, <1>2
<1>4. IsFiniteSet(1..n) /\ Cardinality(1..n) = n
  BY <1>2, IntervalSize
<1>5. IsFiniteSet(I) /\ Cardinality(I) <= n
  <2> HIDE DEF I, n, q
  <2>1. I \in SUBSET (1..n)
    BY <1>3
  <2>2. IsFiniteSet(I) /\ Cardinality(I) <= Cardinality(1..n)
    BY <1>4, <2>1, FS_Subset, Zenon
  <2> QED BY <1>4, <2>2
<1>6. AdmittedHeld(base) = {q[i] : i \in I}
  BY <1>2 DEF AdmittedHeld
<1>7. IsFiniteSet(AdmittedHeld(base)) /\ Cardinality(AdmittedHeld(base)) <= Cardinality(I)
  <2> DEFINE f == [i \in I |-> q[i]]
  <2>1. f \in Surjection(I, AdmittedHeld(base))
    BY <1>6 DEF Surjection
  <2> QED BY <2>1, <1>5, FS_Surjection
<1>8. Cardinality(base \cup AdmittedHeld(base))
        = Cardinality(base) + Cardinality(AdmittedHeld(base))
          - Cardinality(base \cap AdmittedHeld(base))
  BY <1>1, <1>7, FS_Union
<1>9. Cardinality(base \cap AdmittedHeld(base)) \in Nat /\ Cardinality(AdmittedHeld(base)) \in Nat
      /\ Cardinality(I) \in Nat
  BY <1>1, <1>5, <1>7, FS_CardinalityType, FS_Intersection
<1> QED BY <1>1, <1>2, <1>5, <1>7, <1>8, <1>9

LEMMA ReaderLimitStep ==
    ASSUME TypeOK, ReaderLimit, [Next]_vars
    PROVE  ReaderLimit'
<1> USE DEF publisherVars, streamVars, demandVars, pubDemandVars, holdVars, readerVars, Continue
<1>0. readers' \subseteq readers /\ conf'.maxReaders = conf.maxReaders => ReaderLimit'
  <2> SUFFICES ASSUME readers' \subseteq readers, conf'.maxReaders = conf.maxReaders,
                      conf.maxReaders # 0
               PROVE  Cardinality(readers') <= conf.maxReaders
    BY DEF ReaderLimit
  <2>1. IsFiniteSet(readers)
    BY ReadersAssumption, FS_Subset DEF TypeOK, ReaderTypeOK
  <2>2. /\ Cardinality(readers') <= Cardinality(readers) /\ IsFiniteSet(readers')
    BY <2>1, FS_Subset
  <2>3. /\ Cardinality(readers) \in Nat /\ Cardinality(readers') \in Nat
        /\ conf.maxReaders \in Nat
    BY <2>1, <2>2, FS_CardinalityType, ConfsAssumption DEF TypeOK, CoreTypeOK, PathConf
  <2> QED BY <2>2, <2>3 DEF ReaderLimit
<1>1. CASE DoOnDemandStaticSourceReadyTimer
  BY <1>1, <1>0 DEF DoOnDemandStaticSourceReadyTimer
<1>2. CASE DoOnDemandStaticSourceCloseTimer
  BY <1>2, <1>0 DEF DoOnDemandStaticSourceCloseTimer, SetNotReady
<1>3. CASE DoOnDemandPublisherReadyTimer
  BY <1>3, <1>0 DEF DoOnDemandPublisherReadyTimer
<1>4. CASE DoOnDemandPublisherCloseTimer
  BY <1>4, <1>0 DEF DoOnDemandPublisherCloseTimer
<1>5. ASSUME NEW c \in Confs, DoReloadConf(c)
      PROVE  ReaderLimit'
  BY <1>5, ConfFields, <1>0 DEF DoReloadConf, TypeOK, CoreTypeOK
<1>6. ASSUME NEW s \in FreshStreams, DoSourceStaticSetReady(s)
      PROVE  ReaderLimit'
  BY <1>6, AdmittedBound DEF DoSourceStaticSetReady, ConsumeOnHoldRequests, ReaderLimit,
     TypeOK, ReaderTypeOK
<1>7. ASSUME NEW s \in FreshStreams, DoSourceStaticSetReadyFails(s)
      PROVE  ReaderLimit'
  BY <1>7, <1>0, FreshTypes DEF DoSourceStaticSetReadyFails
<1>8. CASE DoSourceStaticSetNotReady
  BY <1>8, <1>0 DEF DoSourceStaticSetNotReady, SetNotReady
<1>9. ASSUME NEW d \in Describers, DoDescribeHeld(d)
      PROVE  ReaderLimit'
  BY <1>9, <1>0 DEF DoDescribeHeld
<1>10. ASSUME NEW r \in Readers, DoAddReaderAccepted(r)
      PROVE  ReaderLimit'
  <2>1. CASE r \in readers
    BY <1>10, <2>1, <1>0 DEF DoAddReaderAccepted
  <2>2. CASE ~Full
    <3>1. /\ conf.maxReaders \in Nat /\ IsFiniteSet(readers) /\ Cardinality(readers) \in Nat
      BY ConfsAssumption, ReadersAssumption, FS_Subset, FS_CardinalityType
         DEF TypeOK, CoreTypeOK, ReaderTypeOK, PathConf
    <3> DEFINE more == Cardinality(readers \cup {r})
    <3>2. more = Cardinality(readers) \/ more = Cardinality(readers) + 1
      <4>1. CASE r \in readers
        <5>1. readers \cup {r} = readers
          BY <4>1
        <5> QED BY <5>1
      <4>2. CASE r \notin readers
        BY <3>1, <4>2, FS_AddElement
      <4> QED BY <4>1, <4>2
    <3>3. more \in Nat /\ more <= Cardinality(readers) + 1
      BY <3>1, <3>2
    <3> QED BY <1>10, <2>2, <3>1, <3>2, <3>3 DEF DoAddReaderAccepted, Full, ReaderLimit
  <2> QED BY <1>10, <2>1, <2>2 DEF DoAddReaderAccepted
<1>11. ASSUME NEW r \in Readers, DoAddReaderHeld(r)
      PROVE  ReaderLimit'
  BY <1>11, <1>0 DEF DoAddReaderHeld
<1>12. ASSUME NEW r \in Readers, DoRemoveReader(r)
      PROVE  ReaderLimit'
  BY <1>12, <1>0 DEF DoRemoveReader
<1>13. ASSUME NEW r \in Readers, RemoveReaderSkipped(r)
      PROVE  ReaderLimit'
  BY <1>13, <1>0 DEF RemoveReaderSkipped
<1>14. ASSUME NEW p \in Publishers, NEW s \in FreshStreams, DoAddPublisher(p, s)
      PROVE  ReaderLimit'
  <2> DEFINE base == readers \ RemovedReaders
  <2>1. CASE conf.maxReaders # 0
    <3>1. base \in SUBSET Readers /\ Cardinality(base) <= conf.maxReaders
      <4>1. IsFiniteSet(readers) /\ Cardinality(readers) <= conf.maxReaders
        BY <2>1, ReadersAssumption, FS_Subset DEF ReaderLimit, TypeOK, ReaderTypeOK
      <4>2. Cardinality(base) <= Cardinality(readers) /\ Cardinality(base) \in Nat
            /\ Cardinality(readers) \in Nat /\ conf.maxReaders \in Nat
        BY <4>1, FS_Subset, FS_CardinalityType, ConfsAssumption DEF TypeOK, CoreTypeOK, PathConf
      <4> QED BY <4>1, <4>2 DEF TypeOK, ReaderTypeOK
    <3>2. Cardinality(base \cup AdmittedHeld(base)) <= conf.maxReaders
      BY <2>1, <3>1, AdmittedBound
    <3> QED BY <1>14, <3>2 DEF DoAddPublisher, ConsumeOnHoldRequests, ReaderLimit
  <2> QED BY <1>14, <2>1 DEF DoAddPublisher, ReaderLimit
<1>15. ASSUME NEW p \in Publishers, NEW s \in FreshStreams, DoAddPublisherFails(p, s)
      PROVE  ReaderLimit'
  BY <1>15, <1>0, FreshTypes DEF DoAddPublisherFails, RemovedReaders
<1>16. ASSUME NEW p \in Publishers, DoRemovePublisher(p)
      PROVE  ReaderLimit'
  BY <1>16, <1>0 DEF DoRemovePublisher, SetNotReady
<1>17. ASSUME NEW p \in Publishers, RemovePublisherSkipped(p)
      PROVE  ReaderLimit'
  BY <1>17, <1>0 DEF RemovePublisherSkipped
<1>18. CASE Terminate
  BY <1>18, <1>0 DEF Terminate, SetNotReady
<1>19. CASE
           \/ \E d \in Describers : DoDescribeAnswered(d)
           \/ \E r \in Readers : DoAddReaderRefused(r)
           \/ Close \/ RunInnerTerminated \/ ClosePath \/ Ended \/ UNCHANGED vars
  BY <1>19, <1>0 DEF DoDescribeAnswered, DoAddReaderRefused, Close, RunInnerTerminated,
     ClosePath, Ended, vars
<1> QED BY <1>1, <1>2, <1>3, <1>4, <1>5, <1>6, <1>7, <1>8, <1>9, <1>10, <1>11, <1>12, <1>13,
           <1>14, <1>15, <1>16, <1>17, <1>18, <1>19 DEF Next, ReaderStep, PublisherStep,
           SourceStep, TimerStep, ShutdownStep

(* A path never has more readers than maxReaders, requests on hold that     *)
(* are served together included.                                           *)
THEOREM ReaderLimitCorrect == Spec => []ReaderLimit
<1>1. Init => ReaderLimit
  <2> SUFFICES ASSUME Init PROVE ReaderLimit
    OBVIOUS
  <2>1. readers = {} /\ conf.maxReaders \in Nat
    BY ConfsAssumption DEF Init, PathConf
  <2> QED BY <2>1, FS_EmptySet DEF ReaderLimit
<1>2. TypeOK /\ ReaderLimit /\ [Next]_vars => ReaderLimit'
  BY ReaderLimitStep
<1> QED BY TypeCorrect, <1>1, <1>2, PTL DEF Spec

-----------------------------------------------------------------------------
(* When streams can always be initialized.                                 *)

(* The source and the stream follow the kind of the path. *)
SourceInv ==
    /\ HasStaticSource(conf) <=> source = HandlerSrc
    /\ source = RedirectSrc => conf.source = "redirect"
    /\ conf.source = "redirect" => stream = NoStream
    /\ Alive /\ conf.source = "publisher" => (source = Nobody <=> stream = NoStream)

(* The handler runs when the path needs it, and is ready when there is a   *)
(* stream.                                                                 *)
DemandInv ==
    /\ HasOnDemandStaticSource(conf) => publisherState = "initial"
    /\ ~HasOnDemandPublisher(conf) => publisherState = "initial"
    /\ Alive =>
         /\ handler # "stopped" <=>
                HasStaticSource(conf) /\ (conf.sourceOnDemand => staticState # "initial")
         /\ handler = "ready" <=> HasStaticSource(conf) /\ stream # NoStream
         /\ staticState \in {"ready", "closing"} => handler = "ready"
         /\ staticState = "waitingReady" => handler = "starting"
         /\ onUnDemandHook <=> publisherState # "initial"

StreamInv == HookFollowsStream /\ (stream = NoStream => readers = {})

(* A session that asks for another track while the path is not ready was   *)
(* told to close before.                                                   *)
SessionInv ==
    \A r \in Readers :
        /\ rdState[r] = "idle" => rdStream[r] = NoStream
        /\ rdState[r] = "waiting" /\ rdStream[r] # NoStream => r \in closedReaders

HoldInv ==
    /\ SomeoneOnHold => Alive /\ Holds /\ stream = NoStream
    /\ HasOnDemandStaticSource(conf) /\ SomeoneOnHold => staticState # "initial"

UseInv == ClosingOnlyUnused /\ (~Alive => readers = {})

EndInv ==
    phase = "destroyed" =>
        /\ stream = NoStream /\ handler = "stopped" /\ ~onUnDemandHook
        /\ source \in Publishers => source \in closedPublishers

IInv ==
    /\ TypeOK /\ HeldExactlyOnce /\ TimerInv
    /\ NoPanic /\ SourceInv /\ DemandInv /\ StreamInv /\ SessionInv /\ HoldInv
    /\ ReadersShareLiveStream /\ PublisherIsSource /\ RecorderFollowsConf
    /\ LiveHasSource /\ UseInv /\ EndInv

LEMMA NoPanicStep ==
    ASSUME ~InitCanFail, IInv, [Next]_vars
    PROVE  NoPanic'
<1> USE DEF IInv, NoPanic, SourceInv, DemandInv, StreamInv, HookFollowsStream, TimerInv,
            TimersFollowDemand, Alive, HasStaticSource, HasOnDemandStaticSource,
            HasOnDemandPublisher, TypeOK, DemandTypeOK, StreamTypeOK, OnDemandState,
            publisherVars, streamVars, demandVars, pubDemandVars, holdVars, readerVars, Continue
<1>1. CASE DoOnDemandStaticSourceReadyTimer
  BY <1>1, NamesAssumption DEF DoOnDemandStaticSourceReadyTimer, FailHeld,
     OnDemandStaticSourceStop, StopPanics
<1>2. CASE DoOnDemandStaticSourceCloseTimer
  BY <1>2, NamesAssumption DEF DoOnDemandStaticSourceCloseTimer, SetNotReady, NotReadyPanics,
     StopPanics
<1>3. CASE DoOnDemandPublisherReadyTimer
  BY <1>3, NamesAssumption DEF DoOnDemandPublisherReadyTimer, FailHeld, OnDemandPublisherStop
<1>4. CASE DoOnDemandPublisherCloseTimer
  BY <1>4, NamesAssumption DEF DoOnDemandPublisherCloseTimer
<1>5. ASSUME NEW c \in Confs, DoReloadConf(c)
      PROVE  NoPanic'
  BY <1>5, NamesAssumption, ConfFields DEF DoReloadConf, RecorderAfterReload
<1>6. ASSUME NEW s \in FreshStreams, DoSourceStaticSetReady(s)
      PROVE  NoPanic'
  BY <1>6, NamesAssumption, FreshTypes DEF DoSourceStaticSetReady, SetReady,
     ConsumeOnHoldRequests
<1>7. CASE DoSourceStaticSetNotReady
  BY <1>7, NamesAssumption DEF DoSourceStaticSetNotReady, SetNotReady, OnDemandStaticSourceStop,
     NotReadyPanics
<1>8. ASSUME NEW d \in Describers, DoDescribeHeld(d)
      PROVE  NoPanic'
  BY <1>8, NamesAssumption DEF DoDescribeHeld, StartOnDemand, OnDemandStaticSourceStart,
     OnDemandPublisherStart, StartOnDemandPanics, StartPanics
<1>9. ASSUME NEW r \in Readers, DoAddReaderAccepted(r)
      PROVE  NoPanic'
  BY <1>9, NamesAssumption DEF DoAddReaderAccepted, MayAsk, KeepsSource, KeepsCommand
<1>10. ASSUME NEW r \in Readers, DoAddReaderHeld(r)
      PROVE  NoPanic'
  BY <1>10, NamesAssumption DEF DoAddReaderHeld, MayAsk, StartOnDemand,
     OnDemandStaticSourceStart, OnDemandPublisherStart, StartOnDemandPanics, StartPanics
<1>11. ASSUME NEW r \in Readers, DoRemoveReader(r)
      PROVE  NoPanic'
  BY <1>11, NamesAssumption DEF DoRemoveReader, LeavesSource, LeavesCommand
<1>12. ASSUME NEW r \in Readers, RemoveReaderSkipped(r)
      PROVE  NoPanic'
  BY <1>12, NamesAssumption DEF RemoveReaderSkipped
<1>13. ASSUME NEW p \in Publishers, NEW s \in FreshStreams, DoAddPublisher(p, s)
      PROVE  NoPanic'
  BY <1>13, NamesAssumption, FreshTypes DEF DoAddPublisher, MayPublish, SetReady,
     ConsumeOnHoldRequests, RemovedReaders, OpenAfterOverride, Overridden, OverridePanics,
     NotReadyPanics
<1>14. ASSUME NEW p \in Publishers, DoRemovePublisher(p)
      PROVE  NoPanic'
  BY <1>14, NamesAssumption DEF DoRemovePublisher, SetNotReady, IsSource, TakesDown,
     NotReadyPanics
<1>15. ASSUME NEW p \in Publishers, RemovePublisherSkipped(p)
      PROVE  NoPanic'
  BY <1>15, NamesAssumption DEF RemovePublisherSkipped
<1>16. CASE Terminate
  BY <1>16, NamesAssumption DEF Terminate, FailHeld, SetNotReady, SourceMustBeClosed,
     NotReadyPanics, StopPanics
<1>17. CASE
           \/ \E d \in Describers : DoDescribeAnswered(d)
           \/ \E r \in Readers : DoAddReaderRefused(r)
           \/ Close \/ RunInnerTerminated \/ ClosePath \/ Ended \/ UNCHANGED vars
  BY <1>17, NamesAssumption DEF DoDescribeAnswered, DoAddReaderRefused, Close,
     RunInnerTerminated, ClosePath, Ended, vars
<1> QED BY <1>1, <1>2, <1>3, <1>4, <1>5, <1>6, <1>7, <1>8, <1>9, <1>10, <1>11, <1>12, <1>13,
           <1>14, <1>15, <1>16, <1>17 DEF Next, ReaderStep, PublisherStep, SourceStep,
           TimerStep, ShutdownStep, DoSourceStaticSetReadyFails, DoAddPublisherFails

LEMMA SourceInvStep ==
    ASSUME ~InitCanFail, IInv, [Next]_vars
    PROVE  SourceInv'
<1> USE DEF IInv, SourceInv, DemandInv, TimerInv, TimersFollowDemand, Alive, HasStaticSource,
            HasOnDemandStaticSource, HasOnDemandPublisher, TypeOK, CoreTypeOK, StreamTypeOK,
            publisherVars, streamVars, demandVars, pubDemandVars, holdVars, readerVars, Continue
<1>1. CASE DoOnDemandStaticSourceReadyTimer
  BY <1>1, NamesAssumption, ConfsAssumption DEF DoOnDemandStaticSourceReadyTimer, FailHeld,
     OnDemandStaticSourceStop
<1>2. CASE DoOnDemandStaticSourceCloseTimer
  BY <1>2, NamesAssumption, ConfsAssumption DEF DoOnDemandStaticSourceCloseTimer, SetNotReady
<1>3. CASE DoOnDemandPublisherReadyTimer
  BY <1>3, NamesAssumption, ConfsAssumption DEF DoOnDemandPublisherReadyTimer, FailHeld,
     OnDemandPublisherStop
<1>4. CASE DoOnDemandPublisherCloseTimer
  BY <1>4, NamesAssumption, ConfsAssumption DEF DoOnDemandPublisherCloseTimer
<1>5. ASSUME NEW c \in Confs, DoReloadConf(c)
      PROVE  SourceInv'
  BY <1>5, NamesAssumption, ConfsAssumption, ConfFields DEF DoReloadConf, RecorderAfterReload
<1>6. ASSUME NEW s \in FreshStreams, DoSourceStaticSetReady(s)
      PROVE  SourceInv'
  BY <1>6, NamesAssumption, ConfsAssumption, FreshTypes DEF DoSourceStaticSetReady, SetReady,
     ConsumeOnHoldRequests
<1>7. CASE DoSourceStaticSetNotReady
  BY <1>7, NamesAssumption, ConfsAssumption DEF DoSourceStaticSetNotReady, SetNotReady,
     OnDemandStaticSourceStop
<1>8. ASSUME NEW d \in Describers, DoDescribeHeld(d)
      PROVE  SourceInv'
  BY <1>8, NamesAssumption, ConfsAssumption DEF DoDescribeHeld, StartOnDemand,
     OnDemandStaticSourceStart, OnDemandPublisherStart
<1>9. ASSUME NEW r \in Readers, DoAddReaderAccepted(r)
      PROVE  SourceInv'
  BY <1>9, NamesAssumption, ConfsAssumption DEF DoAddReaderAccepted, MayAsk, KeepsSource,
     KeepsCommand
<1>10. ASSUME NEW r \in Readers, DoAddReaderHeld(r)
      PROVE  SourceInv'
  BY <1>10, NamesAssumption, ConfsAssumption DEF DoAddReaderHeld, MayAsk, StartOnDemand,
     OnDemandStaticSourceStart, OnDemandPublisherStart
<1>11. ASSUME NEW r \in Readers, DoRemoveReader(r)
      PROVE  SourceInv'
  BY <1>11, NamesAssumption, ConfsAssumption DEF DoRemoveReader, LeavesSource, LeavesCommand
<1>12. ASSUME NEW r \in Readers, RemoveReaderSkipped(r)
      PROVE  SourceInv'
  BY <1>12, NamesAssumption, ConfsAssumption DEF RemoveReaderSkipped
<1>13. ASSUME NEW p \in Publishers, NEW s \in FreshStreams, DoAddPublisher(p, s)
      PROVE  SourceInv'
  BY <1>13, NamesAssumption, ConfsAssumption, FreshTypes DEF DoAddPublisher, MayPublish,
     SetReady, ConsumeOnHoldRequests, RemovedReaders, OpenAfterOverride, Overridden
<1>14. ASSUME NEW p \in Publishers, DoRemovePublisher(p)
      PROVE  SourceInv'
  BY <1>14, NamesAssumption, ConfsAssumption DEF DoRemovePublisher, SetNotReady, IsSource,
     TakesDown
<1>15. ASSUME NEW p \in Publishers, RemovePublisherSkipped(p)
      PROVE  SourceInv'
  BY <1>15, NamesAssumption, ConfsAssumption DEF RemovePublisherSkipped
<1>16. CASE Terminate
  BY <1>16, NamesAssumption, ConfsAssumption DEF Terminate, FailHeld, SetNotReady,
     SourceMustBeClosed
<1>17. CASE
           \/ \E d \in Describers : DoDescribeAnswered(d)
           \/ \E r \in Readers : DoAddReaderRefused(r)
           \/ Close \/ RunInnerTerminated \/ ClosePath \/ Ended \/ UNCHANGED vars
  BY <1>17, NamesAssumption, ConfsAssumption DEF DoDescribeAnswered, DoAddReaderRefused, Close,
     RunInnerTerminated, ClosePath, Ended, vars
<1> QED BY <1>1, <1>2, <1>3, <1>4, <1>5, <1>6, <1>7, <1>8, <1>9, <1>10, <1>11, <1>12, <1>13,
           <1>14, <1>15, <1>16, <1>17 DEF Next, ReaderStep, PublisherStep, SourceStep,
           TimerStep, ShutdownStep, DoSourceStaticSetReadyFails, DoAddPublisherFails

LEMMA DemandStep ==
    ASSUME ~InitCanFail, IInv, [Next]_vars
    PROVE  DemandInv'
<1> USE DEF IInv, DemandInv, Holds, SourceInv, TimerInv, TimersFollowDemand, Alive,
            HasStaticSource, HasOnDemandStaticSource, HasOnDemandPublisher, TypeOK, CoreTypeOK,
            DemandTypeOK, OnDemandState, StreamTypeOK, publisherVars, streamVars, demandVars,
            pubDemandVars, holdVars, readerVars, Continue
<1>1. CASE DoOnDemandStaticSourceReadyTimer
  BY <1>1, NamesAssumption, ConfsAssumption DEF DoOnDemandStaticSourceReadyTimer, FailHeld,
     OnDemandStaticSourceStop
<1>2. CASE DoOnDemandStaticSourceCloseTimer
  BY <1>2, NamesAssumption, ConfsAssumption DEF DoOnDemandStaticSourceCloseTimer, SetNotReady
<1>3. CASE DoOnDemandPublisherReadyTimer
  BY <1>3, NamesAssumption, ConfsAssumption DEF DoOnDemandPublisherReadyTimer, FailHeld,
     OnDemandPublisherStop
<1>4. CASE DoOnDemandPublisherCloseTimer
  BY <1>4, NamesAssumption, ConfsAssumption DEF DoOnDemandPublisherCloseTimer
<1>5. ASSUME NEW c \in Confs, DoReloadConf(c)
      PROVE  DemandInv'
  BY <1>5, NamesAssumption, ConfsAssumption, ConfFields DEF DoReloadConf, RecorderAfterReload
<1>6. ASSUME NEW s \in FreshStreams, DoSourceStaticSetReady(s)
      PROVE  DemandInv'
  BY <1>6, NamesAssumption, ConfsAssumption, FreshTypes DEF DoSourceStaticSetReady, SetReady,
     ConsumeOnHoldRequests
<1>7. CASE DoSourceStaticSetNotReady
  BY <1>7, NamesAssumption, ConfsAssumption DEF DoSourceStaticSetNotReady, SetNotReady,
     OnDemandStaticSourceStop
<1>8. ASSUME NEW d \in Describers, DoDescribeHeld(d)
      PROVE  DemandInv'
  BY <1>8, NamesAssumption, ConfsAssumption DEF DoDescribeHeld, StartOnDemand,
     OnDemandStaticSourceStart, OnDemandPublisherStart
<1>9. ASSUME NEW r \in Readers, DoAddReaderAccepted(r)
      PROVE  DemandInv'
  BY <1>9, NamesAssumption, ConfsAssumption DEF DoAddReaderAccepted, MayAsk, KeepsSource,
     KeepsCommand
<1>10. ASSUME NEW r \in Readers, DoAddReaderHeld(r)
      PROVE  DemandInv'
  BY <1>10, NamesAssumption, ConfsAssumption DEF DoAddReaderHeld, MayAsk, StartOnDemand,
     OnDemandStaticSourceStart, OnDemandPublisherStart
<1>11. ASSUME NEW r \in Readers, DoRemoveReader(r)
      PROVE  DemandInv'
  BY <1>11, NamesAssumption, ConfsAssumption DEF DoRemoveReader, LeavesSource, LeavesCommand
<1>12. ASSUME NEW r \in Readers, RemoveReaderSkipped(r)
      PROVE  DemandInv'
  BY <1>12, NamesAssumption, ConfsAssumption DEF RemoveReaderSkipped
<1>13. ASSUME NEW p \in Publishers, NEW s \in FreshStreams, DoAddPublisher(p, s)
      PROVE  DemandInv'
  BY <1>13, NamesAssumption, ConfsAssumption, FreshTypes DEF DoAddPublisher, MayPublish,
     SetReady, ConsumeOnHoldRequests, RemovedReaders, OpenAfterOverride, Overridden
<1>14. ASSUME NEW p \in Publishers, DoRemovePublisher(p)
      PROVE  DemandInv'
  BY <1>14, NamesAssumption, ConfsAssumption DEF DoRemovePublisher, SetNotReady, IsSource,
     TakesDown
<1>15. ASSUME NEW p \in Publishers, RemovePublisherSkipped(p)
      PROVE  DemandInv'
  BY <1>15, NamesAssumption, ConfsAssumption DEF RemovePublisherSkipped
<1>16. CASE Terminate
  BY <1>16, NamesAssumption, ConfsAssumption DEF Terminate, FailHeld, SetNotReady,
     SourceMustBeClosed
<1>17. CASE
           \/ \E d \in Describers : DoDescribeAnswered(d)
           \/ \E r \in Readers : DoAddReaderRefused(r)
           \/ Close \/ RunInnerTerminated \/ ClosePath \/ Ended \/ UNCHANGED vars
  BY <1>17, NamesAssumption, ConfsAssumption DEF DoDescribeAnswered, DoAddReaderRefused, Close,
     RunInnerTerminated, ClosePath, Ended, vars
<1> QED BY <1>1, <1>2, <1>3, <1>4, <1>5, <1>6, <1>7, <1>8, <1>9, <1>10, <1>11, <1>12, <1>13,
           <1>14, <1>15, <1>16, <1>17 DEF Next, ReaderStep, PublisherStep, SourceStep,
           TimerStep, ShutdownStep, DoSourceStaticSetReadyFails, DoAddPublisherFails

LEMMA StreamStep ==
    ASSUME ~InitCanFail, IInv, [Next]_vars
    PROVE  StreamInv'
<1> USE DEF IInv, StreamInv, HookFollowsStream, DemandInv, SourceInv, Alive, HasStaticSource,
            HasOnDemandStaticSource, HasOnDemandPublisher, TypeOK, StreamTypeOK, CoreTypeOK,
            publisherVars, streamVars, demandVars, pubDemandVars, holdVars, readerVars, Continue
<1>1. CASE DoOnDemandStaticSourceReadyTimer
  BY <1>1, NamesAssumption DEF DoOnDemandStaticSourceReadyTimer, FailHeld,
     OnDemandStaticSourceStop
<1>2. CASE DoOnDemandStaticSourceCloseTimer
  BY <1>2, NamesAssumption DEF DoOnDemandStaticSourceCloseTimer, SetNotReady
<1>3. CASE DoOnDemandPublisherReadyTimer
  BY <1>3, NamesAssumption DEF DoOnDemandPublisherReadyTimer, FailHeld, OnDemandPublisherStop
<1>4. CASE DoOnDemandPublisherCloseTimer
  BY <1>4, NamesAssumption DEF DoOnDemandPublisherCloseTimer
<1>5. ASSUME NEW c \in Confs, DoReloadConf(c)
      PROVE  StreamInv'
  BY <1>5, NamesAssumption, ConfFields DEF DoReloadConf, RecorderAfterReload
<1>6. ASSUME NEW s \in FreshStreams, DoSourceStaticSetReady(s)
      PROVE  StreamInv'
  BY <1>6, NamesAssumption, FreshTypes DEF DoSourceStaticSetReady, SetReady,
     ConsumeOnHoldRequests
<1>7. CASE DoSourceStaticSetNotReady
  BY <1>7, NamesAssumption DEF DoSourceStaticSetNotReady, SetNotReady, OnDemandStaticSourceStop
<1>8. ASSUME NEW d \in Describers, DoDescribeHeld(d)
      PROVE  StreamInv'
  BY <1>8, NamesAssumption DEF DoDescribeHeld, StartOnDemand, OnDemandStaticSourceStart,
     OnDemandPublisherStart
<1>9. ASSUME NEW r \in Readers, DoAddReaderAccepted(r)
      PROVE  StreamInv'
  BY <1>9, NamesAssumption DEF DoAddReaderAccepted, MayAsk, KeepsSource, KeepsCommand
<1>10. ASSUME NEW r \in Readers, DoAddReaderHeld(r)
      PROVE  StreamInv'
  BY <1>10, NamesAssumption DEF DoAddReaderHeld, MayAsk, StartOnDemand,
     OnDemandStaticSourceStart, OnDemandPublisherStart
<1>11. ASSUME NEW r \in Readers, DoRemoveReader(r)
      PROVE  StreamInv'
  BY <1>11, NamesAssumption DEF DoRemoveReader, LeavesSource, LeavesCommand
<1>12. ASSUME NEW r \in Readers, RemoveReaderSkipped(r)
      PROVE  StreamInv'
  BY <1>12, NamesAssumption DEF RemoveReaderSkipped
<1>13. ASSUME NEW p \in Publishers, NEW s \in FreshStreams, DoAddPublisher(p, s)
      PROVE  StreamInv'
  BY <1>13, NamesAssumption, FreshTypes DEF DoAddPublisher, MayPublish, SetReady,
     ConsumeOnHoldRequests, RemovedReaders, OpenAfterOverride, Overridden
<1>14. ASSUME NEW p \in Publishers, DoRemovePublisher(p)
      PROVE  StreamInv'
  BY <1>14, NamesAssumption DEF DoRemovePublisher, SetNotReady, IsSource, TakesDown
<1>15. ASSUME NEW p \in Publishers, RemovePublisherSkipped(p)
      PROVE  StreamInv'
  BY <1>15, NamesAssumption DEF RemovePublisherSkipped
<1>16. CASE Terminate
  BY <1>16, NamesAssumption DEF Terminate, FailHeld, SetNotReady, SourceMustBeClosed
<1>17. CASE
           \/ \E d \in Describers : DoDescribeAnswered(d)
           \/ \E r \in Readers : DoAddReaderRefused(r)
           \/ Close \/ RunInnerTerminated \/ ClosePath \/ Ended \/ UNCHANGED vars
  BY <1>17, NamesAssumption DEF DoDescribeAnswered, DoAddReaderRefused, Close,
     RunInnerTerminated, ClosePath, Ended, vars
<1> QED BY <1>1, <1>2, <1>3, <1>4, <1>5, <1>6, <1>7, <1>8, <1>9, <1>10, <1>11, <1>12, <1>13,
           <1>14, <1>15, <1>16, <1>17 DEF Next, ReaderStep, PublisherStep, SourceStep,
           TimerStep, ShutdownStep, DoSourceStaticSetReadyFails, DoAddPublisherFails

LEMMA SessionStep ==
    ASSUME ~InitCanFail, IInv, [Next]_vars
    PROVE  SessionInv'
<1> USE DEF IInv, SessionInv, ReadersShareLiveStream, HeldExactlyOnce, HoldInv, TypeOK,
            ReaderTypeOK, publisherVars, streamVars, demandVars, pubDemandVars, holdVars,
            readerVars, Continue
<1>1. CASE DoOnDemandStaticSourceReadyTimer
  BY <1>1, HeldTypes, NamesAssumption DEF DoOnDemandStaticSourceReadyTimer, FailHeld,
     OnDemandStaticSourceStop
<1>2. CASE DoOnDemandStaticSourceCloseTimer
  BY <1>2, HeldTypes, NamesAssumption DEF DoOnDemandStaticSourceCloseTimer, SetNotReady
<1>3. CASE DoOnDemandPublisherReadyTimer
  BY <1>3, HeldTypes, NamesAssumption DEF DoOnDemandPublisherReadyTimer, FailHeld,
     OnDemandPublisherStop
<1>4. CASE DoOnDemandPublisherCloseTimer
  BY <1>4, HeldTypes, NamesAssumption DEF DoOnDemandPublisherCloseTimer
<1>5. ASSUME NEW c \in Confs, DoReloadConf(c)
      PROVE  SessionInv'
  BY <1>5, HeldTypes, NamesAssumption, ConfFields DEF DoReloadConf, RecorderAfterReload
<1>6. ASSUME NEW s \in FreshStreams, DoSourceStaticSetReady(s)
      PROVE  SessionInv'
  BY <1>6, HeldTypes, NamesAssumption, FreshTypes DEF DoSourceStaticSetReady, SetReady,
     ConsumeOnHoldRequests
<1>7. CASE DoSourceStaticSetNotReady
  BY <1>7, HeldTypes, NamesAssumption DEF DoSourceStaticSetNotReady, SetNotReady,
     OnDemandStaticSourceStop
<1>8. ASSUME NEW d \in Describers, DoDescribeHeld(d)
      PROVE  SessionInv'
  BY <1>8, HeldTypes, NamesAssumption DEF DoDescribeHeld, StartOnDemand,
     OnDemandStaticSourceStart, OnDemandPublisherStart
<1>9. ASSUME NEW r \in Readers, DoAddReaderAccepted(r)
      PROVE  SessionInv'
  BY <1>9, HeldTypes, NamesAssumption DEF DoAddReaderAccepted, MayAsk, KeepsSource, KeepsCommand
<1>10. ASSUME NEW r \in Readers, DoAddReaderHeld(r)
      PROVE  SessionInv'
  BY <1>10, HeldTypes, NamesAssumption DEF DoAddReaderHeld, MayAsk, StartOnDemand,
     OnDemandStaticSourceStart, OnDemandPublisherStart
<1>11. ASSUME NEW r \in Readers, DoRemoveReader(r)
      PROVE  SessionInv'
  BY <1>11, HeldTypes, NamesAssumption DEF DoRemoveReader, LeavesSource, LeavesCommand
<1>12. ASSUME NEW r \in Readers, RemoveReaderSkipped(r)
      PROVE  SessionInv'
  BY <1>12, HeldTypes, NamesAssumption DEF RemoveReaderSkipped
<1>13. ASSUME NEW p \in Publishers, NEW s \in FreshStreams, DoAddPublisher(p, s)
      PROVE  SessionInv'
  BY <1>13, HeldTypes, NamesAssumption, FreshTypes DEF DoAddPublisher, MayPublish, SetReady,
     ConsumeOnHoldRequests, RemovedReaders, OpenAfterOverride, Overridden
<1>14. ASSUME NEW p \in Publishers, DoRemovePublisher(p)
      PROVE  SessionInv'
  BY <1>14, HeldTypes, NamesAssumption DEF DoRemovePublisher, SetNotReady, IsSource, TakesDown
<1>15. ASSUME NEW p \in Publishers, RemovePublisherSkipped(p)
      PROVE  SessionInv'
  BY <1>15, HeldTypes, NamesAssumption DEF RemovePublisherSkipped
<1>16. CASE Terminate
  BY <1>16, HeldTypes, NamesAssumption DEF Terminate, FailHeld, SetNotReady, SourceMustBeClosed
<1>17. CASE
           \/ \E d \in Describers : DoDescribeAnswered(d)
           \/ \E r \in Readers : DoAddReaderRefused(r)
           \/ Close \/ RunInnerTerminated \/ ClosePath \/ Ended \/ UNCHANGED vars
  BY <1>17, HeldTypes, NamesAssumption DEF DoDescribeAnswered, DoAddReaderRefused, Close,
     RunInnerTerminated, ClosePath, Ended, vars
<1> QED BY <1>1, <1>2, <1>3, <1>4, <1>5, <1>6, <1>7, <1>8, <1>9, <1>10, <1>11, <1>12, <1>13,
           <1>14, <1>15, <1>16, <1>17 DEF Next, ReaderStep, PublisherStep, SourceStep,
           TimerStep, ShutdownStep, DoSourceStaticSetReadyFails, DoAddPublisherFails

LEMMA HoldStep ==
    ASSUME ~InitCanFail, IInv, [Next]_vars
    PROVE  HoldInv'
<1> USE DEF IInv, HoldInv, SomeoneOnHold, Holds, Alive, NoPanic, DemandInv, TimerInv,
            TimersFollowDemand, HasStaticSource, HasOnDemandStaticSource, HasOnDemandPublisher,
            TypeOK, CoreTypeOK, publisherVars, streamVars, demandVars, pubDemandVars, holdVars,
            readerVars, Continue
<1>1. CASE DoOnDemandStaticSourceReadyTimer
  BY <1>1, NamesAssumption, NoPanicStep DEF DoOnDemandStaticSourceReadyTimer, FailHeld,
     OnDemandStaticSourceStop
<1>2. CASE DoOnDemandStaticSourceCloseTimer
  BY <1>2, NamesAssumption, NoPanicStep DEF DoOnDemandStaticSourceCloseTimer, SetNotReady
<1>3. CASE DoOnDemandPublisherReadyTimer
  BY <1>3, NamesAssumption, NoPanicStep DEF DoOnDemandPublisherReadyTimer, FailHeld,
     OnDemandPublisherStop
<1>4. CASE DoOnDemandPublisherCloseTimer
  BY <1>4, NamesAssumption, NoPanicStep DEF DoOnDemandPublisherCloseTimer
<1>5. ASSUME NEW c \in Confs, DoReloadConf(c)
      PROVE  HoldInv'
  BY <1>5, NamesAssumption, NoPanicStep, ConfFields DEF DoReloadConf, RecorderAfterReload
<1>6. ASSUME NEW s \in FreshStreams, DoSourceStaticSetReady(s)
      PROVE  HoldInv'
  BY <1>6, NamesAssumption, NoPanicStep, FreshTypes DEF DoSourceStaticSetReady, SetReady,
     ConsumeOnHoldRequests
<1>7. CASE DoSourceStaticSetNotReady
  BY <1>7, NamesAssumption, NoPanicStep DEF DoSourceStaticSetNotReady, SetNotReady,
     OnDemandStaticSourceStop
<1>8. ASSUME NEW d \in Describers, DoDescribeHeld(d)
      PROVE  HoldInv'
  BY <1>8, NamesAssumption, NoPanicStep DEF DoDescribeHeld, StartOnDemand,
     OnDemandStaticSourceStart, OnDemandPublisherStart
<1>9. ASSUME NEW r \in Readers, DoAddReaderAccepted(r)
      PROVE  HoldInv'
  BY <1>9, NamesAssumption, NoPanicStep DEF DoAddReaderAccepted, MayAsk, KeepsSource,
     KeepsCommand
<1>10. ASSUME NEW r \in Readers, DoAddReaderHeld(r)
      PROVE  HoldInv'
  BY <1>10, NamesAssumption, NoPanicStep DEF DoAddReaderHeld, MayAsk, StartOnDemand,
     OnDemandStaticSourceStart, OnDemandPublisherStart
<1>11. ASSUME NEW r \in Readers, DoRemoveReader(r)
      PROVE  HoldInv'
  BY <1>11, NamesAssumption, NoPanicStep DEF DoRemoveReader, LeavesSource, LeavesCommand
<1>12. ASSUME NEW r \in Readers, RemoveReaderSkipped(r)
      PROVE  HoldInv'
  BY <1>12, NamesAssumption, NoPanicStep DEF RemoveReaderSkipped
<1>13. ASSUME NEW p \in Publishers, NEW s \in FreshStreams, DoAddPublisher(p, s)
      PROVE  HoldInv'
  BY <1>13, NamesAssumption, NoPanicStep, FreshTypes DEF DoAddPublisher, MayPublish, SetReady,
     ConsumeOnHoldRequests, RemovedReaders, OpenAfterOverride, Overridden
<1>14. ASSUME NEW p \in Publishers, DoRemovePublisher(p)
      PROVE  HoldInv'
  BY <1>14, NamesAssumption, NoPanicStep DEF DoRemovePublisher, SetNotReady, IsSource, TakesDown
<1>15. ASSUME NEW p \in Publishers, RemovePublisherSkipped(p)
      PROVE  HoldInv'
  BY <1>15, NamesAssumption, NoPanicStep DEF RemovePublisherSkipped
<1>16. CASE Terminate
  BY <1>16, NamesAssumption, NoPanicStep DEF Terminate, FailHeld, SetNotReady,
     SourceMustBeClosed
<1>17. CASE
           \/ \E d \in Describers : DoDescribeAnswered(d)
           \/ \E r \in Readers : DoAddReaderRefused(r)
           \/ Close \/ RunInnerTerminated \/ ClosePath \/ Ended \/ UNCHANGED vars
  BY <1>17, NamesAssumption, NoPanicStep DEF DoDescribeAnswered, DoAddReaderRefused, Close,
     RunInnerTerminated, ClosePath, Ended, vars
<1> QED BY <1>1, <1>2, <1>3, <1>4, <1>5, <1>6, <1>7, <1>8, <1>9, <1>10, <1>11, <1>12, <1>13,
           <1>14, <1>15, <1>16, <1>17 DEF Next, ReaderStep, PublisherStep, SourceStep,
           TimerStep, ShutdownStep, DoSourceStaticSetReadyFails, DoAddPublisherFails

LEMMA SharedStep ==
    ASSUME ~InitCanFail, IInv, [Next]_vars
    PROVE  ReadersShareLiveStream'
<1> USE DEF IInv, ReadersShareLiveStream, SessionInv, StreamInv, HeldExactlyOnce, TypeOK,
            CoreTypeOK, ReaderTypeOK, DemandInv, SourceInv, Alive, HasStaticSource,
            HasOnDemandStaticSource, HasOnDemandPublisher, publisherVars, streamVars,
            demandVars, pubDemandVars, holdVars, readerVars, Continue
<1>1. CASE DoOnDemandStaticSourceReadyTimer
  BY <1>1, HeldTypes, NamesAssumption DEF DoOnDemandStaticSourceReadyTimer, FailHeld,
     OnDemandStaticSourceStop
<1>2. CASE DoOnDemandStaticSourceCloseTimer
  BY <1>2, HeldTypes, NamesAssumption DEF DoOnDemandStaticSourceCloseTimer, SetNotReady
<1>3. CASE DoOnDemandPublisherReadyTimer
  BY <1>3, HeldTypes, NamesAssumption DEF DoOnDemandPublisherReadyTimer, FailHeld,
     OnDemandPublisherStop
<1>4. CASE DoOnDemandPublisherCloseTimer
  BY <1>4, HeldTypes, NamesAssumption DEF DoOnDemandPublisherCloseTimer
<1>5. ASSUME NEW c \in Confs, DoReloadConf(c)
      PROVE  ReadersShareLiveStream'
  BY <1>5, HeldTypes, NamesAssumption, ConfFields DEF DoReloadConf, RecorderAfterReload
<1>6. ASSUME NEW s \in FreshStreams, DoSourceStaticSetReady(s)
      PROVE  ReadersShareLiveStream'
  BY <1>6, HeldTypes, NamesAssumption, FreshTypes DEF DoSourceStaticSetReady, SetReady,
     ConsumeOnHoldRequests
<1>7. CASE DoSourceStaticSetNotReady
  BY <1>7, HeldTypes, NamesAssumption DEF DoSourceStaticSetNotReady, SetNotReady,
     OnDemandStaticSourceStop
<1>8. ASSUME NEW d \in Describers, DoDescribeHeld(d)
      PROVE  ReadersShareLiveStream'
  BY <1>8, HeldTypes, NamesAssumption DEF DoDescribeHeld, StartOnDemand,
     OnDemandStaticSourceStart, OnDemandPublisherStart
<1>9. ASSUME NEW r \in Readers, DoAddReaderAccepted(r)
      PROVE  ReadersShareLiveStream'
  BY <1>9, HeldTypes, NamesAssumption DEF DoAddReaderAccepted, MayAsk, KeepsSource, KeepsCommand
<1>10. ASSUME NEW r \in Readers, DoAddReaderHeld(r)
      PROVE  ReadersShareLiveStream'
  BY <1>10, HeldTypes, NamesAssumption DEF DoAddReaderHeld, MayAsk, StartOnDemand,
     OnDemandStaticSourceStart, OnDemandPublisherStart
<1>11. ASSUME NEW r \in Readers, DoRemoveReader(r)
      PROVE  ReadersShareLiveStream'
  BY <1>11, HeldTypes, NamesAssumption DEF DoRemoveReader, LeavesSource, LeavesCommand
<1>12. ASSUME NEW r \in Readers, RemoveReaderSkipped(r)
      PROVE  ReadersShareLiveStream'
  BY <1>12, HeldTypes, NamesAssumption DEF RemoveReaderSkipped
<1>13. ASSUME NEW p \in Publishers, NEW s \in FreshStreams, DoAddPublisher(p, s)
      PROVE  ReadersShareLiveStream'
  <2>1. readers \ RemovedReaders = {} /\ (stream # NoStream => RemovedReaders = readers)
    BY <1>13, NamesAssumption DEF DoAddPublisher, MayPublish, RemovedReaders, Overridden
  <2>2. SUFFICES ASSUME NEW r \in Readers, rdState'[r] = "reading", r \notin closedReaders'
                 PROVE  r \in readers' /\ rdStream'[r] = s
    BY <1>13, FreshTypes DEF DoAddPublisher, SetReady
  <2>3. CASE r \in HeldReaders
    BY <1>13, <2>2, <2>3, HeldTypes DEF DoAddPublisher, ConsumeOnHoldRequests
  <2>4. CASE r \notin HeldReaders
    BY <1>13, <2>1, <2>2, <2>4 DEF DoAddPublisher, ConsumeOnHoldRequests
  <2> QED BY <2>3, <2>4
<1>14. ASSUME NEW p \in Publishers, DoRemovePublisher(p)
      PROVE  ReadersShareLiveStream'
  BY <1>14, HeldTypes, NamesAssumption DEF DoRemovePublisher, SetNotReady, IsSource, TakesDown
<1>15. ASSUME NEW p \in Publishers, RemovePublisherSkipped(p)
      PROVE  ReadersShareLiveStream'
  BY <1>15, HeldTypes, NamesAssumption DEF RemovePublisherSkipped
<1>16. CASE Terminate
  BY <1>16, HeldTypes, NamesAssumption DEF Terminate, FailHeld, SetNotReady, SourceMustBeClosed
<1>17. CASE
           \/ \E d \in Describers : DoDescribeAnswered(d)
           \/ \E r \in Readers : DoAddReaderRefused(r)
           \/ Close \/ RunInnerTerminated \/ ClosePath \/ Ended \/ UNCHANGED vars
  BY <1>17, HeldTypes, NamesAssumption DEF DoDescribeAnswered, DoAddReaderRefused, Close,
     RunInnerTerminated, ClosePath, Ended, vars
<1> QED BY <1>1, <1>2, <1>3, <1>4, <1>5, <1>6, <1>7, <1>8, <1>9, <1>10, <1>11, <1>12, <1>13,
           <1>14, <1>15, <1>16, <1>17 DEF Next, ReaderStep, PublisherStep, SourceStep,
           TimerStep, ShutdownStep, DoSourceStaticSetReadyFails, DoAddPublisherFails

LEMMA PublisherStepInv ==
    ASSUME ~InitCanFail, IInv, [Next]_vars
    PROVE  PublisherIsSource'
<1> USE DEF IInv, PublisherIsSource, SourceInv, DemandInv, TimerInv, TimersFollowDemand, Alive,
            NoPanic, HasStaticSource, HasOnDemandStaticSource, HasOnDemandPublisher, TypeOK,
            CoreTypeOK, publisherVars, streamVars, demandVars, pubDemandVars, holdVars,
            readerVars, Continue
<1>1. CASE DoOnDemandStaticSourceReadyTimer
  BY <1>1, NamesAssumption DEF DoOnDemandStaticSourceReadyTimer, FailHeld,
     OnDemandStaticSourceStop
<1>2. CASE DoOnDemandStaticSourceCloseTimer
  BY <1>2, NamesAssumption DEF DoOnDemandStaticSourceCloseTimer, SetNotReady
<1>3. CASE DoOnDemandPublisherReadyTimer
  BY <1>3, NamesAssumption DEF DoOnDemandPublisherReadyTimer, FailHeld, OnDemandPublisherStop
<1>4. CASE DoOnDemandPublisherCloseTimer
  BY <1>4, NamesAssumption DEF DoOnDemandPublisherCloseTimer
<1>5. ASSUME NEW c \in Confs, DoReloadConf(c)
      PROVE  PublisherIsSource'
  BY <1>5, NamesAssumption, ConfFields DEF DoReloadConf, RecorderAfterReload
<1>6. ASSUME NEW s \in FreshStreams, DoSourceStaticSetReady(s)
      PROVE  PublisherIsSource'
  BY <1>6, NamesAssumption, FreshTypes DEF DoSourceStaticSetReady, SetReady,
     ConsumeOnHoldRequests
<1>7. CASE DoSourceStaticSetNotReady
  BY <1>7, NamesAssumption DEF DoSourceStaticSetNotReady, SetNotReady, OnDemandStaticSourceStop
<1>8. ASSUME NEW d \in Describers, DoDescribeHeld(d)
      PROVE  PublisherIsSource'
  BY <1>8, NamesAssumption DEF DoDescribeHeld, StartOnDemand, OnDemandStaticSourceStart,
     OnDemandPublisherStart
<1>9. ASSUME NEW r \in Readers, DoAddReaderAccepted(r)
      PROVE  PublisherIsSource'
  BY <1>9, NamesAssumption DEF DoAddReaderAccepted, MayAsk, KeepsSource, KeepsCommand
<1>10. ASSUME NEW r \in Readers, DoAddReaderHeld(r)
      PROVE  PublisherIsSource'
  BY <1>10, NamesAssumption DEF DoAddReaderHeld, MayAsk, StartOnDemand,
     OnDemandStaticSourceStart, OnDemandPublisherStart
<1>11. ASSUME NEW r \in Readers, DoRemoveReader(r)
      PROVE  PublisherIsSource'
  BY <1>11, NamesAssumption DEF DoRemoveReader, LeavesSource, LeavesCommand
<1>12. ASSUME NEW r \in Readers, RemoveReaderSkipped(r)
      PROVE  PublisherIsSource'
  BY <1>12, NamesAssumption DEF RemoveReaderSkipped
<1>13. ASSUME NEW p \in Publishers, NEW s \in FreshStreams, DoAddPublisher(p, s)
      PROVE  PublisherIsSource'
  BY <1>13, NamesAssumption, FreshTypes DEF DoAddPublisher, MayPublish, SetReady,
     ConsumeOnHoldRequests, RemovedReaders, OpenAfterOverride, Overridden
<1>14. ASSUME NEW p \in Publishers, DoRemovePublisher(p)
      PROVE  PublisherIsSource'
  BY <1>14, NamesAssumption DEF DoRemovePublisher, SetNotReady, IsSource, TakesDown
<1>15. ASSUME NEW p \in Publishers, RemovePublisherSkipped(p)
      PROVE  PublisherIsSource'
  BY <1>15, NamesAssumption DEF RemovePublisherSkipped
<1>16. CASE Terminate
  BY <1>16, NamesAssumption DEF Terminate, FailHeld, SetNotReady, SourceMustBeClosed
<1>17. CASE
           \/ \E d \in Describers : DoDescribeAnswered(d)
           \/ \E r \in Readers : DoAddReaderRefused(r)
           \/ Close \/ RunInnerTerminated \/ ClosePath \/ Ended \/ UNCHANGED vars
  BY <1>17, NamesAssumption DEF DoDescribeAnswered, DoAddReaderRefused, Close,
     RunInnerTerminated, ClosePath, Ended, vars
<1> QED BY <1>1, <1>2, <1>3, <1>4, <1>5, <1>6, <1>7, <1>8, <1>9, <1>10, <1>11, <1>12, <1>13,
           <1>14, <1>15, <1>16, <1>17 DEF Next, ReaderStep, PublisherStep, SourceStep,
           TimerStep, ShutdownStep, DoSourceStaticSetReadyFails, DoAddPublisherFails

LEMMA RecorderStep ==
    ASSUME ~InitCanFail, IInv, [Next]_vars
    PROVE  RecorderFollowsConf'
<1> USE DEF IInv, RecorderFollowsConf, RecorderOf, TypeOK, StreamTypeOK, publisherVars,
            streamVars, demandVars, pubDemandVars, holdVars, readerVars, Continue
<1>1. CASE DoOnDemandStaticSourceReadyTimer
  BY <1>1, NamesAssumption DEF DoOnDemandStaticSourceReadyTimer, FailHeld,
     OnDemandStaticSourceStop
<1>2. CASE DoOnDemandStaticSourceCloseTimer
  BY <1>2, NamesAssumption DEF DoOnDemandStaticSourceCloseTimer, SetNotReady
<1>3. CASE DoOnDemandPublisherReadyTimer
  BY <1>3, NamesAssumption DEF DoOnDemandPublisherReadyTimer, FailHeld, OnDemandPublisherStop
<1>4. CASE DoOnDemandPublisherCloseTimer
  BY <1>4, NamesAssumption DEF DoOnDemandPublisherCloseTimer
<1>5. ASSUME NEW c \in Confs, DoReloadConf(c)
      PROVE  RecorderFollowsConf'
  BY <1>5, NamesAssumption, ConfFields DEF DoReloadConf, RecorderAfterReload
<1>6. ASSUME NEW s \in FreshStreams, DoSourceStaticSetReady(s)
      PROVE  RecorderFollowsConf'
  BY <1>6, NamesAssumption, FreshTypes DEF DoSourceStaticSetReady, SetReady,
     ConsumeOnHoldRequests
<1>7. CASE DoSourceStaticSetNotReady
  BY <1>7, NamesAssumption DEF DoSourceStaticSetNotReady, SetNotReady, OnDemandStaticSourceStop
<1>8. ASSUME NEW d \in Describers, DoDescribeHeld(d)
      PROVE  RecorderFollowsConf'
  BY <1>8, NamesAssumption DEF DoDescribeHeld, StartOnDemand, OnDemandStaticSourceStart,
     OnDemandPublisherStart
<1>9. ASSUME NEW r \in Readers, DoAddReaderAccepted(r)
      PROVE  RecorderFollowsConf'
  BY <1>9, NamesAssumption DEF DoAddReaderAccepted, MayAsk, KeepsSource, KeepsCommand
<1>10. ASSUME NEW r \in Readers, DoAddReaderHeld(r)
      PROVE  RecorderFollowsConf'
  BY <1>10, NamesAssumption DEF DoAddReaderHeld, MayAsk, StartOnDemand,
     OnDemandStaticSourceStart, OnDemandPublisherStart
<1>11. ASSUME NEW r \in Readers, DoRemoveReader(r)
      PROVE  RecorderFollowsConf'
  BY <1>11, NamesAssumption DEF DoRemoveReader, LeavesSource, LeavesCommand
<1>12. ASSUME NEW r \in Readers, RemoveReaderSkipped(r)
      PROVE  RecorderFollowsConf'
  BY <1>12, NamesAssumption DEF RemoveReaderSkipped
<1>13. ASSUME NEW p \in Publishers, NEW s \in FreshStreams, DoAddPublisher(p, s)
      PROVE  RecorderFollowsConf'
  BY <1>13, NamesAssumption, FreshTypes DEF DoAddPublisher, MayPublish, SetReady,
     ConsumeOnHoldRequests, RemovedReaders, OpenAfterOverride, Overridden
<1>14. ASSUME NEW p \in Publishers, DoRemovePublisher(p)
      PROVE  RecorderFollowsConf'
  BY <1>14, NamesAssumption DEF DoRemovePublisher, SetNotReady, IsSource, TakesDown
<1>15. ASSUME NEW p \in Publishers, RemovePublisherSkipped(p)
      PROVE  RecorderFollowsConf'
  BY <1>15, NamesAssumption DEF RemovePublisherSkipped
<1>16. CASE Terminate
  BY <1>16, NamesAssumption DEF Terminate, FailHeld, SetNotReady, SourceMustBeClosed
<1>17. CASE
           \/ \E d \in Describers : DoDescribeAnswered(d)
           \/ \E r \in Readers : DoAddReaderRefused(r)
           \/ Close \/ RunInnerTerminated \/ ClosePath \/ Ended \/ UNCHANGED vars
  BY <1>17, NamesAssumption DEF DoDescribeAnswered, DoAddReaderRefused, Close,
     RunInnerTerminated, ClosePath, Ended, vars
<1> QED BY <1>1, <1>2, <1>3, <1>4, <1>5, <1>6, <1>7, <1>8, <1>9, <1>10, <1>11, <1>12, <1>13,
           <1>14, <1>15, <1>16, <1>17 DEF Next, ReaderStep, PublisherStep, SourceStep,
           TimerStep, ShutdownStep, DoSourceStaticSetReadyFails, DoAddPublisherFails

LEMMA LiveStep ==
    ASSUME ~InitCanFail, IInv, [Next]_vars
    PROVE  LiveHasSource'
<1> USE DEF IInv, LiveHasSource, TimerInv, TimersFollowDemand, SourceInv, DemandInv, Alive,
            TypeOK, CoreTypeOK, HasStaticSource, HasOnDemandStaticSource, HasOnDemandPublisher,
            publisherVars, streamVars, demandVars, pubDemandVars, holdVars, readerVars, Continue
<1>1. CASE DoOnDemandStaticSourceReadyTimer
  BY <1>1, NamesAssumption DEF DoOnDemandStaticSourceReadyTimer, FailHeld,
     OnDemandStaticSourceStop
<1>2. CASE DoOnDemandStaticSourceCloseTimer
  BY <1>2, NamesAssumption DEF DoOnDemandStaticSourceCloseTimer, SetNotReady
<1>3. CASE DoOnDemandPublisherReadyTimer
  BY <1>3, NamesAssumption DEF DoOnDemandPublisherReadyTimer, FailHeld, OnDemandPublisherStop
<1>4. CASE DoOnDemandPublisherCloseTimer
  BY <1>4, NamesAssumption DEF DoOnDemandPublisherCloseTimer
<1>5. ASSUME NEW c \in Confs, DoReloadConf(c)
      PROVE  LiveHasSource'
  BY <1>5, NamesAssumption, ConfFields DEF DoReloadConf, RecorderAfterReload
<1>6. ASSUME NEW s \in FreshStreams, DoSourceStaticSetReady(s)
      PROVE  LiveHasSource'
  BY <1>6, NamesAssumption, FreshTypes DEF DoSourceStaticSetReady, SetReady,
     ConsumeOnHoldRequests
<1>7. CASE DoSourceStaticSetNotReady
  BY <1>7, NamesAssumption DEF DoSourceStaticSetNotReady, SetNotReady, OnDemandStaticSourceStop
<1>8. ASSUME NEW d \in Describers, DoDescribeHeld(d)
      PROVE  LiveHasSource'
  BY <1>8, NamesAssumption DEF DoDescribeHeld, StartOnDemand, OnDemandStaticSourceStart,
     OnDemandPublisherStart
<1>9. ASSUME NEW r \in Readers, DoAddReaderAccepted(r)
      PROVE  LiveHasSource'
  BY <1>9, NamesAssumption DEF DoAddReaderAccepted, MayAsk, KeepsSource, KeepsCommand
<1>10. ASSUME NEW r \in Readers, DoAddReaderHeld(r)
      PROVE  LiveHasSource'
  BY <1>10, NamesAssumption DEF DoAddReaderHeld, MayAsk, StartOnDemand,
     OnDemandStaticSourceStart, OnDemandPublisherStart
<1>11. ASSUME NEW r \in Readers, DoRemoveReader(r)
      PROVE  LiveHasSource'
  BY <1>11, NamesAssumption DEF DoRemoveReader, LeavesSource, LeavesCommand
<1>12. ASSUME NEW r \in Readers, RemoveReaderSkipped(r)
      PROVE  LiveHasSource'
  BY <1>12, NamesAssumption DEF RemoveReaderSkipped
<1>13. ASSUME NEW p \in Publishers, NEW s \in FreshStreams, DoAddPublisher(p, s)
      PROVE  LiveHasSource'
  BY <1>13, NamesAssumption, FreshTypes DEF DoAddPublisher, MayPublish, SetReady,
     ConsumeOnHoldRequests, RemovedReaders, OpenAfterOverride, Overridden
<1>14. ASSUME NEW p \in Publishers, DoRemovePublisher(p)
      PROVE  LiveHasSource'
  BY <1>14, NamesAssumption DEF DoRemovePublisher, SetNotReady, IsSource, TakesDown
<1>15. ASSUME NEW p \in Publishers, RemovePublisherSkipped(p)
      PROVE  LiveHasSource'
  BY <1>15, NamesAssumption DEF RemovePublisherSkipped
<1>16. CASE Terminate
  BY <1>16, NamesAssumption DEF Terminate, FailHeld, SetNotReady, SourceMustBeClosed
<1>17. CASE
           \/ \E d \in Describers : DoDescribeAnswered(d)
           \/ \E r \in Readers : DoAddReaderRefused(r)
           \/ Close \/ RunInnerTerminated \/ ClosePath \/ Ended \/ UNCHANGED vars
  BY <1>17, NamesAssumption DEF DoDescribeAnswered, DoAddReaderRefused, Close,
     RunInnerTerminated, ClosePath, Ended, vars
<1> QED BY <1>1, <1>2, <1>3, <1>4, <1>5, <1>6, <1>7, <1>8, <1>9, <1>10, <1>11, <1>12, <1>13,
           <1>14, <1>15, <1>16, <1>17 DEF Next, ReaderStep, PublisherStep, SourceStep,
           TimerStep, ShutdownStep, DoSourceStaticSetReadyFails, DoAddPublisherFails

LEMMA UseStep ==
    ASSUME ~InitCanFail, IInv, [Next]_vars
    PROVE  UseInv'
<1> USE DEF IInv, UseInv, ClosingOnlyUnused, StreamInv, DemandInv, TimerInv, TimersFollowDemand,
            SourceInv, Alive, NoPanic, HasStaticSource, HasOnDemandStaticSource,
            HasOnDemandPublisher, TypeOK, CoreTypeOK, DemandTypeOK, OnDemandState,
            publisherVars, streamVars, demandVars, pubDemandVars, holdVars, readerVars, Continue
<1>1. CASE DoOnDemandStaticSourceReadyTimer
  BY <1>1, NamesAssumption, ConfsAssumption DEF DoOnDemandStaticSourceReadyTimer, FailHeld,
     OnDemandStaticSourceStop, StopPanics
<1>2. CASE DoOnDemandStaticSourceCloseTimer
  BY <1>2, NamesAssumption, ConfsAssumption DEF DoOnDemandStaticSourceCloseTimer, SetNotReady,
     NotReadyPanics, StopPanics
<1>3. CASE DoOnDemandPublisherReadyTimer
  BY <1>3, NamesAssumption, ConfsAssumption DEF DoOnDemandPublisherReadyTimer, FailHeld,
     OnDemandPublisherStop
<1>4. CASE DoOnDemandPublisherCloseTimer
  BY <1>4, NamesAssumption, ConfsAssumption DEF DoOnDemandPublisherCloseTimer
<1>5. ASSUME NEW c \in Confs, DoReloadConf(c)
      PROVE  UseInv'
  BY <1>5, NamesAssumption, ConfsAssumption, ConfFields DEF DoReloadConf, RecorderAfterReload
<1>6. ASSUME NEW s \in FreshStreams, DoSourceStaticSetReady(s)
      PROVE  UseInv'
  BY <1>6, NamesAssumption, ConfsAssumption, FreshTypes DEF DoSourceStaticSetReady, SetReady,
     ConsumeOnHoldRequests, ValidConf
<1>7. CASE DoSourceStaticSetNotReady
  BY <1>7, NamesAssumption, ConfsAssumption DEF DoSourceStaticSetNotReady, SetNotReady,
     OnDemandStaticSourceStop, NotReadyPanics
<1>8. ASSUME NEW d \in Describers, DoDescribeHeld(d)
      PROVE  UseInv'
  BY <1>8, NamesAssumption, ConfsAssumption DEF DoDescribeHeld, StartOnDemand,
     OnDemandStaticSourceStart, OnDemandPublisherStart, StartOnDemandPanics, StartPanics
<1>9. ASSUME NEW r \in Readers, DoAddReaderAccepted(r)
      PROVE  UseInv'
  BY <1>9, NamesAssumption, ConfsAssumption DEF DoAddReaderAccepted, MayAsk, KeepsSource,
     KeepsCommand
<1>10. ASSUME NEW r \in Readers, DoAddReaderHeld(r)
      PROVE  UseInv'
  BY <1>10, NamesAssumption, ConfsAssumption DEF DoAddReaderHeld, MayAsk, StartOnDemand,
     OnDemandStaticSourceStart, OnDemandPublisherStart, StartOnDemandPanics, StartPanics
<1>11. ASSUME NEW r \in Readers, DoRemoveReader(r)
      PROVE  UseInv'
  BY <1>11, NamesAssumption, ConfsAssumption DEF DoRemoveReader, LeavesSource, LeavesCommand
<1>12. ASSUME NEW r \in Readers, RemoveReaderSkipped(r)
      PROVE  UseInv'
  BY <1>12, NamesAssumption, ConfsAssumption DEF RemoveReaderSkipped
<1>13. ASSUME NEW p \in Publishers, NEW s \in FreshStreams, DoAddPublisher(p, s)
      PROVE  UseInv'
  <2>1. readers \ RemovedReaders = {} /\ (stream # NoStream => RemovedReaders = readers)
    BY <1>13, NamesAssumption DEF DoAddPublisher, MayPublish, RemovedReaders, Overridden
  <2>2. staticState = "initial" /\ staticState' = staticState /\ phase = "running"
    BY <1>13 DEF DoAddPublisher, MayPublish, demandVars
  <2>3. publisherState' = "closing" => readers' = {}
    BY <1>13, <2>1, ConfsAssumption DEF DoAddPublisher, ConsumeOnHoldRequests
  <2>4. phase' \in {"running", "crashed", "closing"} /\ phase' # "crashed"
    BY <1>13, <2>2, NoPanicStep DEF DoAddPublisher
  <2> QED BY <2>2, <2>3, <2>4
<1>14. ASSUME NEW p \in Publishers, DoRemovePublisher(p)
      PROVE  UseInv'
  BY <1>14, NamesAssumption, ConfsAssumption DEF DoRemovePublisher, SetNotReady, IsSource,
     TakesDown, NotReadyPanics
<1>15. ASSUME NEW p \in Publishers, RemovePublisherSkipped(p)
      PROVE  UseInv'
  BY <1>15, NamesAssumption, ConfsAssumption DEF RemovePublisherSkipped
<1>16. CASE Terminate
  BY <1>16, NamesAssumption, ConfsAssumption DEF Terminate, FailHeld, SetNotReady,
     SourceMustBeClosed, NotReadyPanics, StopPanics
<1>17. CASE
           \/ \E d \in Describers : DoDescribeAnswered(d)
           \/ \E r \in Readers : DoAddReaderRefused(r)
           \/ Close \/ RunInnerTerminated \/ ClosePath \/ Ended \/ UNCHANGED vars
  BY <1>17, NamesAssumption, ConfsAssumption DEF DoDescribeAnswered, DoAddReaderRefused, Close,
     RunInnerTerminated, ClosePath, Ended, vars
<1> QED BY <1>1, <1>2, <1>3, <1>4, <1>5, <1>6, <1>7, <1>8, <1>9, <1>10, <1>11, <1>12, <1>13,
           <1>14, <1>15, <1>16, <1>17 DEF Next, ReaderStep, PublisherStep, SourceStep,
           TimerStep, ShutdownStep, DoSourceStaticSetReadyFails, DoAddPublisherFails

LEMMA EndStep ==
    ASSUME ~InitCanFail, IInv, [Next]_vars
    PROVE  EndInv'
<1> USE DEF IInv, EndInv, DemandInv, SourceInv, Alive, HasStaticSource, HasOnDemandStaticSource,
            HasOnDemandPublisher, TypeOK, CoreTypeOK, publisherVars, streamVars, demandVars,
            pubDemandVars, holdVars, readerVars, Continue
<1>1. CASE DoOnDemandStaticSourceReadyTimer
  BY <1>1, NamesAssumption DEF DoOnDemandStaticSourceReadyTimer, FailHeld,
     OnDemandStaticSourceStop
<1>2. CASE DoOnDemandStaticSourceCloseTimer
  BY <1>2, NamesAssumption DEF DoOnDemandStaticSourceCloseTimer, SetNotReady
<1>3. CASE DoOnDemandPublisherReadyTimer
  BY <1>3, NamesAssumption DEF DoOnDemandPublisherReadyTimer, FailHeld, OnDemandPublisherStop
<1>4. CASE DoOnDemandPublisherCloseTimer
  BY <1>4, NamesAssumption DEF DoOnDemandPublisherCloseTimer
<1>5. ASSUME NEW c \in Confs, DoReloadConf(c)
      PROVE  EndInv'
  BY <1>5, NamesAssumption, ConfFields DEF DoReloadConf, RecorderAfterReload
<1>6. ASSUME NEW s \in FreshStreams, DoSourceStaticSetReady(s)
      PROVE  EndInv'
  BY <1>6, NamesAssumption, FreshTypes DEF DoSourceStaticSetReady, SetReady,
     ConsumeOnHoldRequests
<1>7. CASE DoSourceStaticSetNotReady
  BY <1>7, NamesAssumption DEF DoSourceStaticSetNotReady, SetNotReady, OnDemandStaticSourceStop
<1>8. ASSUME NEW d \in Describers, DoDescribeHeld(d)
      PROVE  EndInv'
  BY <1>8, NamesAssumption DEF DoDescribeHeld, StartOnDemand, OnDemandStaticSourceStart,
     OnDemandPublisherStart
<1>9. ASSUME NEW r \in Readers, DoAddReaderAccepted(r)
      PROVE  EndInv'
  BY <1>9, NamesAssumption DEF DoAddReaderAccepted, MayAsk, KeepsSource, KeepsCommand
<1>10. ASSUME NEW r \in Readers, DoAddReaderHeld(r)
      PROVE  EndInv'
  BY <1>10, NamesAssumption DEF DoAddReaderHeld, MayAsk, StartOnDemand,
     OnDemandStaticSourceStart, OnDemandPublisherStart
<1>11. ASSUME NEW r \in Readers, DoRemoveReader(r)
      PROVE  EndInv'
  BY <1>11, NamesAssumption DEF DoRemoveReader, LeavesSource, LeavesCommand
<1>12. ASSUME NEW r \in Readers, RemoveReaderSkipped(r)
      PROVE  EndInv'
  BY <1>12, NamesAssumption DEF RemoveReaderSkipped
<1>13. ASSUME NEW p \in Publishers, NEW s \in FreshStreams, DoAddPublisher(p, s)
      PROVE  EndInv'
  BY <1>13, NamesAssumption, FreshTypes DEF DoAddPublisher, MayPublish, SetReady,
     ConsumeOnHoldRequests, RemovedReaders, OpenAfterOverride, Overridden
<1>14. ASSUME NEW p \in Publishers, DoRemovePublisher(p)
      PROVE  EndInv'
  BY <1>14, NamesAssumption DEF DoRemovePublisher, SetNotReady, IsSource, TakesDown
<1>15. ASSUME NEW p \in Publishers, RemovePublisherSkipped(p)
      PROVE  EndInv'
  BY <1>15, NamesAssumption DEF RemovePublisherSkipped
<1>16. CASE Terminate
  BY <1>16, NamesAssumption DEF Terminate, FailHeld, SetNotReady, SourceMustBeClosed
<1>17. CASE
           \/ \E d \in Describers : DoDescribeAnswered(d)
           \/ \E r \in Readers : DoAddReaderRefused(r)
           \/ Close \/ RunInnerTerminated \/ ClosePath \/ Ended \/ UNCHANGED vars
  BY <1>17, NamesAssumption DEF DoDescribeAnswered, DoAddReaderRefused, Close,
     RunInnerTerminated, ClosePath, Ended, vars
<1> QED BY <1>1, <1>2, <1>3, <1>4, <1>5, <1>6, <1>7, <1>8, <1>9, <1>10, <1>11, <1>12, <1>13,
           <1>14, <1>15, <1>16, <1>17 DEF Next, ReaderStep, PublisherStep, SourceStep,
           TimerStep, ShutdownStep, DoSourceStaticSetReadyFails, DoAddPublisherFails


-----------------------------------------------------------------------------
LEMMA InvInit == Init => IInv
<1> SUFFICES ASSUME Init PROVE IInv
  OBVIOUS
<1>1. TypeOK
  BY TypeInit
<1>2. conf \in PathConf /\ ValidConf(conf)
  BY ConfsAssumption DEF Init
<1>3. HeldExactlyOnce /\ HeldReaders = {} /\ HeldDescribers = {} /\ ~SomeoneOnHold
  BY EmptyHeld DEF Init, HeldExactlyOnce, HeldReaders, HeldDescribers, SomeoneOnHold
<1>4. TimerInv /\ NoPanic
  BY DEF Init, TimerInv, TimersFollowDemand, NoPanic
<1>5. SourceInv
  BY <1>2, NamesAssumption
     DEF Init, SourceInv, HasStaticSource, PathConf, SourceKind
<1>6. DemandInv
  BY <1>2 DEF Init, DemandInv, HasStaticSource, HasOnDemandStaticSource, PathConf
<1>7. StreamInv /\ SessionInv /\ HoldInv
  BY <1>3, NamesAssumption DEF Init, StreamInv, HookFollowsStream, SessionInv, HoldInv
<1>8. ReadersShareLiveStream /\ PublisherIsSource /\ RecorderFollowsConf
  BY DEF Init, ReadersShareLiveStream, PublisherIsSource, RecorderFollowsConf
<1>9. LiveHasSource /\ UseInv /\ EndInv
  BY DEF Init, LiveHasSource, UseInv, ClosingOnlyUnused, Alive, EndInv
<1> QED BY <1>1, <1>3, <1>4, <1>5, <1>6, <1>7, <1>8, <1>9 DEF IInv

LEMMA InvStep ==
    ASSUME ~InitCanFail, IInv, [Next]_vars
    PROVE  IInv'
<1>1. TypeOK'
  BY CoreTypeStep, StreamTypeStep, DemandTypeStep, HoldTypeStep, ReaderTypeStep DEF TypeOK, IInv
<1>2. HeldExactlyOnce' /\ TimerInv'
  BY HeldStep, TimerInvStep DEF IInv
<1> QED BY <1>1, <1>2, NoPanicStep, SourceInvStep, DemandStep, StreamStep, SessionStep, HoldStep,
           SharedStep, PublisherStepInv, RecorderStep, LiveStep, UseStep, EndStep DEF IInv

LEMMA InvCorrect == ASSUME ~InitCanFail PROVE Spec => []IInv
<1>1. IInv /\ [Next]_vars => IInv'
  BY InvStep
<1> QED BY InvInit, <1>1, PTL DEF Spec

-----------------------------------------------------------------------------
(* Handler.Start and Handler.Stop are called in turns and no nil hook is   *)
(* called: no step of a path panics.                                       *)
THEOREM NoPanicCorrect == ASSUME ~InitCanFail PROVE Spec => []NoPanic
<1>1. IInv => NoPanic
  BY DEF IInv
<1> QED BY InvCorrect, <1>1, PTL

(* A reader that was not closed reads the stream that is live.             *)
THEOREM SharedStreamCorrect == ASSUME ~InitCanFail PROVE Spec => []ReadersShareLiveStream
<1>1. IInv => ReadersShareLiveStream
  BY DEF IInv
<1> QED BY InvCorrect, <1>1, PTL

(* A publisher that was not closed is the source of the live stream: two   *)
(* publishers never feed a path, whatever overrides and late removals do.  *)
THEOREM PublisherCorrect == ASSUME ~InitCanFail PROVE Spec => []PublisherIsSource
<1>1. IInv => PublisherIsSource
  BY DEF IInv
<1> QED BY InvCorrect, <1>1, PTL

(* The recorder reads the current stream with the current settings, and    *)
(* runs exactly when recording is on and there is a stream.                *)
THEOREM RecorderCorrect == ASSUME ~InitCanFail PROVE Spec => []RecorderFollowsConf
<1>1. IInv => RecorderFollowsConf
  BY DEF IInv
<1> QED BY InvCorrect, <1>1, PTL

(* One stream is open at a time, with its not-ready hook pending.          *)
THEOREM HookCorrect == ASSUME ~InitCanFail PROVE Spec => []HookFollowsStream
<1>1. IInv => HookFollowsStream
  BY DEF IInv, StreamInv
<1> QED BY InvCorrect, <1>1, PTL

(* A stream has a publisher or a ready instance of the source behind it.   *)
THEOREM LiveCorrect == ASSUME ~InitCanFail PROVE Spec => []LiveHasSource
<1>1. IInv => LiveHasSource
  BY DEF IInv
<1> QED BY InvCorrect, <1>1, PTL

(* Nobody is kept waiting while there is a stream.                         *)
THEOREM NoHoldCorrect == ASSUME ~InitCanFail PROVE Spec => []NoHoldWhileLive
<1>1. IInv => NoHoldWhileLive
  BY DEF IInv, HoldInv, NoHoldWhileLive
<1> QED BY InvCorrect, <1>1, PTL

(* A wait for an on-demand static source is bounded by an armed timer.     *)
THEOREM DeadlineCorrect == ASSUME ~InitCanFail PROVE Spec => []StaticHoldHasDeadline
<1>1. IInv => StaticHoldHasDeadline
  <2> SUFFICES ASSUME IInv, phase = "running", HasOnDemandStaticSource(conf), SomeoneOnHold
               PROVE  staticState = "waitingReady" /\ staticReadyTimer
    BY DEF StaticHoldHasDeadline
  <2>1. Alive /\ stream = NoStream /\ staticState # "initial"
    BY DEF IInv, HoldInv, Alive
  <2>2. staticState \in OnDemandState
    BY DEF IInv, TypeOK, DemandTypeOK
  <2>3. staticState \notin {"ready", "closing"}
    BY <2>1 DEF IInv, DemandInv
  <2> QED BY <2>1, <2>2, <2>3 DEF IInv, TimerInv, TimersFollowDemand, OnDemandState
<1> QED BY InvCorrect, <1>1, PTL

(* Only an on-demand source or command without readers is about to be      *)
(* stopped, and one that is ready otherwise has a reader.                  *)
THEOREM ClosingCorrect == ASSUME ~InitCanFail PROVE Spec => []ClosingOnlyUnused
<1>1. IInv => ClosingOnlyUnused
  BY DEF IInv, UseInv
<1> QED BY InvCorrect, <1>1, PTL

(* A destroyed path leaves nothing behind.                                 *)
THEOREM CleanEndCorrect == ASSUME ~InitCanFail PROVE Spec => []CleanEnd
<1>1. IInv => CleanEnd
  <2> SUFFICES ASSUME IInv, phase = "destroyed"
               PROVE  CleanEnd
    BY DEF CleanEnd
  <2>1. stream = NoStream /\ handler = "stopped" /\ ~onUnDemandHook
    BY DEF IInv, EndInv
  <2>2. ~SomeoneOnHold
    BY DEF IInv, HoldInv, Alive
  <2>3. openStreams = {} /\ recorder = NoRecorder /\ onNotReadyHook # "armed"
    BY <2>1 DEF IInv, StreamInv, HookFollowsStream, RecorderFollowsConf
  <2>4. \A r \in Readers : rdState[r] = "reading" => r \in closedReaders
    BY <2>1 DEF IInv, ReadersShareLiveStream
  <2>5. \A p \in Publishers : pubState[p] = "publishing" => p \in closedPublishers
    BY <2>1 DEF IInv, PublisherIsSource
  <2> QED BY <2>1, <2>2, <2>3, <2>4, <2>5 DEF CleanEnd
<1> QED BY InvCorrect, <1>1, PTL

(* The stream, its hook, its recorder and its source come and go together. *)
THEOREM WholeStreamCorrect == ASSUME ~InitCanFail PROVE Spec => []StreamIsWhole
<1>1. HookFollowsStream /\ RecorderFollowsConf /\ LiveHasSource => StreamIsWhole
  BY DEF StreamIsWhole
<1> QED BY HookCorrect, RecorderCorrect, LiveCorrect, <1>1, PTL

(* A request is on hold for a reason, and not for ever.                    *)
THEOREM HoldCorrect == ASSUME ~InitCanFail PROVE Spec => []HoldIsJustified
<1>1. NoHoldWhileLive /\ StaticHoldHasDeadline => HoldIsJustified
  BY DEF HoldIsJustified
<1> QED BY NoHoldCorrect, DeadlineCorrect, <1>1, PTL

-----------------------------------------------------------------------------
(* The steps of a path.                                                    *)

ClosesWhenUnused ==
    phase = "running" /\ ~ShouldClose /\ ShouldClose' /\ conf' = conf => phase' = "closing"

LEMMA UnusedStep ==
    ASSUME ~InitCanFail, IInv, IInv', [Next]_vars
    PROVE  ClosesWhenUnused
<1> USE DEF ClosesWhenUnused, ShouldClose, SourceInv, StreamInv, NoPanic, IInv, DemandInv,
            Alive, HasStaticSource, HasOnDemandStaticSource, HasOnDemandPublisher, TypeOK,
            CoreTypeOK, publisherVars, streamVars, demandVars, pubDemandVars, holdVars,
            readerVars, Continue
<1>1. CASE DoOnDemandStaticSourceReadyTimer
  BY <1>1, NamesAssumption DEF DoOnDemandStaticSourceReadyTimer, FailHeld,
     OnDemandStaticSourceStop
<1>2. CASE DoOnDemandStaticSourceCloseTimer
  BY <1>2, NamesAssumption DEF DoOnDemandStaticSourceCloseTimer, SetNotReady
<1>3. CASE DoOnDemandPublisherReadyTimer
  BY <1>3, NamesAssumption DEF DoOnDemandPublisherReadyTimer, FailHeld, OnDemandPublisherStop
<1>4. CASE DoOnDemandPublisherCloseTimer
  BY <1>4, NamesAssumption DEF DoOnDemandPublisherCloseTimer
<1>5. ASSUME NEW c \in Confs, DoReloadConf(c)
      PROVE  ClosesWhenUnused
  BY <1>5, NamesAssumption DEF DoReloadConf, RecorderAfterReload
<1>6. ASSUME NEW s \in FreshStreams, DoSourceStaticSetReady(s)
      PROVE  ClosesWhenUnused
  BY <1>6, NamesAssumption, FreshTypes DEF DoSourceStaticSetReady, SetReady,
     ConsumeOnHoldRequests
<1>7. CASE DoSourceStaticSetNotReady
  BY <1>7, NamesAssumption DEF DoSourceStaticSetNotReady, SetNotReady, OnDemandStaticSourceStop
<1>8. ASSUME NEW d \in Describers, DoDescribeHeld(d)
      PROVE  ClosesWhenUnused
  BY <1>8, NamesAssumption DEF DoDescribeHeld, StartOnDemand, OnDemandStaticSourceStart,
     OnDemandPublisherStart
<1>9. ASSUME NEW r \in Readers, DoAddReaderAccepted(r)
      PROVE  ClosesWhenUnused
  BY <1>9, NamesAssumption DEF DoAddReaderAccepted, MayAsk, KeepsSource, KeepsCommand
<1>10. ASSUME NEW r \in Readers, DoAddReaderHeld(r)
      PROVE  ClosesWhenUnused
  BY <1>10, NamesAssumption DEF DoAddReaderHeld, MayAsk, StartOnDemand,
     OnDemandStaticSourceStart, OnDemandPublisherStart
<1>11. ASSUME NEW r \in Readers, DoRemoveReader(r)
      PROVE  ClosesWhenUnused
  BY <1>11, NamesAssumption DEF DoRemoveReader, LeavesSource, LeavesCommand
<1>12. ASSUME NEW r \in Readers, RemoveReaderSkipped(r)
      PROVE  ClosesWhenUnused
  BY <1>12, NamesAssumption DEF RemoveReaderSkipped
<1>13. ASSUME NEW p \in Publishers, NEW s \in FreshStreams, DoAddPublisher(p, s)
      PROVE  ClosesWhenUnused
  BY <1>13, NamesAssumption, FreshTypes DEF DoAddPublisher, MayPublish, SetReady,
     ConsumeOnHoldRequests, RemovedReaders, OpenAfterOverride, Overridden
<1>14. ASSUME NEW p \in Publishers, DoRemovePublisher(p)
      PROVE  ClosesWhenUnused
  BY <1>14, NamesAssumption DEF DoRemovePublisher, SetNotReady, IsSource, TakesDown
<1>15. ASSUME NEW p \in Publishers, RemovePublisherSkipped(p)
      PROVE  ClosesWhenUnused
  BY <1>15, NamesAssumption DEF RemovePublisherSkipped
<1>16. CASE Terminate
  BY <1>16, NamesAssumption DEF Terminate, FailHeld, SetNotReady, SourceMustBeClosed
<1>17. CASE
           \/ \E d \in Describers : DoDescribeAnswered(d)
           \/ \E r \in Readers : DoAddReaderRefused(r)
           \/ Close \/ RunInnerTerminated \/ ClosePath \/ Ended \/ UNCHANGED vars
  BY <1>17, NamesAssumption DEF DoDescribeAnswered, DoAddReaderRefused, Close,
     RunInnerTerminated, ClosePath, Ended, vars
<1> QED BY <1>1, <1>2, <1>3, <1>4, <1>5, <1>6, <1>7, <1>8, <1>9, <1>10, <1>11, <1>12, <1>13,
           <1>14, <1>15, <1>16, <1>17 DEF Next, ReaderStep, PublisherStep, SourceStep,
           TimerStep, ShutdownStep, DoSourceStaticSetReadyFails, DoAddPublisherFails

(* The step that leaves a path of a regexp configuration unused ends it,   *)
(* although some handlers do not check: in those the path stays in use.    *)
THEOREM UnusedPathClosesCorrect == ASSUME ~InitCanFail PROVE Spec => UnusedPathCloses
<1>1. IInv /\ IInv' /\ [Next]_vars => [ClosesWhenUnused]_vars
  BY UnusedStep
<1>2. [][ClosesWhenUnused]_vars => UnusedPathCloses
  BY PTL DEF ClosesWhenUnused, UnusedPathCloses
<1> QED BY InvCorrect, <1>1, <1>2, PTL DEF Spec

-----------------------------------------------------------------------------
(* Refinement.  A reader watches the live stream or nothing; while the     *)
(* stream stays, one reader at most comes or goes; when it is replaced,    *)
(* only readers that watched nothing are let in.                           *)

LEMMA WatchingValues ==
    ASSUME IInv, NEW r \in Readers
    PROVE  Watching[r] \in {NoStream, stream}
BY DEF IInv, ReadersShareLiveStream, Watching

SameWatchers == \A r \in Readers : Watching'[r] = Watching[r]
OneMoves == \E r \in Readers : \A q \in Readers \ {r} : Watching'[q] = Watching[q]
NewcomersOnly == \A r \in Readers : Watching'[r] # NoStream => Watching[r] = NoStream

KeepsOrReplaces ==
    stream # NoStream /\ stream' # NoStream =>
        \/ stream' = stream /\ (SameWatchers \/ OneMoves)
        \/ stream' # stream /\ NewcomersOnly

LEMMA WatchStep ==
    ASSUME ~InitCanFail, IInv, [Next]_vars
    PROVE  KeepsOrReplaces
<1> USE DEF KeepsOrReplaces, SameWatchers, NewcomersOnly, Watching, IInv, HoldInv,
            SomeoneOnHold, HeldReaders, HeldExactlyOnce, SourceInv, DemandInv, Alive,
            HasStaticSource, HasOnDemandStaticSource, HasOnDemandPublisher,
            ReadersShareLiveStream, TypeOK, CoreTypeOK, publisherVars, streamVars, demandVars,
            pubDemandVars, holdVars, readerVars, Continue
<1>1. CASE DoOnDemandStaticSourceReadyTimer
  BY <1>1, NamesAssumption, EmptyHeld DEF DoOnDemandStaticSourceReadyTimer, FailHeld,
     OnDemandStaticSourceStop
<1>2. CASE DoOnDemandStaticSourceCloseTimer
  BY <1>2, NamesAssumption DEF DoOnDemandStaticSourceCloseTimer, SetNotReady
<1>3. CASE DoOnDemandPublisherReadyTimer
  BY <1>3, NamesAssumption, EmptyHeld DEF DoOnDemandPublisherReadyTimer, FailHeld,
     OnDemandPublisherStop
<1>4. CASE DoOnDemandPublisherCloseTimer
  BY <1>4, NamesAssumption DEF DoOnDemandPublisherCloseTimer
<1>5. ASSUME NEW c \in Confs, DoReloadConf(c)
      PROVE  KeepsOrReplaces
  BY <1>5, NamesAssumption DEF DoReloadConf, RecorderAfterReload
<1>6. ASSUME NEW s \in FreshStreams, DoSourceStaticSetReady(s)
      PROVE  KeepsOrReplaces
  BY <1>6, NamesAssumption, FreshTypes DEF DoSourceStaticSetReady, SetReady,
     ConsumeOnHoldRequests
<1>7. CASE DoSourceStaticSetNotReady
  BY <1>7, NamesAssumption DEF DoSourceStaticSetNotReady, SetNotReady, OnDemandStaticSourceStop
<1>8. ASSUME NEW d \in Describers, DoDescribeHeld(d)
      PROVE  KeepsOrReplaces
  BY <1>8, NamesAssumption DEF DoDescribeHeld, StartOnDemand, OnDemandStaticSourceStart,
     OnDemandPublisherStart
<1>9. ASSUME NEW r \in Readers, DoAddReaderAccepted(r)
      PROVE  KeepsOrReplaces
  BY <1>9, NamesAssumption DEF DoAddReaderAccepted, MayAsk, KeepsSource, KeepsCommand, OneMoves
<1>10. ASSUME NEW r \in Readers, DoAddReaderHeld(r)
      PROVE  KeepsOrReplaces
  BY <1>10, NamesAssumption DEF DoAddReaderHeld, MayAsk, StartOnDemand,
     OnDemandStaticSourceStart, OnDemandPublisherStart
<1>11. ASSUME NEW r \in Readers, DoRemoveReader(r)
      PROVE  KeepsOrReplaces
  BY <1>11, NamesAssumption DEF DoRemoveReader, LeavesSource, LeavesCommand, OneMoves
<1>12. ASSUME NEW r \in Readers, RemoveReaderSkipped(r)
      PROVE  KeepsOrReplaces
  BY <1>12, NamesAssumption DEF RemoveReaderSkipped, OneMoves
<1>13. ASSUME NEW p \in Publishers, NEW s \in FreshStreams, DoAddPublisher(p, s)
      PROVE  KeepsOrReplaces
  BY <1>13, NamesAssumption, FreshTypes DEF DoAddPublisher, MayPublish, SetReady,
     ConsumeOnHoldRequests, RemovedReaders, OpenAfterOverride, Overridden
<1>14. ASSUME NEW p \in Publishers, DoRemovePublisher(p)
      PROVE  KeepsOrReplaces
  BY <1>14, NamesAssumption DEF DoRemovePublisher, SetNotReady, IsSource, TakesDown
<1>15. ASSUME NEW p \in Publishers, RemovePublisherSkipped(p)
      PROVE  KeepsOrReplaces
  BY <1>15, NamesAssumption DEF RemovePublisherSkipped
<1>16. CASE Terminate
  BY <1>16, NamesAssumption DEF Terminate, FailHeld, SetNotReady, SourceMustBeClosed
<1>17. CASE
           \/ \E d \in Describers : DoDescribeAnswered(d)
           \/ \E r \in Readers : DoAddReaderRefused(r)
           \/ Close \/ RunInnerTerminated \/ ClosePath \/ Ended \/ UNCHANGED vars
  BY <1>17, NamesAssumption DEF DoDescribeAnswered, DoAddReaderRefused, Close,
     RunInnerTerminated, ClosePath, Ended, vars
<1> QED BY <1>1, <1>2, <1>3, <1>4, <1>5, <1>6, <1>7, <1>8, <1>9, <1>10, <1>11, <1>12, <1>13,
           <1>14, <1>15, <1>16, <1>17 DEF Next, ReaderStep, PublisherStep, SourceStep,
           TimerStep, ShutdownStep, DoSourceStaticSetReadyFails, DoAddPublisherFails

LEMMA BrokerStep ==
    ASSUME ~InitCanFail, IInv, IInv', [Next]_vars
    PROVE  Broker!BrokerNext \/ UNCHANGED <<stream, Watching>>
<1>1. /\ Watching = [r \in Readers |-> Watching[r]]
      /\ Watching' = [r \in Readers |-> Watching'[r]]
  BY DEF Watching
<1>2. \A r \in Readers : Watching[r] \in {NoStream, stream}
  BY WatchingValues
<1>3. \A r \in Readers : Watching'[r] \in {NoStream, stream'}
  BY DEF IInv, ReadersShareLiveStream, Watching
<1>4. stream \in Streams \cup {NoStream} /\ stream' \in Streams \cup {NoStream}
  BY DEF IInv, TypeOK, StreamTypeOK
<1>5. CASE stream' = NoStream /\ stream = NoStream
  <2>1. \A r \in Readers : Watching'[r] = Watching[r]
    BY <1>2, <1>3, <1>5
  <2>2. Watching' = Watching
    BY <1>1, <2>1
  <2> QED BY <1>5, <2>2
<1>6. CASE stream' = NoStream /\ stream # NoStream
  <2>1. Watching' = [r \in Readers |-> NoStream]
    BY <1>1, <1>3, <1>6
  <2> QED BY <1>6, <2>1 DEF Broker!BrokerNext, Broker!GoDark
<1>7. CASE stream' # NoStream /\ stream' # stream
  <2> DEFINE admitted == {r \in Readers : Watching'[r] # NoStream}
  <2>1. \A r \in admitted : Watching[r] = NoStream
    <3>1. CASE stream = NoStream
      BY <1>2, <3>1
    <3>2. CASE stream # NoStream
      BY <1>7, <3>2, WatchStep DEF KeepsOrReplaces, NewcomersOnly
    <3> QED BY <3>1, <3>2
  <2>2. Watching' = [r \in Readers |-> IF r \in admitted THEN stream' ELSE NoStream]
    <3>1. \A r \in Readers : Watching'[r] = IF r \in admitted THEN stream' ELSE NoStream
      BY <1>3
    <3> QED BY <1>1, <3>1
  <2>3. Broker!GoLive(stream', admitted)
    BY <1>7, <2>1, <2>2 DEF Broker!GoLive
  <2> QED BY <1>4, <1>7, <2>3 DEF Broker!BrokerNext
<1>8. CASE stream' = stream /\ stream # NoStream
  <2>1. CASE SameWatchers
    BY <1>1, <1>8, <2>1 DEF SameWatchers
  <2>2. CASE OneMoves
    <3>1. PICK r \in Readers : \A q \in Readers \ {r} : Watching'[q] = Watching[q]
      BY <2>2 DEF OneMoves
    <3>2. Watching' = [Watching EXCEPT ![r] = Watching'[r]]
      BY <1>1, <3>1
    <3>3. Watching[r] \in {NoStream, stream} /\ Watching'[r] \in {NoStream, stream}
      BY <1>2, <1>3, <1>8
    <3>4. Watching'[r] = Watching[r] => Watching' = Watching
      BY <1>1, <3>2
    <3> QED BY <1>8, <3>2, <3>3, <3>4
            DEF Broker!BrokerNext, Broker!Join, Broker!Leave
  <2> QED BY <1>8, <2>1, <2>2, WatchStep DEF KeepsOrReplaces
<1> QED BY <1>4, <1>5, <1>6, <1>7, <1>8

(* A path implements the broker: one live stream at most, readers are      *)
(* given the live stream and dropped before it is replaced.                *)
THEOREM BrokerCorrect == ASSUME ~InitCanFail PROVE Spec => ImplementsBroker
<1>1. Init => Broker!BrokerInit
  BY DEF Init, Broker!BrokerInit, Watching
<1>2. IInv /\ IInv' /\ [Next]_vars => [Broker!BrokerNext]_(Broker!brokerVars)
  BY BrokerStep DEF Broker!brokerVars
<1> QED BY InvCorrect, <1>1, <1>2, PTL DEF Spec, ImplementsBroker, Broker!BrokerSpec

=============================================================================
