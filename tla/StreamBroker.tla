---------------------------- MODULE StreamBroker ----------------------------
(***************************************************************************)
(* What a path promises to those who read it, without saying how: there    *)
(* is at most one live stream, a reader is given the live stream or        *)
(* nothing, and the stream of a reader is never replaced under it: it is   *)
(* taken away first.  Path implements this module.                         *)
(***************************************************************************)
CONSTANTS Readers, Streams, NoStream

VARIABLES
    live,     \* the live stream, or NoStream
    watching  \* what each reader is watching

brokerVars == <<live, watching>>

BrokerTypeOK ==
    /\ live \in Streams \cup {NoStream}
    /\ watching \in [Readers -> Streams \cup {NoStream}]

BrokerInit ==
    /\ live = NoStream
    /\ watching = [r \in Readers |-> NoStream]

(* A new stream goes live; whoever watched another one is dropped, and the *)
(* readers in `admitted` are let in.                                       *)
GoLive(s, admitted) ==
    /\ s # live
    /\ live' = s
    /\ watching' = [r \in Readers |-> IF r \in admitted THEN s ELSE NoStream]
    /\ \A r \in admitted : watching[r] = NoStream

(* The stream ends and every reader is dropped. *)
GoDark ==
    /\ live # NoStream
    /\ live' = NoStream
    /\ watching' = [r \in Readers |-> NoStream]

Join(r) ==
    /\ live # NoStream /\ watching[r] = NoStream
    /\ watching' = [watching EXCEPT ![r] = live]
    /\ UNCHANGED live

Leave(r) ==
    /\ watching[r] # NoStream
    /\ watching' = [watching EXCEPT ![r] = NoStream]
    /\ UNCHANGED live

BrokerNext ==
    \/ \E s \in Streams, admitted \in SUBSET Readers : GoLive(s, admitted)
    \/ GoDark
    \/ \E r \in Readers : Join(r) \/ Leave(r)

BrokerSpec == BrokerInit /\ [][BrokerNext]_brokerVars

=============================================================================
