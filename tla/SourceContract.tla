---------------------------- MODULE SourceContract ----------------------------
(***************************************************************************)
(* What a path may expect of its static source: it runs only between Start *)
(* and Stop, becomes ready only while it runs, and does not become ready   *)
(* twice without becoming not ready between.  Path takes this for granted; *)
(* StaticSource implements it.                                             *)
(***************************************************************************)
VARIABLE source   \* "stopped", "starting" or "ready"

ContractInit == source \in {"stopped", "starting"}

Start == source = "stopped" /\ source' = "starting"
BecomeReady == source = "starting" /\ source' = "ready"
BecomeNotReady == source = "ready" /\ source' = "starting"
Stop == source # "stopped" /\ source' = "stopped"

ContractSpec == ContractInit /\ [][Start \/ BecomeReady \/ BecomeNotReady \/ Stop]_source

=============================================================================
