-------------------------------- MODULE MCCore -------------------------------
(* The supervisor on small instances: every single field is edited, and    *)
(* every pair of fields one after the other.                               *)
EXTENDS Core
=============================================================================
