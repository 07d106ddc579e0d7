---------------------------- MODULE MCStaticSource ----------------------------
(* Small instances of StaticSource: two settings to switch between.        *)
EXTENDS StaticSource

CONSTANTS a, b

NetworkConfs ==
    {[sourceOnDemand |-> od, kind |-> k, setting |-> s] : od \in BOOLEAN, k \in Network, s \in {a, b}}

OnDemandConfs(kind) ==
    {[sourceOnDemand |-> TRUE, kind |-> kind, setting |-> s] : s \in {a, b}}

CameraConfs == OnDemandConfs("camera")
SecondaryConfs == OnDemandConfs("secondary")

AllConfs == NetworkConfs \cup CameraConfs \cup SecondaryConfs

=============================================================================
