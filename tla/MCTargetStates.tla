--------------------------- MODULE MCTargetStates ---------------------------
(* TargetStates on one mirror group whose two targets belong to different  *)
(* servers.                                                                *)
EXTENDS TargetStates

CONSTANTS t1, t2, g1

MCTargets == {t1, t2}
MCGroups  == {g1}
MCFirst   == [g \in MCGroups |-> t1]
MCSecond  == [g \in MCGroups |-> t2]

\* Each target has a server of its own.
TwoServers == {{t1}, {t2}}
=============================================================================
