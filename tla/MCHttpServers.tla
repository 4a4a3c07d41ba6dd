--------------------------- MODULE MCHttpServers ---------------------------
(* Instances of HttpServers.                                                *)
EXTENDS HttpServers

CONSTANTS k1, k2

MCClients == {k1, k2}
MCSilent  == {k2}
MCRequest == [k \in MCClients |-> IF k = k1 THEN "/" ELSE "/api/time"]
=============================================================================
