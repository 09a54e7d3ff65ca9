-------------------------------- MODULE Fleet --------------------------------
(* What serves requests with sequences and pages: the server runtime of one   *)
(* process, and the leases, placements and multi-GPU batches of a cluster.    *)
(* The code has the two know nothing of each other, so a behaviour is of one  *)
(* of them, its side, and the other stays where it starts.                    *)
EXTENDS ServerRuntime, Cluster

VARIABLE side

FleetInit ==
  /\ Init /\ ClusterInit
  /\ side \in {"server", "cluster"}
  /\ side = "server" => part = "leases"

FleetNext ==
  /\ UNCHANGED side
  /\ \/ side = "server" /\ Next /\ UNCHANGED clusterVars
     \/ side = "cluster" /\ ClusterNext /\ UNCHANGED vars

FleetSpec == FleetInit /\ [][FleetNext]_<<side, vars, clusterVars>>
=============================================================================
