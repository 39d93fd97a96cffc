---------------------------- MODULE MCConnector ----------------------------
(***************************************************************************)
(* Values for the constants of Connector that a configuration cannot       *)
(* write.                                                                  *)
(***************************************************************************)
EXTENDS Connector

\* Two InitBundle workers.
Parallel == [bundle1 |-> "InitBundle", bundle2 |-> "InitBundle"]

\* Two Cluster workers.
Clusters == [cluster1 |-> "Cluster", cluster2 |-> "Cluster"]

\* Two workers for either controller.
Four == [cluster1 |-> "Cluster", cluster2 |-> "Cluster",
         bundle1 |-> "InitBundle", bundle2 |-> "InitBundle"]

ParallelWorkers == DOMAIN Parallel
ClusterWorkers == DOMAIN Clusters
FourWorkers == DOMAIN Four

=============================================================================
