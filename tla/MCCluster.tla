----------------------------- MODULE MCCluster -----------------------------
(***************************************************************************)
(* Values for the constants of Cluster that a configuration cannot write.  *)
(***************************************************************************)
EXTENDS Cluster

\* One name with two sets of parameters.
OneName == [name : {"a"}, params : {1, 2}]

\* Two names, the parameters alike.
TwoNames == [name : {"a", "b"}, params : {1}]

\* Two names, one of them with two sets of parameters.
NamesAndParams == [name : {"a", "b"}, params : {1}] \cup [name : {"a"}, params : {2}]

=============================================================================
