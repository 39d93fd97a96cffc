-------------------------- MODULE MCClusterMapping --------------------------
(***************************************************************************)
(* Values for the constants of ClusterMapping that a configuration cannot  *)
(* write: two names of each enumeration, the zero one and another, and the *)
(* parameters and clusters users write.  Of those either the eight fields  *)
(* that are copied are the same in all, and the others have every value,   *)
(* or one of the eight differs.                                            *)
(***************************************************************************)
EXTENDS ClusterMapping, TLC

SomeMethods == [UNSET_COLLECTION |-> 0, EBPF |-> 3]

SomeTypes == [GENERIC_CLUSTER |-> 0, OPENSHIFT4_CLUSTER |-> 5]

Common ==
  [AdmissionController |-> FALSE, AdmissionControllerEvents |-> FALSE,
   AdmissionControllerUpdates |-> FALSE, CentralAPIEndpoint |-> "x",
   CollectorImage |-> "x", MainImage |-> "x", Name |-> "a", SlimCollector |-> FALSE]

OneDiffers ==
  {[Common EXCEPT ![f] = TRUE] : f \in {"AdmissionController", "AdmissionControllerEvents",
                                        "AdmissionControllerUpdates", "SlimCollector"}}
  \cup {[Common EXCEPT ![f] = "y"] : f \in {"CentralAPIEndpoint", "CollectorImage", "MainImage"}}
  \cup {[Common EXCEPT !.Name = "b"]}

SomeParameters ==
  {Common @@ converted : converted \in
     [CollectionMethod : DOMAIN SomeMethods, Type : DOMAIN SomeTypes,
      Labels : LabelMaps, Tolerations : BOOLEAN]}
  \cup
  {copied @@ [CollectionMethod |-> "EBPF", Type |-> "OPENSHIFT4_CLUSTER",
              Labels |-> "nil", Tolerations |-> TRUE] : copied \in OneDiffers}

SomeClusters ==
  {Common @@ converted : converted \in
     [CollectionMethod : NumbersOf(SomeMethods), Type : NumbersOf(SomeTypes),
      Labels : LabelMaps, TolerationsConfig : {"nil", "enabled", "disabled"}, rest : Rest]}
  \cup
  {copied @@ [CollectionMethod |-> 3, Type |-> 5, Labels |-> "nil",
              TolerationsConfig |-> "enabled", rest |-> r] : copied \in OneDiffers, r \in Rest}

=============================================================================
