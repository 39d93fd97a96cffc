--------------------------- MODULE ClusterMapping ---------------------------
(***************************************************************************)
(* The fields of a cluster: how generateCluster writes the parameters of a *)
(* Cluster into a cluster of Central, how isUpToDate reads them back and   *)
(* compares, and what generateObservation shows of them in the status      *)
(* (pkg/controller/cluster/cluster.go).  Cluster takes both for one value, *)
(* spec; this module is why it may.                                        *)
(*                                                                         *)
(* The twelve parameters are fields of their own, for the code lists them  *)
(* three times: eight are copied, the enumerations have a name in          *)
(* Kubernetes and a number in Central, of the labels nil and empty are     *)
(* alike, and the tolerations are negated in Central, in a message that    *)
(* may be missing.  rest is what a cluster has besides: its identifier,    *)
(* its manager, its Sensor.                                                *)
(***************************************************************************)
EXTENDS Naturals

CONSTANTS
  Strings,   \* the values of an endpoint or an image
  Names,     \* the names of clusters
  Labels,    \* the label maps that are not empty
  Methods,   \* storage.CollectionMethod_value: the number of each name
  Types,     \* storage.ClusterType_value
  Unknown,   \* a number neither table has: that of a newer Central
  Rest,      \* the values of the fields no parameter sets
  Written,   \* the parameters users write
  Left       \* the clusters other users leave in Central

Injective(table) == \A a, b \in DOMAIN table : table[a] = table[b] => a = b

LabelMaps == Labels \cup {"nil", "empty"}

Parameters ==
  [AdmissionController : BOOLEAN, AdmissionControllerEvents : BOOLEAN,
   AdmissionControllerUpdates : BOOLEAN, CentralAPIEndpoint : Strings,
   CollectionMethod : DOMAIN Methods, CollectorImage : Strings, Labels : LabelMaps,
   MainImage : Strings, Name : Names, SlimCollector : BOOLEAN,
   Tolerations : BOOLEAN, Type : DOMAIN Types]

NumbersOf(table) == {table[a] : a \in DOMAIN table} \cup {0, Unknown}

Clusters ==
  [AdmissionController : BOOLEAN, AdmissionControllerEvents : BOOLEAN,
   AdmissionControllerUpdates : BOOLEAN, CentralAPIEndpoint : Strings,
   CollectionMethod : NumbersOf(Methods), CollectorImage : Strings, Labels : LabelMaps,
   MainImage : Strings, Name : Names, SlimCollector : BOOLEAN,
   TolerationsConfig : {"nil", "enabled", "disabled"}, Type : NumbersOf(Types),
   rest : Rest]

\* The names of enumeration values are those the CRD admits, and none of them
\* is empty.
ASSUME MappingAssumption ==
  /\ \A a \in DOMAIN Methods : Methods[a] \in Nat \ {Unknown} /\ a # ""
  /\ \A a \in DOMAIN Types : Types[a] \in Nat \ {Unknown} /\ a # ""
  /\ Injective(Methods)
  /\ Injective(Types)
  /\ Unknown \in Nat \ {0}
  /\ {"nil", "empty"} \cap Labels = {}
  /\ Written \subseteq Parameters
  /\ Left \subseteq Clusters

VARIABLES
  params,    \* spec.forProvider
  stored     \* what getCluster finds in Central: one cluster of its name, or none

vars == <<params, stored>>

-----------------------------------------------------------------------------
(***************************************************************************)
(* The conversions.                                                        *)
(***************************************************************************)

\* A lookup in a map of Go: what it lacks has the zero value.
NumberOf(table, name) == IF name \in DOMAIN table THEN table[name] ELSE 0

NameOf(table, number) ==
  IF \E a \in DOMAIN table : table[a] = number
  THEN CHOOSE a \in DOMAIN table : table[a] = number
  ELSE ""

\* Faulty: tolerations are not negated.
generateCluster_NotNegated(in, base) ==
  [AdmissionController |-> in.AdmissionController,
   AdmissionControllerEvents |-> in.AdmissionControllerEvents,
   AdmissionControllerUpdates |-> in.AdmissionControllerUpdates,
   CentralAPIEndpoint |-> in.CentralAPIEndpoint,
   CollectionMethod |-> NumberOf(Methods, in.CollectionMethod),
   CollectorImage |-> in.CollectorImage, Labels |-> in.Labels,
   MainImage |-> in.MainImage, Name |-> in.Name, SlimCollector |-> in.SlimCollector,
   TolerationsConfig |-> IF in.Tolerations THEN "disabled" ELSE "enabled",
   Type |-> NumberOf(Types, in.Type), rest |-> base.rest]

\* base with the parameters written over it.
generateCluster(in, base) ==
  [AdmissionController |-> in.AdmissionController,
   AdmissionControllerEvents |-> in.AdmissionControllerEvents,
   AdmissionControllerUpdates |-> in.AdmissionControllerUpdates,
   CentralAPIEndpoint |-> in.CentralAPIEndpoint,
   CollectionMethod |-> NumberOf(Methods, in.CollectionMethod),
   CollectorImage |-> in.CollectorImage, Labels |-> in.Labels,
   MainImage |-> in.MainImage, Name |-> in.Name, SlimCollector |-> in.SlimCollector,
   TolerationsConfig |-> IF in.Tolerations THEN "enabled" ELSE "disabled",
   Type |-> NumberOf(Types, in.Type), rest |-> base.rest]

\* Faulty: the tolerations are not read back.
observedParams_NoTolerations(c) ==
  [AdmissionController |-> c.AdmissionController,
   AdmissionControllerEvents |-> c.AdmissionControllerEvents,
   AdmissionControllerUpdates |-> c.AdmissionControllerUpdates,
   CentralAPIEndpoint |-> c.CentralAPIEndpoint,
   CollectionMethod |-> NameOf(Methods, c.CollectionMethod),
   CollectorImage |-> c.CollectorImage, Labels |-> c.Labels, MainImage |-> c.MainImage,
   Name |-> c.Name, SlimCollector |-> c.SlimCollector, Tolerations |-> FALSE,
   Type |-> NameOf(Types, c.Type)]

\* What the cluster c has for parameters, as isUpToDate lists them.
observedParams(c) ==
  [AdmissionController |-> c.AdmissionController,
   AdmissionControllerEvents |-> c.AdmissionControllerEvents,
   AdmissionControllerUpdates |-> c.AdmissionControllerUpdates,
   CentralAPIEndpoint |-> c.CentralAPIEndpoint,
   CollectionMethod |-> NameOf(Methods, c.CollectionMethod),
   CollectorImage |-> c.CollectorImage, Labels |-> c.Labels, MainImage |-> c.MainImage,
   Name |-> c.Name, SlimCollector |-> c.SlimCollector,
   Tolerations |-> c.TolerationsConfig # "disabled", Type |-> NameOf(Types, c.Type)]

\* Faulty: one field of the status is filled from the one listed before it.
generateObservation_Slipped(c) ==
  [AdmissionController |-> c.AdmissionController,
   AdmissionControllerEvents |-> c.AdmissionControllerEvents,
   AdmissionControllerUpdates |-> c.AdmissionControllerEvents,
   CentralAPIEndpoint |-> c.CentralAPIEndpoint,
   CollectionMethod |-> NameOf(Methods, c.CollectionMethod),
   CollectorImage |-> c.CollectorImage, Labels |-> c.Labels, MainImage |-> c.MainImage,
   Name |-> c.Name, SlimCollector |-> c.SlimCollector,
   Tolerations |-> c.TolerationsConfig # "disabled", Type |-> NameOf(Types, c.Type),
   rest |-> c.rest]

\* What the status shows of the cluster c: the parameters, in a list of its
\* own, and what no parameter sets.
generateObservation(c) ==
  [AdmissionController |-> c.AdmissionController,
   AdmissionControllerEvents |-> c.AdmissionControllerEvents,
   AdmissionControllerUpdates |-> c.AdmissionControllerUpdates,
   CentralAPIEndpoint |-> c.CentralAPIEndpoint,
   CollectionMethod |-> NameOf(Methods, c.CollectionMethod),
   CollectorImage |-> c.CollectorImage, Labels |-> c.Labels, MainImage |-> c.MainImage,
   Name |-> c.Name, SlimCollector |-> c.SlimCollector,
   Tolerations |-> c.TolerationsConfig # "disabled", Type |-> NameOf(Types, c.Type),
   rest |-> c.rest]

\* cmpopts.EquateEmpty: a nil map equals an empty one.
EquateEmpty(labels) == IF labels = "empty" THEN "nil" ELSE labels

\* The fields of p, as cmp.Diff compares them.
Compared(p) == [p EXCEPT !.Labels = EquateEmpty(@)]

isUpToDate(in, c) == Compared(in) = Compared(observedParams(c))

\* A message on its way: an empty map is not told from none.
OnTheWire(c) == [c EXCEPT !.Labels = EquateEmpty(@)]

-----------------------------------------------------------------------------
TypeOK ==
  /\ params \in Parameters
  /\ stored \subseteq Clusters
  /\ \A c, d \in stored : c = d

Init ==
  /\ params \in Written
  /\ stored = {}

\* What is there under a name is up to others; their Central may be newer.
OthersLeave(name) ==
  \/ stored' = {}
  \/ \E c \in Left : c.Name = name /\ c = OnTheWire(c) /\ stored' = {c}

\* A rename leads to another cluster.
UserEdits ==
  /\ params' \in Written
  /\ IF params'.Name = params.Name THEN UNCHANGED stored ELSE OthersLeave(params'.Name)

\* A new cluster is based on none; Central fills in the rest of it.
Create ==
  /\ stored = {}
  /\ \E rest \in Rest : stored' = {OnTheWire(generateCluster(params, [rest |-> rest]))}
  /\ UNCHANGED params

\* Observe finds a difference; Update writes over the cluster it reads.
Update ==
  /\ \E c \in stored :
       /\ ~isUpToDate(params, c)
       /\ stored' = {OnTheWire(generateCluster(params, c))}
  /\ UNCHANGED params

\* Others create, edit and delete it.
AdminEdits == OthersLeave(params.Name) /\ UNCHANGED params

Next == UserEdits \/ Create \/ Update \/ AdminEdits

Spec == Init /\ [][Next]_vars

-----------------------------------------------------------------------------
(***************************************************************************)
(* Safety.                                                                 *)
(***************************************************************************)

\* One write settles it: what Create or Update wrote is up to date when it is
\* observed, whatever Central had before, so the two conversions agree and
\* the controller does not write for ever.
OneWriteSettles ==
  [][Create \/ Update => \A c \in stored' : isUpToDate(params, c)]_vars

\* Clusters a Sensor cannot tell apart: without a message of their own the
\* tolerations are enabled.
Alike(c, d) ==
  /\ [c EXCEPT !.TolerationsConfig = "nil"] = [d EXCEPT !.TolerationsConfig = "nil"]
  /\ c.TolerationsConfig = "disabled" <=> d.TolerationsConfig = "disabled"

\* Drift is neither missed nor imagined: a cluster counts as up to date
\* exactly when writing the parameters over it would change nothing that
\* matters, unknown enumeration values and missing messages included.
DriftIsExact ==
  \A c \in stored :
    isUpToDate(params, c) <=> Alike(c, OnTheWire(generateCluster(params, c)))

\* What a user sees is what the controller decides on: the status Observe
\* writes agrees with the parameters in every field they share exactly when
\* the cluster counts as up to date.  The code lists the fields once in
\* generateObservation and once more in isUpToDate, and nothing but this holds
\* the lists together.
StatusTellsDrift ==
  \A c \in stored :
    isUpToDate(params, c) <=>
      Compared([f \in DOMAIN params |-> generateObservation(c)[f]]) = Compared(params)

=============================================================================
