---------------------------- MODULE ObjectCopies ----------------------------
(***************************************************************************)
(* The objects of the API types in memory.  An informer keeps one object   *)
(* for each resource in its cache, and hands DeepCopyObject of it to every *)
(* reconcile that reads it.  The reconcile changes its copy in place: it   *)
(* adds the finalizer and annotations, and sets conditions.  So nothing    *)
(* that is reached through a pointer, a map or a slice may be shared.      *)
(*                                                                         *)
(* The declarations (apis/*/v1alpha1/*_types.go) say which fields refer to *)
(* memory of their own; the functions of zz_generated.deepcopy.go say      *)
(* which of them DeepCopyInto copies.  All other fields are copied by      *)
(* *out = *in: a value is, what a reference leads to is not.               *)
(***************************************************************************)
EXTENDS Naturals

CONSTANTS
  Reconciles,   \* reconciles of one object that run, and hold copies, at once
  Nobody,       \* who wrote what the object had at first
  MaxWrites     \* bound: the changes the reconciles make

ASSUME CopiesAssumption ==
  /\ Nobody \notin Reconciles
  /\ MaxWrites \in Nat

-----------------------------------------------------------------------------
(***************************************************************************)
(* The declared types: the fields of each, the plain values of one type    *)
(* taken together as Values.  A type of another package that refers to     *)
(* memory counts as one reference, with a DeepCopyInto of its own.         *)
(***************************************************************************)
Value == [shape |-> "value", of |-> ""]
Reference == [shape |-> "reference", of |-> ""]
Struct(T) == [shape |-> "struct", of |-> T]
SliceOf(T) == [shape |-> "slice", of |-> T]

Object(spec, status) ==
  [TypeMeta |-> Value, ObjectMeta |-> Reference,
   Spec |-> Struct(spec), Status |-> Struct(status)]

ListOf(T) == [TypeMeta |-> Value, ListMeta |-> Reference, Items |-> SliceOf(T)]

ClusterTypes ==
  [Cluster |-> Object("ClusterSpec", "ClusterStatus"),
   ClusterList |-> ListOf("Cluster"),
   ClusterSpec |-> [ResourceSpec |-> Reference,
                    ForProvider |-> Struct("ClusterParameters")],
   ClusterStatus |-> [ResourceStatus |-> Reference,
                      AtProvider |-> Struct("ClusterObservation")],
   ClusterParameters |-> [Values |-> Value, Labels |-> Reference],
   ClusterObservation |-> [Values |-> Value, Labels |-> Reference,
                           MostRecentSensor |-> Struct("SensorDeployment")],
   SensorDeployment |-> [Values |-> Value]]

BundleTypes ==
  [InitBundle |-> Object("InitBundleSpec", "InitBundleStatus"),
   InitBundleList |-> ListOf("InitBundle"),
   InitBundleSpec |-> [ResourceSpec |-> Reference,
                       ForProvider |-> Struct("InitBundleParameters")],
   InitBundleStatus |-> [ResourceStatus |-> Reference,
                         AtProvider |-> Struct("InitBundleObservation")],
   InitBundleParameters |-> [Values |-> Value],
   InitBundleObservation |-> [Values |-> Value, CreatedAt |-> Reference,
                              CreatedBy |-> Struct("User"), ExpiresAt |-> Reference,
                              ImpactedClusters |-> SliceOf("ImpactedCluster")],
   ImpactedCluster |-> [Values |-> Value],
   User |-> [Values |-> Value, Attributes |-> Reference]]

ProviderConfigTypes ==
  [ProviderConfig |-> Object("ProviderConfigSpec", "ProviderConfigStatus"),
   ProviderConfigList |-> ListOf("ProviderConfig"),
   ProviderConfigSpec |-> [Endpoint |-> Value,
                           Credentials |-> Struct("ProviderCredentials")],
   ProviderCredentials |-> [Source |-> Value, CommonCredentialSelectors |-> Reference],
   ProviderConfigStatus |-> [ProviderConfigStatus |-> Reference]]

UsageTypes ==
  [ProviderConfigUsage |-> [TypeMeta |-> Value, ObjectMeta |-> Reference,
                            ProviderConfigUsage |-> Reference],
   ProviderConfigUsageList |-> ListOf("ProviderConfigUsage")]

StoreTypes ==
  [StoreConfig |-> Object("StoreConfigSpec", "StoreConfigStatus"),
   StoreConfigList |-> ListOf("StoreConfig"),
   StoreConfigSpec |-> [SecretStoreConfig |-> Reference],
   StoreConfigStatus |-> [ConditionedStatus |-> Reference]]

\* One table of two.
Joined(s, t) ==
  [T \in DOMAIN s \cup DOMAIN t |-> IF T \in DOMAIN s THEN s[T] ELSE t[T]]

Types ==
  Joined(ClusterTypes,
    Joined(BundleTypes, Joined(ProviderConfigTypes, Joined(UsageTypes, StoreTypes))))

\* The kinds of objects that caches hold: those that have DeepCopyObject and
\* are no lists.
ObjectKinds ==
  {"Cluster", "InitBundle", "ProviderConfig", "ProviderConfigUsage", "StoreConfig"}

-----------------------------------------------------------------------------
(***************************************************************************)
(* The fields DeepCopyInto copies by themselves, in memory of their own or *)
(* by the DeepCopyInto of their types.                                     *)
(***************************************************************************)
ObjectCopied == {"ObjectMeta", "Spec", "Status"}
ListCopied == {"ListMeta", "Items"}

\* Faulty: the labels are not copied.
ClusterCopied_NoLabels ==
  [Cluster |-> ObjectCopied, ClusterList |-> ListCopied,
   ClusterSpec |-> {"ResourceSpec", "ForProvider"},
   ClusterStatus |-> {"ResourceStatus", "AtProvider"},
   ClusterParameters |-> {},
   ClusterObservation |-> {"Labels"},
   SensorDeployment |-> {}]

\* The sensor is copied by *out = *in: it has values only.
ClusterCopied ==
  [Cluster |-> ObjectCopied, ClusterList |-> ListCopied,
   ClusterSpec |-> {"ResourceSpec", "ForProvider"},
   ClusterStatus |-> {"ResourceStatus", "AtProvider"},
   ClusterParameters |-> {"Labels"},
   ClusterObservation |-> {"Labels"},
   SensorDeployment |-> {}]

\* Faulty: the status common to all resources is copied by *out = *in.
BundleCopied_NoConditions ==
  [InitBundle |-> ObjectCopied, InitBundleList |-> ListCopied,
   InitBundleSpec |-> {"ResourceSpec"},
   InitBundleStatus |-> {"AtProvider"},
   InitBundleParameters |-> {},
   InitBundleObservation |-> {"CreatedAt", "CreatedBy", "ExpiresAt", "ImpactedClusters"},
   ImpactedCluster |-> {},
   User |-> {"Attributes"}]

\* The parameters are copied by *out = *in: they have values only.
BundleCopied ==
  [InitBundle |-> ObjectCopied, InitBundleList |-> ListCopied,
   InitBundleSpec |-> {"ResourceSpec"},
   InitBundleStatus |-> {"ResourceStatus", "AtProvider"},
   InitBundleParameters |-> {},
   InitBundleObservation |-> {"CreatedAt", "CreatedBy", "ExpiresAt", "ImpactedClusters"},
   ImpactedCluster |-> {},
   User |-> {"Attributes"}]

\* Faulty: the metadata is copied by *out = *in.
ProviderConfigCopied_NoMeta ==
  [ProviderConfig |-> {"Spec", "Status"}, ProviderConfigList |-> ListCopied,
   ProviderConfigSpec |-> {"Credentials"},
   ProviderCredentials |-> {"CommonCredentialSelectors"},
   ProviderConfigStatus |-> {"ProviderConfigStatus"}]

ProviderConfigCopied ==
  [ProviderConfig |-> ObjectCopied, ProviderConfigList |-> ListCopied,
   ProviderConfigSpec |-> {"Credentials"},
   ProviderCredentials |-> {"CommonCredentialSelectors"},
   ProviderConfigStatus |-> {"ProviderConfigStatus"}]

UsageCopied ==
  [ProviderConfigUsage |-> {"ObjectMeta", "ProviderConfigUsage"},
   ProviderConfigUsageList |-> ListCopied]

StoreCopied ==
  [StoreConfig |-> ObjectCopied, StoreConfigList |-> ListCopied,
   StoreConfigSpec |-> {"SecretStoreConfig"},
   StoreConfigStatus |-> {"ConditionedStatus"}]

Copied ==
  Joined(ClusterCopied,
    Joined(BundleCopied, Joined(ProviderConfigCopied, Joined(UsageCopied, StoreCopied))))

-----------------------------------------------------------------------------
\* The memory a field leads to by itself.
CellOf(T, f) == IF Types[T][f].shape \in {"reference", "slice"} THEN {<<T, f>>} ELSE {}

\* All the memory that is reached from an object of type T.
Cells[T \in DOMAIN Types] ==
  UNION {CellOf(T, f) \cup
           (IF Types[T][f].of = "" THEN {} ELSE Cells[Types[T][f].of]) :
         f \in DOMAIN Types[T]}

\* The part of it that DeepCopyInto makes anew.
DeepCopyInto[T \in DOMAIN Types] ==
  UNION {CellOf(T, f) \cup
           (IF Types[T][f].of = "" THEN {} ELSE DeepCopyInto[Types[T][f].of]) :
         f \in Copied[T]}

\* The cells the reconcilers change in place: finalizers and annotations of
\* the metadata, and the conditions of the status.
ChangedInPlace(k) ==
  CASE k = "Cluster" -> {<<k, "ObjectMeta">>, <<"ClusterStatus", "ResourceStatus">>}
    [] k = "InitBundle" -> {<<k, "ObjectMeta">>, <<"InitBundleStatus", "ResourceStatus">>}
    [] k = "ProviderConfig" -> {<<k, "ObjectMeta">>,
                                <<"ProviderConfigStatus", "ProviderConfigStatus">>}
    [] k = "ProviderConfigUsage" -> {<<k, "ObjectMeta">>}
    [] k = "StoreConfig" -> {}

\* The cells Observe replaces, in status.atProvider: those of the observation
\* it makes from what Central returned.
Replaced(k) ==
  CASE k = "Cluster" -> Cells["ClusterObservation"]
    [] k = "InitBundle" -> Cells["InitBundleObservation"]
    [] OTHER -> {}

-----------------------------------------------------------------------------
VARIABLES
  kind,      \* the kind of the object
  served,    \* what the API server has in each cell of it
  cached,    \* what the memory of the object in the cache has
  sent,      \* history: what the API server sent for it
  copies,    \* the copy each reconcile has, if any
  writes     \* how many changes the reconciles made

copyVars == <<kind, served, cached, sent, copies, writes>>

Written == [by : Reconciles \cup {Nobody}, at : 0 .. MaxWrites]
NoCopy == [had |-> <<>>, has |-> <<>>, shared |-> {}]

CopiesTypeOK ==
  /\ kind \in ObjectKinds
  /\ served \in [Cells[kind] -> Written]
  /\ cached \in [Cells[kind] -> Written]
  /\ sent \in [Cells[kind] -> Written]
  /\ \A r \in Reconciles :
       \/ copies[r] = NoCopy
       \/ copies[r] \in [had : [Cells[kind] -> Written], has : [Cells[kind] -> Written],
                         shared : SUBSET Cells[kind]]
  /\ writes \in 0 .. MaxWrites

CopiesInit ==
  /\ kind \in ObjectKinds
  /\ served = [c \in Cells[kind] |-> [by |-> Nobody, at |-> 0]]
  /\ cached = served
  /\ sent = served
  /\ copies = [r \in Reconciles |-> NoCopy]
  /\ writes = 0

\* The watch sends the object, and the cache has it decoded in new memory:
\* what copies share they share with the old object.
Deliver ==
  /\ sent # served
  /\ cached' = served
  /\ sent' = served
  /\ copies' = [r \in Reconciles |-> [copies[r] EXCEPT !.shared = {}]]
  /\ UNCHANGED <<kind, served, writes>>

\* The client of the manager reads the cache: DeepCopyObject.
Get(r) ==
  /\ copies[r] = NoCopy
  /\ copies' = [copies EXCEPT ![r] =
                  [had |-> cached, has |-> cached,
                   shared |-> Cells[kind] \ DeepCopyInto[kind]]]
  /\ UNCHANGED <<kind, served, cached, sent, writes>>

\* A change in place is seen by all that share the memory.
Change(r, c) ==
  /\ copies[r] # NoCopy
  /\ writes < MaxWrites
  /\ writes' = writes + 1
  /\ LET new == [by |-> r, at |-> writes']
     IN IF c \in copies[r].shared
          THEN /\ cached' = [cached EXCEPT ![c] = new]
               /\ copies' = [q \in Reconciles |->
                               IF c \in copies[q].shared
                               THEN [copies[q] EXCEPT !.has[c] = new]
                               ELSE copies[q]]
          ELSE /\ copies' = [copies EXCEPT ![r].has[c] = new]
               /\ UNCHANGED cached
  /\ UNCHANGED <<kind, served, sent>>

\* A field is set to memory of the reconcile's own.
Replace(r, c) ==
  /\ copies[r] # NoCopy
  /\ writes < MaxWrites
  /\ writes' = writes + 1
  /\ copies' = [copies EXCEPT ![r].has[c] = [by |-> r, at |-> writes'],
                              ![r].shared = @ \ {c}]
  /\ UNCHANGED <<kind, served, cached, sent>>

\* Faulty: the API server keeps only the cells that changed.
Save_OnlyChanges(r) ==
  /\ copies[r] # NoCopy
  /\ copies[r].had = served
  /\ copies[r].has # served
  /\ served' = [c \in {d \in Cells[kind] : copies[r].has[d] # served[d]} |->
                  copies[r].has[c]]
  /\ copies' = [copies EXCEPT ![r].had = served']
  /\ UNCHANGED <<kind, cached, sent, writes>>

\* The API server takes the copy, unless the object changed since; the copy
\* is then the new object.
Save(r) ==
  /\ copies[r] # NoCopy
  /\ copies[r].had = served
  /\ copies[r].has # served
  /\ served' = copies[r].has
  /\ copies' = [copies EXCEPT ![r].had = served']
  /\ UNCHANGED <<kind, cached, sent, writes>>

\* The reconcile ends: what it has not saved is lost.
Drop(r) ==
  /\ copies[r] # NoCopy
  /\ copies' = [copies EXCEPT ![r] = NoCopy]
  /\ UNCHANGED <<kind, served, cached, sent, writes>>

CopiesNext ==
  \/ Deliver
  \/ \E r \in Reconciles :
       \/ Get(r) \/ Save(r) \/ Drop(r)
       \/ \E c \in ChangedInPlace(kind) : Change(r, c)
       \/ \E c \in Replaced(kind) : Replace(r, c)

CopiesSpec == CopiesInit /\ [][CopiesNext]_copyVars

-----------------------------------------------------------------------------
(***************************************************************************)
(* Safety.                                                                 *)
(***************************************************************************)
\* A copy of the object, or of a list of such objects, shares no memory with the
\* original: the generated functions fit the declarations, down to the last map
\* in a struct in a struct.
CopiesShareNothing ==
  \A T \in DOMAIN Types :
    T = kind \/ (\E f \in DOMAIN Types[T] : Types[T][f].of = kind) =>
      Cells[T] \subseteq DeepCopyInto[T]

\* No reconcile changes what the cache has, and so what all others read,
\* before the API server has taken it.
CacheIsWhatWasSent == cached = sent

\* What a reconcile saves was served before, or is a change of its own: not
\* one that another reconcile made and perhaps never saved.
SavesOwnChanges ==
  [][\A r \in Reconciles : Save(r) =>
       \A c \in Cells[kind] : served'[c] # served[c] => served'[c].by = r]_copyVars

=============================================================================
