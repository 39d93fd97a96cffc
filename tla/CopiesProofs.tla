---------------------------- MODULE CopiesProofs ----------------------------
(***************************************************************************)
(* Proofs about ObjectCopies, for any number of reconciles that hold a     *)
(* copy of one object, and of changes they make.  First: the generated     *)
(* functions copy all the memory of every type: the types refer to each    *)
(* other in five levels, so the recursive functions over them have values, *)
(* and nothing is shared on any level.  Then what follows for the cache    *)
(* and for what the reconciles save.                                       *)
(***************************************************************************)
EXTENDS ObjectCopies, TLAPS

-----------------------------------------------------------------------------
(***************************************************************************)
(* Types.                                                                  *)
(***************************************************************************)
Contents == [Cells[kind] -> Written]
Copy == [had : Contents, has : Contents, shared : SUBSET Cells[kind]]

\* Of the typing, what the steps keep: every reconcile has a copy or none.
Held ==
  /\ kind \in ObjectKinds
  /\ served \in Contents /\ cached \in Contents /\ sent \in Contents
  /\ copies \in [Reconciles -> Copy \cup {NoCopy}]
  /\ writes \in 0 .. MaxWrites

\* A cell of a copy is written, and the rest of the copy stays.
LEMMA CellWritten ==
  ASSUME NEW x \in Copy, NEW c, NEW new \in Written
  PROVE  /\ [x EXCEPT !.has[c] = new] \in Copy
         /\ [x EXCEPT !.has[c] = new].had = x.had
         /\ [x EXCEPT !.has[c] = new].shared = x.shared
         /\ [x EXCEPT !.has[c] = new].has = [x.has EXCEPT ![c] = new]
<1>1. [x.has EXCEPT ![c] = new] \in Contents
  BY DEF Copy, Contents
<1> QED
  BY <1>1 DEF Copy

\* A copy has no more in common with the cache than before.
LEMMA ShareLess ==
  ASSUME NEW x \in Copy, NEW S \in SUBSET Cells[kind]
  PROVE  /\ [x EXCEPT !.shared = S] \in Copy
         /\ [x EXCEPT !.shared = S].had = x.had
         /\ [x EXCEPT !.shared = S].has = x.has
         /\ [x EXCEPT !.shared = S].shared = S
  BY DEF Copy

\* What a reconcile writes, it writes with its name.
LEMMA NewWritten ==
  ASSUME writes \in 0 .. MaxWrites, writes < MaxWrites, writes' = writes + 1, NEW r \in Reconciles
  PROVE  writes' \in 0 .. MaxWrites /\ [by |-> r, at |-> writes'] \in Written
  BY CopiesAssumption DEF Written

\* What stands for no copy shares nothing and is none.
LEMMA NoCopyShares ==
  /\ NoCopy.shared = {}
  /\ [NoCopy EXCEPT !.shared = {}] = NoCopy
  BY DEF NoCopy

\* Every step keeps what is held.
LEMMA HeldKept ==
  ASSUME Held, [CopiesNext]_copyVars
  PROVE  Held'
<1> USE DEF Held
<1>1. CASE Deliver
  <2>1. \A r \in Reconciles : [copies[r] EXCEPT !.shared = {}] \in Copy \cup {NoCopy}
    BY ShareLess, NoCopyShares
  <2> QED
    BY <1>1, <2>1 DEF Deliver, Copy, Contents
<1>2. ASSUME NEW r \in Reconciles, Get(r) PROVE Held'
  BY <1>2 DEF Get, Copy, Contents
<1>3. ASSUME NEW r \in Reconciles, NEW c, Change(r, c) PROVE Held'
  <2> DEFINE new == [by |-> r, at |-> writes']
  <2>1. writes' \in 0 .. MaxWrites /\ new \in Written
    BY <1>3, NewWritten DEF Change
  <2> HIDE DEF new
  <2>2. copies[r] \in Copy
    BY <1>3 DEF Change
  <2>3. CASE c \in copies[r].shared
    <3>1. /\ cached' = [cached EXCEPT ![c] = new]
          /\ copies' = [q \in Reconciles |-> IF c \in copies[q].shared
                                             THEN [copies[q] EXCEPT !.has[c] = new]
                                             ELSE copies[q]]
      BY <1>3, <2>3 DEF Change, new
    <3>2. \A q \in Reconciles : c \in copies[q].shared => copies[q] \in Copy
      BY NoCopyShares
    <3>3. \A q \in Reconciles : c \in copies[q].shared => [copies[q] EXCEPT !.has[c] = new] \in Copy
      BY <2>1, <3>2, CellWritten
    <3>4. copies' \in [Reconciles -> Copy \cup {NoCopy}]
      BY <3>1, <3>3
    <3>5. cached' \in Contents
      BY <2>1, <3>1 DEF Contents
    <3> QED
      BY <1>3, <2>1, <3>4, <3>5 DEF Change, Copy, Contents
  <2>4. CASE c \notin copies[r].shared
    <3>1. copies' = [copies EXCEPT ![r].has[c] = new] /\ UNCHANGED cached
      BY <1>3, <2>4 DEF Change, new
    <3>2. copies' = [copies EXCEPT ![r] = [copies[r] EXCEPT !.has[c] = new]]
      BY <3>1
    <3>3. [copies[r] EXCEPT !.has[c] = new] \in Copy
      BY <2>1, <2>2, CellWritten
    <3>4. copies' \in [Reconciles -> Copy \cup {NoCopy}]
      BY <3>2, <3>3
    <3> QED
      BY <1>3, <2>1, <3>1, <3>4 DEF Change, Copy, Contents
  <2> QED
    BY <2>3, <2>4
<1>4. ASSUME NEW r \in Reconciles, NEW c, Replace(r, c) PROVE Held'
  <2> DEFINE new == [by |-> r, at |-> writes']
             y == [copies[r] EXCEPT !.has[c] = new]
  <2>1. writes' \in 0 .. MaxWrites /\ new \in Written
    BY <1>4, NewWritten DEF Replace
  <2>2. copies' = [copies EXCEPT ![r] = [y EXCEPT !.shared = copies[r].shared \ {c}]]
    BY <1>4 DEF Replace
  <2> HIDE DEF new
  <2>3. copies[r] \in Copy
    BY <1>4 DEF Replace
  <2>4. y \in Copy /\ copies[r].shared \ {c} \in SUBSET Cells[kind]
    BY <2>1, <2>3, CellWritten DEF Copy
  <2> HIDE DEF y
  <2>5. [y EXCEPT !.shared = copies[r].shared \ {c}] \in Copy
    BY <2>4, ShareLess
  <2>6. copies' \in [Reconciles -> Copy \cup {NoCopy}]
    BY <2>2, <2>5
  <2> QED
    BY <1>4, <2>1, <2>6 DEF Replace, Copy, Contents
<1>5. ASSUME NEW r \in Reconciles, Save(r) PROVE Held'
  <2>1. copies[r] \in Copy
    BY <1>5 DEF Save
  <2>2. served' = copies[r].has /\ served' \in Contents
    BY <1>5, <2>1 DEF Save, Copy, Contents
  <2>3. copies' = [copies EXCEPT ![r] = [copies[r] EXCEPT !.had = served']]
    BY <1>5 DEF Save
  <2>4. [copies[r] EXCEPT !.had = served'] \in Copy
    BY <2>1, <2>2 DEF Save, Copy, Contents
  <2>5. copies' \in [Reconciles -> Copy \cup {NoCopy}]
    BY <2>3, <2>4
  <2> QED
    BY <1>5, <2>2, <2>5 DEF Save, Copy, Contents
<1>6. ASSUME NEW r \in Reconciles, Drop(r) PROVE Held'
  BY <1>6 DEF Drop, Copy, Contents
<1>7. CASE UNCHANGED copyVars
  BY <1>7 DEF copyVars, Copy, Contents
<1> QED
  BY <1>1, <1>2, <1>3, <1>4, <1>5, <1>6, <1>7 DEF CopiesNext

\* Whatever is shared, and whatever is saved: copies, cache and store have the
\* cells of their kind.
THEOREM CopiesTyping == CopiesSpec => []CopiesTypeOK
<1>1. CopiesInit => Held
  <2> SUFFICES ASSUME CopiesInit
               PROVE  Held
    OBVIOUS
  <2>1. [by |-> Nobody, at |-> 0] \in Written
    BY CopiesAssumption DEF Written
  <2> QED
    BY <2>1, CopiesAssumption DEF CopiesInit, Held, Contents
<1>2. Held => CopiesTypeOK
  BY DEF Held, CopiesTypeOK, Contents, Copy
<1> QED
  BY <1>1, <1>2, HeldKept, PTL DEF CopiesSpec

-----------------------------------------------------------------------------
(***************************************************************************)
(* The tables of the five groups of types, as one.                         *)
(***************************************************************************)

ClusterNames ==
  {"Cluster", "ClusterList", "ClusterSpec", "ClusterStatus", "ClusterParameters",
   "ClusterObservation", "SensorDeployment"}

BundleNames ==
  {"InitBundle", "InitBundleList", "InitBundleSpec", "InitBundleStatus",
   "InitBundleParameters", "InitBundleObservation", "ImpactedCluster", "User"}

ProviderConfigNames ==
  {"ProviderConfig", "ProviderConfigList", "ProviderConfigSpec", "ProviderCredentials",
   "ProviderConfigStatus"}

UsageNames == {"ProviderConfigUsage", "ProviderConfigUsageList"}

StoreNames == {"StoreConfig", "StoreConfigList", "StoreConfigSpec", "StoreConfigStatus"}

TypeNames ==
  ClusterNames \cup BundleNames \cup ProviderConfigNames \cup UsageNames \cup StoreNames

\* No type is in two groups.
LEMMA NamesApart ==
  /\ ClusterNames \cap (BundleNames \cup ProviderConfigNames \cup UsageNames \cup StoreNames) = {}
  /\ BundleNames \cap (ProviderConfigNames \cup UsageNames \cup StoreNames) = {}
  /\ ProviderConfigNames \cap (UsageNames \cup StoreNames) = {}
  /\ UsageNames \cap StoreNames = {}
  BY DEF ClusterNames, BundleNames, ProviderConfigNames, UsageNames, StoreNames

\* Five tables of different types make one that has the rows of all.
LEMMA FiveJoined ==
  ASSUME NEW a, NEW b, NEW c, NEW d, NEW e,
         DOMAIN a = ClusterNames, DOMAIN b = BundleNames, DOMAIN c = ProviderConfigNames,
         DOMAIN d = UsageNames, DOMAIN e = StoreNames
  PROVE  LET all == Joined(a, Joined(b, Joined(c, Joined(d, e))))
         IN /\ DOMAIN all = TypeNames
            /\ \A T \in ClusterNames : all[T] = a[T]
            /\ \A T \in BundleNames : all[T] = b[T]
            /\ \A T \in ProviderConfigNames : all[T] = c[T]
            /\ \A T \in UsageNames : all[T] = d[T]
            /\ \A T \in StoreNames : all[T] = e[T]
<1> DEFINE de == Joined(d, e)
           cde == Joined(c, de)
           bcde == Joined(b, cde)
           all == Joined(a, bcde)
<1>1. /\ DOMAIN de = UsageNames \cup StoreNames
      /\ \A T \in UsageNames : de[T] = d[T]
      /\ \A T \in StoreNames : de[T] = e[T]
  BY NamesApart DEF Joined
<1> HIDE DEF de
<1>2. /\ DOMAIN cde = ProviderConfigNames \cup DOMAIN de
      /\ \A T \in ProviderConfigNames : cde[T] = c[T]
      /\ \A T \in DOMAIN de : cde[T] = de[T]
  BY <1>1, NamesApart DEF Joined
<1> HIDE DEF cde
<1>3. /\ DOMAIN bcde = BundleNames \cup DOMAIN cde
      /\ \A T \in BundleNames : bcde[T] = b[T]
      /\ \A T \in DOMAIN cde : bcde[T] = cde[T]
  BY <1>1, <1>2, NamesApart DEF Joined
<1> HIDE DEF bcde
<1>4. /\ DOMAIN all = ClusterNames \cup DOMAIN bcde
      /\ \A T \in ClusterNames : all[T] = a[T]
      /\ \A T \in DOMAIN bcde : all[T] = bcde[T]
  BY <1>1, <1>2, <1>3, NamesApart DEF Joined
<1> HIDE DEF all
<1>5. /\ DOMAIN all = TypeNames
      /\ \A T \in ClusterNames : all[T] = a[T]
      /\ \A T \in BundleNames : all[T] = b[T]
      /\ \A T \in ProviderConfigNames : all[T] = c[T]
      /\ \A T \in UsageNames : all[T] = d[T]
      /\ \A T \in StoreNames : all[T] = e[T]
  BY <1>1, <1>2, <1>3, <1>4 DEF TypeNames
<1> QED
  BY <1>5 DEF all, bcde, cde, de

\* The declarations of all groups are in Types.
LEMMA TypesTable ==
  /\ DOMAIN Types = TypeNames
  /\ \A T \in ClusterNames : Types[T] = ClusterTypes[T]
  /\ \A T \in BundleNames : Types[T] = BundleTypes[T]
  /\ \A T \in ProviderConfigNames : Types[T] = ProviderConfigTypes[T]
  /\ \A T \in UsageNames : Types[T] = UsageTypes[T]
  /\ \A T \in StoreNames : Types[T] = StoreTypes[T]
<1>1. /\ DOMAIN ClusterTypes = ClusterNames /\ DOMAIN BundleTypes = BundleNames
      /\ DOMAIN ProviderConfigTypes = ProviderConfigNames /\ DOMAIN UsageTypes = UsageNames
      /\ DOMAIN StoreTypes = StoreNames
  BY DEF ClusterTypes, BundleTypes, ProviderConfigTypes, UsageTypes, StoreTypes,
         ClusterNames, BundleNames, ProviderConfigNames, UsageNames, StoreNames
<1> QED
  BY <1>1, FiveJoined DEF Types

\* And what is copied of each type in Copied.
LEMMA CopiedTable ==
  /\ DOMAIN Copied = TypeNames
  /\ \A T \in ClusterNames : Copied[T] = ClusterCopied[T]
  /\ \A T \in BundleNames : Copied[T] = BundleCopied[T]
  /\ \A T \in ProviderConfigNames : Copied[T] = ProviderConfigCopied[T]
  /\ \A T \in UsageNames : Copied[T] = UsageCopied[T]
  /\ \A T \in StoreNames : Copied[T] = StoreCopied[T]
<1>1. /\ DOMAIN ClusterCopied = ClusterNames /\ DOMAIN BundleCopied = BundleNames
      /\ DOMAIN ProviderConfigCopied = ProviderConfigNames /\ DOMAIN UsageCopied = UsageNames
      /\ DOMAIN StoreCopied = StoreNames
  BY DEF ClusterCopied, BundleCopied, ProviderConfigCopied, UsageCopied, StoreCopied,
         ClusterNames, BundleNames, ProviderConfigNames, UsageNames, StoreNames
<1> QED
  BY <1>1, FiveJoined DEF Copied

-----------------------------------------------------------------------------
(***************************************************************************)
(* What is copied of each type: the functions fit the declarations.        *)
(***************************************************************************)
\* The types that are copied by *out = *in wherever they are a field.
Shallow == {"SensorDeployment", "InitBundleParameters"}

\* A type refers to types of S only, and what of it is not copied has no memory
\* of its own.
Fits(fields, copied, S) ==
  /\ copied \subseteq DOMAIN fields
  /\ \A f \in DOMAIN fields : fields[f].of \in S \cup {""}
  /\ \A f \in DOMAIN fields \ copied :
       /\ fields[f].shape \notin {"reference", "slice"}
       /\ fields[f].of \in Shallow \cup {""}

\* The levels: a type refers to types of lower levels only, those of level 1 to
\* none.  Only lists of clusters and of bundles are above level 4.
Level1 ==
  {"ClusterParameters", "SensorDeployment", "InitBundleParameters", "ImpactedCluster", "User",
   "ProviderCredentials", "ProviderConfigStatus", "ProviderConfigUsage", "StoreConfigSpec",
   "StoreConfigStatus"}

Level2 ==
  Level1 \cup {"ClusterSpec", "ClusterObservation", "InitBundleSpec", "InitBundleObservation",
               "ProviderConfigSpec", "ProviderConfigUsageList", "StoreConfig"}

Level3 == Level2 \cup {"ClusterStatus", "InitBundleStatus", "ProviderConfig", "StoreConfigList"}

Level4 == Level3 \cup {"Cluster", "InitBundle", "ProviderConfigList"}

\* The functions of objects copy all that refers to memory.
LEMMA ObjectsFit ==
  ASSUME NEW S, NEW spec \in S, NEW status \in S
  PROVE  Fits(Object(spec, status), ObjectCopied, S)
<1> DEFINE fields == Object(spec, status)
<1>1. /\ DOMAIN fields = {"TypeMeta", "ObjectMeta", "Spec", "Status"}
      /\ fields["TypeMeta"].shape = "value" /\ fields["TypeMeta"].of = ""
      /\ fields["ObjectMeta"].of = "" /\ fields["Spec"].of = spec /\ fields["Status"].of = status
  BY DEF Object, Value, Reference, Struct
<1> HIDE DEF fields
<1>2. Fits(fields, ObjectCopied, S)
  BY <1>1 DEF Fits, ObjectCopied
<1> QED
  BY <1>2 DEF fields

\* And those of lists.
LEMMA ListsFit ==
  ASSUME NEW S, NEW T \in S
  PROVE  Fits(ListOf(T), ListCopied, S)
<1> DEFINE fields == ListOf(T)
<1>1. /\ DOMAIN fields = {"TypeMeta", "ListMeta", "Items"}
      /\ fields["TypeMeta"].shape = "value" /\ fields["TypeMeta"].of = ""
      /\ fields["ListMeta"].of = "" /\ fields["Items"].of = T
  BY DEF ListOf, Value, Reference, SliceOf
<1> HIDE DEF fields
<1>2. Fits(fields, ListCopied, S)
  BY <1>1 DEF Fits, ListCopied
<1> QED
  BY <1>2 DEF fields

\* apis/cluster/v1alpha1.
LEMMA ClusterFits ==
  /\ Fits(ClusterTypes.Cluster, ClusterCopied.Cluster, Level3)
  /\ Fits(ClusterTypes.ClusterList, ClusterCopied.ClusterList, Level4)
  /\ Fits(ClusterTypes.ClusterSpec, ClusterCopied.ClusterSpec, Level1)
  /\ Fits(ClusterTypes.ClusterStatus, ClusterCopied.ClusterStatus, Level2)
  /\ Fits(ClusterTypes.ClusterParameters, ClusterCopied.ClusterParameters, {})
  /\ Fits(ClusterTypes.ClusterObservation, ClusterCopied.ClusterObservation, Level1)
  /\ Fits(ClusterTypes.SensorDeployment, ClusterCopied.SensorDeployment, {})
<1>1. Fits(ClusterTypes.Cluster, ClusterCopied.Cluster, Level3)
  <2>1. "ClusterSpec" \in Level3 /\ "ClusterStatus" \in Level3
    BY DEF Level1, Level2, Level3
  <2> QED
    BY <2>1, ObjectsFit DEF ClusterTypes, ClusterCopied
<1>2. Fits(ClusterTypes.ClusterList, ClusterCopied.ClusterList, Level4)
  <2>1. "Cluster" \in Level4
    BY DEF Level1, Level2, Level3, Level4
  <2> QED
    BY <2>1, ListsFit DEF ClusterTypes, ClusterCopied
<1>3. Fits(ClusterTypes.ClusterSpec, ClusterCopied.ClusterSpec, Level1)
  <2> DEFINE fields == ClusterTypes.ClusterSpec
  <2>1. /\ DOMAIN fields = {"ResourceSpec", "ForProvider"}
        /\ fields["ResourceSpec"].of = "" /\ fields["ForProvider"].of = "ClusterParameters"
        /\ ClusterCopied.ClusterSpec = {"ResourceSpec", "ForProvider"}
    BY DEF ClusterTypes, ClusterCopied, Reference, Struct
  <2> HIDE DEF fields
  <2>2. Fits(fields, ClusterCopied.ClusterSpec, Level1)
    BY <2>1 DEF Fits, Level1
  <2> QED
    BY <2>2 DEF fields
<1>4. Fits(ClusterTypes.ClusterStatus, ClusterCopied.ClusterStatus, Level2)
  <2> DEFINE fields == ClusterTypes.ClusterStatus
  <2>1. /\ DOMAIN fields = {"ResourceStatus", "AtProvider"}
        /\ fields["ResourceStatus"].of = "" /\ fields["AtProvider"].of = "ClusterObservation"
        /\ ClusterCopied.ClusterStatus = {"ResourceStatus", "AtProvider"}
    BY DEF ClusterTypes, ClusterCopied, Reference, Struct
  <2> HIDE DEF fields
  <2>2. Fits(fields, ClusterCopied.ClusterStatus, Level2)
    BY <2>1 DEF Fits, Level1, Level2
  <2> QED
    BY <2>2 DEF fields
<1>5. Fits(ClusterTypes.ClusterParameters, ClusterCopied.ClusterParameters, {})
  <2> DEFINE fields == ClusterTypes.ClusterParameters
  <2>1. /\ DOMAIN fields = {"Values", "Labels"}
        /\ fields["Values"].shape = "value" /\ fields["Values"].of = "" /\ fields["Labels"].of = ""
        /\ ClusterCopied.ClusterParameters = {"Labels"}
    BY DEF ClusterTypes, ClusterCopied, Value, Reference
  <2> HIDE DEF fields
  <2>2. Fits(fields, ClusterCopied.ClusterParameters, {})
    BY <2>1 DEF Fits
  <2> QED
    BY <2>2 DEF fields
<1>6. Fits(ClusterTypes.ClusterObservation, ClusterCopied.ClusterObservation, Level1)
  <2> DEFINE fields == ClusterTypes.ClusterObservation
  <2>1. /\ DOMAIN fields = {"Values", "Labels", "MostRecentSensor"}
        /\ fields["Values"].shape = "value" /\ fields["Values"].of = "" /\ fields["Labels"].of = ""
        /\ fields["MostRecentSensor"].shape = "struct"
        /\ fields["MostRecentSensor"].of = "SensorDeployment"
        /\ ClusterCopied.ClusterObservation = {"Labels"}
    BY DEF ClusterTypes, ClusterCopied, Value, Reference, Struct
  <2> HIDE DEF fields
  <2>2. Fits(fields, ClusterCopied.ClusterObservation, Level1)
    BY <2>1 DEF Fits, Shallow, Level1
  <2> QED
    BY <2>2 DEF fields
<1>7. Fits(ClusterTypes.SensorDeployment, ClusterCopied.SensorDeployment, {})
  <2> DEFINE fields == ClusterTypes.SensorDeployment
  <2>1. /\ DOMAIN fields = {"Values"}
        /\ fields["Values"].shape = "value" /\ fields["Values"].of = ""
        /\ ClusterCopied.SensorDeployment = {}
    BY DEF ClusterTypes, ClusterCopied, Value
  <2> HIDE DEF fields
  <2>2. Fits(fields, ClusterCopied.SensorDeployment, {})
    BY <2>1 DEF Fits
  <2> QED
    BY <2>2 DEF fields
<1> QED
  BY <1>1, <1>2, <1>3, <1>4, <1>5, <1>6, <1>7

\* apis/initbundle/v1alpha1.
LEMMA BundleFits ==
  /\ Fits(BundleTypes.InitBundle, BundleCopied.InitBundle, Level3)
  /\ Fits(BundleTypes.InitBundleList, BundleCopied.InitBundleList, Level4)
  /\ Fits(BundleTypes.InitBundleSpec, BundleCopied.InitBundleSpec, Level1)
  /\ Fits(BundleTypes.InitBundleStatus, BundleCopied.InitBundleStatus, Level2)
  /\ Fits(BundleTypes.InitBundleParameters, BundleCopied.InitBundleParameters, {})
  /\ Fits(BundleTypes.InitBundleObservation, BundleCopied.InitBundleObservation, Level1)
  /\ Fits(BundleTypes.ImpactedCluster, BundleCopied.ImpactedCluster, {})
  /\ Fits(BundleTypes.User, BundleCopied.User, {})
<1>1. Fits(BundleTypes.InitBundle, BundleCopied.InitBundle, Level3)
  <2>1. "InitBundleSpec" \in Level3 /\ "InitBundleStatus" \in Level3
    BY DEF Level1, Level2, Level3
  <2> QED
    BY <2>1, ObjectsFit DEF BundleTypes, BundleCopied
<1>2. Fits(BundleTypes.InitBundleList, BundleCopied.InitBundleList, Level4)
  <2>1. "InitBundle" \in Level4
    BY DEF Level1, Level2, Level3, Level4
  <2> QED
    BY <2>1, ListsFit DEF BundleTypes, BundleCopied
<1>3. Fits(BundleTypes.InitBundleSpec, BundleCopied.InitBundleSpec, Level1)
  <2> DEFINE fields == BundleTypes.InitBundleSpec
  <2>1. /\ DOMAIN fields = {"ResourceSpec", "ForProvider"}
        /\ fields["ResourceSpec"].of = ""
        /\ fields["ForProvider"].shape = "struct"
        /\ fields["ForProvider"].of = "InitBundleParameters"
        /\ BundleCopied.InitBundleSpec = {"ResourceSpec"}
    BY DEF BundleTypes, BundleCopied, Reference, Struct
  <2> HIDE DEF fields
  <2>2. Fits(fields, BundleCopied.InitBundleSpec, Level1)
    BY <2>1 DEF Fits, Shallow, Level1
  <2> QED
    BY <2>2 DEF fields
<1>4. Fits(BundleTypes.InitBundleStatus, BundleCopied.InitBundleStatus, Level2)
  <2> DEFINE fields == BundleTypes.InitBundleStatus
  <2>1. /\ DOMAIN fields = {"ResourceStatus", "AtProvider"}
        /\ fields["ResourceStatus"].of = "" /\ fields["AtProvider"].of = "InitBundleObservation"
        /\ BundleCopied.InitBundleStatus = {"ResourceStatus", "AtProvider"}
    BY DEF BundleTypes, BundleCopied, Reference, Struct
  <2> HIDE DEF fields
  <2>2. Fits(fields, BundleCopied.InitBundleStatus, Level2)
    BY <2>1 DEF Fits, Level1, Level2
  <2> QED
    BY <2>2 DEF fields
<1>5. Fits(BundleTypes.InitBundleParameters, BundleCopied.InitBundleParameters, {})
  <2> DEFINE fields == BundleTypes.InitBundleParameters
  <2>1. /\ DOMAIN fields = {"Values"}
        /\ fields["Values"].shape = "value" /\ fields["Values"].of = ""
        /\ BundleCopied.InitBundleParameters = {}
    BY DEF BundleTypes, BundleCopied, Value
  <2> HIDE DEF fields
  <2>2. Fits(fields, BundleCopied.InitBundleParameters, {})
    BY <2>1 DEF Fits
  <2> QED
    BY <2>2 DEF fields
<1>6. Fits(BundleTypes.InitBundleObservation, BundleCopied.InitBundleObservation, Level1)
  <2> DEFINE fields == BundleTypes.InitBundleObservation
  <2>1. /\ DOMAIN fields = {"Values", "CreatedAt", "CreatedBy", "ExpiresAt", "ImpactedClusters"}
        /\ fields["Values"].shape = "value" /\ fields["Values"].of = ""
        /\ fields["CreatedAt"].of = "" /\ fields["CreatedBy"].of = "User"
        /\ fields["ExpiresAt"].of = "" /\ fields["ImpactedClusters"].of = "ImpactedCluster"
        /\ BundleCopied.InitBundleObservation =
             {"CreatedAt", "CreatedBy", "ExpiresAt", "ImpactedClusters"}
    BY DEF BundleTypes, BundleCopied, Value, Reference, Struct, SliceOf
  <2> HIDE DEF fields
  <2>2. Fits(fields, BundleCopied.InitBundleObservation, Level1)
    BY <2>1 DEF Fits, Level1
  <2> QED
    BY <2>2 DEF fields
<1>7. Fits(BundleTypes.ImpactedCluster, BundleCopied.ImpactedCluster, {})
  <2> DEFINE fields == BundleTypes.ImpactedCluster
  <2>1. /\ DOMAIN fields = {"Values"}
        /\ fields["Values"].shape = "value" /\ fields["Values"].of = ""
        /\ BundleCopied.ImpactedCluster = {}
    BY DEF BundleTypes, BundleCopied, Value
  <2> HIDE DEF fields
  <2>2. Fits(fields, BundleCopied.ImpactedCluster, {})
    BY <2>1 DEF Fits
  <2> QED
    BY <2>2 DEF fields
<1>8. Fits(BundleTypes.User, BundleCopied.User, {})
  <2> DEFINE fields == BundleTypes.User
  <2>1. /\ DOMAIN fields = {"Values", "Attributes"}
        /\ fields["Values"].shape = "value" /\ fields["Values"].of = ""
        /\ fields["Attributes"].of = ""
        /\ BundleCopied.User = {"Attributes"}
    BY DEF BundleTypes, BundleCopied, Value, Reference
  <2> HIDE DEF fields
  <2>2. Fits(fields, BundleCopied.User, {})
    BY <2>1 DEF Fits
  <2> QED
    BY <2>2 DEF fields
<1> QED
  BY <1>1, <1>2, <1>3, <1>4, <1>5, <1>6, <1>7, <1>8

\* The ProviderConfig of apis/v1alpha1.
LEMMA ProviderConfigFits ==
  /\ Fits(ProviderConfigTypes.ProviderConfig, ProviderConfigCopied.ProviderConfig, Level2)
  /\ Fits(ProviderConfigTypes.ProviderConfigList, ProviderConfigCopied.ProviderConfigList, Level3)
  /\ Fits(ProviderConfigTypes.ProviderConfigSpec, ProviderConfigCopied.ProviderConfigSpec, Level1)
  /\ Fits(ProviderConfigTypes.ProviderCredentials, ProviderConfigCopied.ProviderCredentials, {})
  /\ Fits(ProviderConfigTypes.ProviderConfigStatus, ProviderConfigCopied.ProviderConfigStatus, {})
<1>1. Fits(ProviderConfigTypes.ProviderConfig, ProviderConfigCopied.ProviderConfig, Level2)
  <2>1. "ProviderConfigSpec" \in Level2 /\ "ProviderConfigStatus" \in Level2
    BY DEF Level1, Level2
  <2> QED
    BY <2>1, ObjectsFit DEF ProviderConfigTypes, ProviderConfigCopied
<1>2. Fits(ProviderConfigTypes.ProviderConfigList, ProviderConfigCopied.ProviderConfigList, Level3)
  <2>1. "ProviderConfig" \in Level3
    BY DEF Level1, Level2, Level3
  <2> QED
    BY <2>1, ListsFit DEF ProviderConfigTypes, ProviderConfigCopied
<1>3. Fits(ProviderConfigTypes.ProviderConfigSpec, ProviderConfigCopied.ProviderConfigSpec, Level1)
  <2> DEFINE fields == ProviderConfigTypes.ProviderConfigSpec
  <2>1. /\ DOMAIN fields = {"Endpoint", "Credentials"}
        /\ fields["Endpoint"].shape = "value" /\ fields["Endpoint"].of = ""
        /\ fields["Credentials"].of = "ProviderCredentials"
        /\ ProviderConfigCopied.ProviderConfigSpec = {"Credentials"}
    BY DEF ProviderConfigTypes, ProviderConfigCopied, Value, Struct
  <2> HIDE DEF fields
  <2>2. Fits(fields, ProviderConfigCopied.ProviderConfigSpec, Level1)
    BY <2>1 DEF Fits, Level1
  <2> QED
    BY <2>2 DEF fields
<1>4. Fits(ProviderConfigTypes.ProviderCredentials, ProviderConfigCopied.ProviderCredentials, {})
  <2> DEFINE fields == ProviderConfigTypes.ProviderCredentials
  <2>1. /\ DOMAIN fields = {"Source", "CommonCredentialSelectors"}
        /\ fields["Source"].shape = "value" /\ fields["Source"].of = ""
        /\ fields["CommonCredentialSelectors"].of = ""
        /\ ProviderConfigCopied.ProviderCredentials = {"CommonCredentialSelectors"}
    BY DEF ProviderConfigTypes, ProviderConfigCopied, Value, Reference
  <2> HIDE DEF fields
  <2>2. Fits(fields, ProviderConfigCopied.ProviderCredentials, {})
    BY <2>1 DEF Fits
  <2> QED
    BY <2>2 DEF fields
<1>5. Fits(ProviderConfigTypes.ProviderConfigStatus, ProviderConfigCopied.ProviderConfigStatus, {})
  <2> DEFINE fields == ProviderConfigTypes.ProviderConfigStatus
  <2>1. /\ DOMAIN fields = {"ProviderConfigStatus"}
        /\ fields["ProviderConfigStatus"].of = ""
        /\ ProviderConfigCopied.ProviderConfigStatus = {"ProviderConfigStatus"}
    BY DEF ProviderConfigTypes, ProviderConfigCopied, Reference
  <2> HIDE DEF fields
  <2>2. Fits(fields, ProviderConfigCopied.ProviderConfigStatus, {})
    BY <2>1 DEF Fits
  <2> QED
    BY <2>2 DEF fields
<1> QED
  BY <1>1, <1>2, <1>3, <1>4, <1>5

\* Its ProviderConfigUsage.
LEMMA UsageFits ==
  /\ Fits(UsageTypes.ProviderConfigUsage, UsageCopied.ProviderConfigUsage, {})
  /\ Fits(UsageTypes.ProviderConfigUsageList, UsageCopied.ProviderConfigUsageList, Level1)
<1>1. Fits(UsageTypes.ProviderConfigUsage, UsageCopied.ProviderConfigUsage, {})
  <2> DEFINE fields == UsageTypes.ProviderConfigUsage
  <2>1. /\ DOMAIN fields = {"TypeMeta", "ObjectMeta", "ProviderConfigUsage"}
        /\ fields["TypeMeta"].shape = "value" /\ fields["TypeMeta"].of = ""
        /\ fields["ObjectMeta"].of = "" /\ fields["ProviderConfigUsage"].of = ""
        /\ UsageCopied.ProviderConfigUsage = {"ObjectMeta", "ProviderConfigUsage"}
    BY DEF UsageTypes, UsageCopied, Value, Reference
  <2> HIDE DEF fields
  <2>2. Fits(fields, UsageCopied.ProviderConfigUsage, {})
    BY <2>1 DEF Fits
  <2> QED
    BY <2>2 DEF fields
<1>2. Fits(UsageTypes.ProviderConfigUsageList, UsageCopied.ProviderConfigUsageList, Level1)
  <2>1. "ProviderConfigUsage" \in Level1
    BY DEF Level1
  <2> QED
    BY <2>1, ListsFit DEF UsageTypes, UsageCopied
<1> QED
  BY <1>1, <1>2

\* Its StoreConfig.
LEMMA StoreFits ==
  /\ Fits(StoreTypes.StoreConfig, StoreCopied.StoreConfig, Level1)
  /\ Fits(StoreTypes.StoreConfigList, StoreCopied.StoreConfigList, Level2)
  /\ Fits(StoreTypes.StoreConfigSpec, StoreCopied.StoreConfigSpec, {})
  /\ Fits(StoreTypes.StoreConfigStatus, StoreCopied.StoreConfigStatus, {})
<1>1. Fits(StoreTypes.StoreConfig, StoreCopied.StoreConfig, Level1)
  <2>1. "StoreConfigSpec" \in Level1 /\ "StoreConfigStatus" \in Level1
    BY DEF Level1
  <2> QED
    BY <2>1, ObjectsFit DEF StoreTypes, StoreCopied
<1>2. Fits(StoreTypes.StoreConfigList, StoreCopied.StoreConfigList, Level2)
  <2>1. "StoreConfig" \in Level2
    BY DEF Level1, Level2
  <2> QED
    BY <2>1, ListsFit DEF StoreTypes, StoreCopied
<1>3. Fits(StoreTypes.StoreConfigSpec, StoreCopied.StoreConfigSpec, {})
  <2> DEFINE fields == StoreTypes.StoreConfigSpec
  <2>1. /\ DOMAIN fields = {"SecretStoreConfig"}
        /\ fields["SecretStoreConfig"].of = ""
        /\ StoreCopied.StoreConfigSpec = {"SecretStoreConfig"}
    BY DEF StoreTypes, StoreCopied, Reference
  <2> HIDE DEF fields
  <2>2. Fits(fields, StoreCopied.StoreConfigSpec, {})
    BY <2>1 DEF Fits
  <2> QED
    BY <2>2 DEF fields
<1>4. Fits(StoreTypes.StoreConfigStatus, StoreCopied.StoreConfigStatus, {})
  <2> DEFINE fields == StoreTypes.StoreConfigStatus
  <2>1. /\ DOMAIN fields = {"ConditionedStatus"}
        /\ fields["ConditionedStatus"].of = ""
        /\ StoreCopied.StoreConfigStatus = {"ConditionedStatus"}
    BY DEF StoreTypes, StoreCopied, Reference
  <2> HIDE DEF fields
  <2>2. Fits(fields, StoreCopied.StoreConfigStatus, {})
    BY <2>1 DEF Fits
  <2> QED
    BY <2>2 DEF fields
<1> QED
  BY <1>1, <1>2, <1>3, <1>4


\* A type that refers to types of S refers to types of any larger set.
LEMMA FitsMore ==
  ASSUME NEW fields, NEW copied, NEW S, NEW R, S \subseteq R, Fits(fields, copied, S)
  PROVE  Fits(fields, copied, R)
  BY DEF Fits

\* The types of High refer to types of Low only, and the functions fit them.
Above(High, Low) ==
  /\ High \subseteq DOMAIN Types
  /\ \A T \in High : Fits(Types[T], Copied[T], Low)

\* Every type refers to types of lower levels only, down to those that refer to
\* none, and the functions fit them all.
LEMMA LevelsFit ==
  /\ Above(Level1, {}) /\ Above(Level2, Level1) /\ Above(Level3, Level2)
  /\ Above(Level4, Level3) /\ Above(DOMAIN Types, Level4)
<1> DEFINE Fit(T, S) == Fits(Types[T], Copied[T], S)
<1>1. /\ Fit("Cluster", Level3) /\ Fit("ClusterList", Level4) /\ Fit("ClusterSpec", Level1)
      /\ Fit("ClusterStatus", Level2) /\ Fit("ClusterParameters", {})
      /\ Fit("ClusterObservation", Level1) /\ Fit("SensorDeployment", {})
  BY ClusterFits, TypesTable, CopiedTable DEF ClusterNames
<1>2. /\ Fit("InitBundle", Level3) /\ Fit("InitBundleList", Level4) /\ Fit("InitBundleSpec", Level1)
      /\ Fit("InitBundleStatus", Level2) /\ Fit("InitBundleParameters", {})
      /\ Fit("InitBundleObservation", Level1) /\ Fit("ImpactedCluster", {}) /\ Fit("User", {})
  BY BundleFits, TypesTable, CopiedTable DEF BundleNames
<1>3. /\ Fit("ProviderConfig", Level2) /\ Fit("ProviderConfigList", Level3)
      /\ Fit("ProviderConfigSpec", Level1) /\ Fit("ProviderCredentials", {})
      /\ Fit("ProviderConfigStatus", {})
  BY ProviderConfigFits, TypesTable, CopiedTable DEF ProviderConfigNames
<1>4. Fit("ProviderConfigUsage", {}) /\ Fit("ProviderConfigUsageList", Level1)
  BY UsageFits, TypesTable, CopiedTable DEF UsageNames
<1>5. /\ Fit("StoreConfig", Level1) /\ Fit("StoreConfigList", Level2)
      /\ Fit("StoreConfigSpec", {}) /\ Fit("StoreConfigStatus", {})
  BY StoreFits, TypesTable, CopiedTable DEF StoreNames
<1>6. \A T, S, R : S \subseteq R /\ Fit(T, S) => Fit(T, R)
  BY FitsMore
<1> HIDE DEF Fit
<1>7. /\ {} \subseteq Level1 /\ Level1 \subseteq Level2 /\ Level2 \subseteq Level3
      /\ Level3 \subseteq Level4
  BY DEF Level2, Level3, Level4
<1>8. \A T \in Level1 : Fit(T, {})
  BY <1>1, <1>2, <1>3, <1>4, <1>5 DEF Level1
<1>9. \A T \in Level2 : Fit(T, Level1)
  BY <1>1, <1>2, <1>3, <1>4, <1>5, <1>6, <1>7, <1>8 DEF Level2
<1>10. \A T \in Level3 : Fit(T, Level2)
  BY <1>1, <1>2, <1>3, <1>5, <1>6, <1>7, <1>9 DEF Level3
<1>11. \A T \in Level4 : Fit(T, Level3)
  BY <1>1, <1>2, <1>3, <1>6, <1>7, <1>10 DEF Level4
<1>12. TypeNames = Level4 \cup {"ClusterList", "InitBundleList"}
  BY DEF TypeNames, Level4, Level3, Level2, Level1, ClusterNames, BundleNames,
         ProviderConfigNames, UsageNames, StoreNames
<1>13. \A T \in TypeNames : Fit(T, Level4)
  BY <1>1, <1>2, <1>6, <1>7, <1>11, <1>12
<1> QED
  BY <1>7, <1>8, <1>9, <1>10, <1>11, <1>12, <1>13, TypesTable DEF Fit, Above

-----------------------------------------------------------------------------
(***************************************************************************)
(* The recursion over the types: it ends, at level 1, so Cells and         *)
(* DeepCopyInto are what their equations say.                              *)
(***************************************************************************)
\* One turn of it: what g says of the types of the fields F.
Turn(F, g) ==
  [T \in DOMAIN Types |->
     UNION {CellOf(T, f) \cup
              (IF Types[T][f].of = "" THEN {} ELSE g[Types[T][f].of]) : f \in F[T]}]

\* All fields of each type.
Declared == [T \in DOMAIN Types |-> DOMAIN Types[T]]

\* What a turn has of a type comes from one of its fields.
LEMMA TurnHas ==
  ASSUME NEW F, NEW g, NEW T \in DOMAIN Types, NEW c
  PROVE  c \in Turn(F, g)[T] <=>
           \E f \in F[T] :
             c \in CellOf(T, f) \/ (Types[T][f].of # "" /\ c \in g[Types[T][f].of])
<1> DEFINE Part(f) ==
             CellOf(T, f) \cup (IF Types[T][f].of = "" THEN {} ELSE g[Types[T][f].of])
<1>1. Turn(F, g)[T] = UNION {Part(f) : f \in F[T]}
  BY DEF Turn
<1>2. \A f : c \in Part(f) <=>
               c \in CellOf(T, f) \/ (Types[T][f].of # "" /\ c \in g[Types[T][f].of])
  OBVIOUS
<1> HIDE DEF Part
<1>3. c \in UNION {Part(f) : f \in F[T]} <=> \E f \in F[T] : c \in Part(f)
  OBVIOUS
<1> QED
  BY <1>1, <1>2, <1>3

\* Two functions say the same of the types in S.
Agree(g, h, S) == \A T \in S : g[T] = h[T]

\* Two functions that agree on the lower level agree a turn later on the next.
LEMMA TurnAgrees ==
  ASSUME NEW F, \A T \in DOMAIN Types : F[T] \subseteq DOMAIN Types[T],
         NEW Low, NEW High, Above(High, Low), NEW g, NEW h, Agree(g, h, Low)
  PROVE  Agree(Turn(F, g), Turn(F, h), High)
<1> SUFFICES ASSUME NEW T \in High
             PROVE  Turn(F, g)[T] = Turn(F, h)[T]
  BY DEF Agree
<1>0. T \in DOMAIN Types /\ Fits(Types[T], Copied[T], Low)
  BY DEF Above
<1> DEFINE Part(k, f) ==
             CellOf(T, f) \cup (IF Types[T][f].of = "" THEN {} ELSE k[Types[T][f].of])
<1>1. \A f \in F[T] : Part(g, f) = Part(h, f)
  BY <1>0 DEF Fits, Agree
<1>2. /\ Turn(F, g)[T] = UNION {Part(g, f) : f \in F[T]}
      /\ Turn(F, h)[T] = UNION {Part(h, f) : f \in F[T]}
  BY <1>0 DEF Turn
<1> HIDE DEF Part
<1>3. {Part(g, f) : f \in F[T]} = {Part(h, f) : f \in F[T]}
  BY <1>1
<1> QED
  BY <1>2, <1>3

\* So some function is its own next turn.
LEMMA TurnEnds ==
  ASSUME NEW F, \A T \in DOMAIN Types : F[T] \subseteq DOMAIN Types[T]
  PROVE  \E g : g = Turn(F, g)
<1> DEFINE g0 == [T \in DOMAIN Types |-> {}]
           g1 == Turn(F, g0)
           g2 == Turn(F, g1)
           g3 == Turn(F, g2)
           g4 == Turn(F, g3)
           g5 == Turn(F, g4)
           g6 == Turn(F, g5)
<1> HIDE DEF g0, g1, g2, g3, g4, g5, g6
<1>1. Agree(g1, g2, Level1)
  <2>1. Agree(g0, g1, {})
    BY DEF Agree
  <2> QED
    BY <2>1, LevelsFit, TurnAgrees DEF g1, g2
<1>2. Agree(g2, g3, Level2)
  BY <1>1, LevelsFit, TurnAgrees DEF g2, g3
<1>3. Agree(g3, g4, Level3)
  BY <1>2, LevelsFit, TurnAgrees DEF g3, g4
<1>4. Agree(g4, g5, Level4)
  BY <1>3, LevelsFit, TurnAgrees DEF g4, g5
<1>5. Agree(g5, g6, DOMAIN Types)
  BY <1>4, LevelsFit, TurnAgrees DEF g5, g6
<1>6. g5 = g6
  BY <1>5 DEF Agree, g5, g6, Turn
<1> QED
  BY <1>6 DEF g6

\* The memory that is reached.
LEMMA CellsUnfold == Cells = Turn(Declared, Cells)
<1> DEFINE Next(g) ==
             [T \in DOMAIN Types |->
                UNION {CellOf(T, f) \cup
                         (IF Types[T][f].of = "" THEN {} ELSE g[Types[T][f].of]) :
                       f \in DOMAIN Types[T]}]
<1>1. \A g : Turn(Declared, g) = Next(g)
  BY DEF Turn, Declared
<1>2. Cells = CHOOSE g : g = Next(g)
  BY DEF Cells
<1> HIDE DEF Next
<1>3. \E g : g = Next(g)
  BY <1>1, TurnEnds DEF Declared
<1>4. Cells = Next(Cells)
  BY <1>2, <1>3
<1> QED
  BY <1>1, <1>4

\* What is copied of a type, it has.
LEMMA CopiedDeclared == \A T \in DOMAIN Types : Copied[T] \subseteq DOMAIN Types[T]
  BY LevelsFit DEF Above, Fits

\* The memory that is made anew.
LEMMA DeepCopyUnfold == DeepCopyInto = Turn(Copied, DeepCopyInto)
<1> DEFINE Next(g) ==
             [T \in DOMAIN Types |->
                UNION {CellOf(T, f) \cup
                         (IF Types[T][f].of = "" THEN {} ELSE g[Types[T][f].of]) :
                       f \in Copied[T]}]
<1>1. \A g : Turn(Copied, g) = Next(g)
  BY DEF Turn
<1>2. DeepCopyInto = CHOOSE g : g = Next(g)
  BY DEF DeepCopyInto
<1> HIDE DEF Next
<1>3. \E g : g = Next(g)
  BY <1>1, TurnEnds, CopiedDeclared
<1>4. DeepCopyInto = Next(DeepCopyInto)
  BY <1>2, <1>3
<1> QED
  BY <1>1, <1>4

-----------------------------------------------------------------------------
(***************************************************************************)
(* The generated functions share nothing.                                  *)
(***************************************************************************)
\* The memory of an object is that of its fields; what is copied of it is what
\* is copied of those that are copied.
LEMMA CellsHas ==
  ASSUME NEW T \in DOMAIN Types, NEW c
  PROVE  /\ c \in Cells[T] <=>
              \E f \in DOMAIN Types[T] :
                c \in CellOf(T, f) \/ (Types[T][f].of # "" /\ c \in Cells[Types[T][f].of])
         /\ c \in DeepCopyInto[T] <=>
              \E f \in Copied[T] :
                c \in CellOf(T, f) \/ (Types[T][f].of # "" /\ c \in DeepCopyInto[Types[T][f].of])
<1>1. /\ c \in Turn(Declared, Cells)[T] <=>
           \E f \in Declared[T] :
             c \in CellOf(T, f) \/ (Types[T][f].of # "" /\ c \in Cells[Types[T][f].of])
      /\ c \in Turn(Copied, DeepCopyInto)[T] <=>
           \E f \in Copied[T] :
             c \in CellOf(T, f) \/ (Types[T][f].of # "" /\ c \in DeepCopyInto[Types[T][f].of])
  BY TurnHas
<1>2. Declared[T] = DOMAIN Types[T]
  BY DEF Declared
<1> QED
  BY <1>1, <1>2, CellsUnfold, DeepCopyUnfold

\* What a type that is copied by *out = *in refers to is no memory.
LEMMA ShallowHasNone == \A T \in Shallow : Cells[T] = {}
<1> SUFFICES ASSUME NEW T \in Shallow
             PROVE  Cells[T] = {}
  OBVIOUS
<1>1. T \in TypeNames /\ Fits(Types[T], {}, {})
  <2>1. T = "SensorDeployment" => ClusterCopied.SensorDeployment = {}
    BY DEF ClusterCopied
  <2>2. T = "InitBundleParameters" => BundleCopied.InitBundleParameters = {}
    BY DEF BundleCopied
  <2>3. T = "SensorDeployment" \/ T = "InitBundleParameters"
    BY DEF Shallow
  <2> QED
    BY <2>1, <2>2, <2>3, ClusterFits, BundleFits, TypesTable
       DEF TypeNames, ClusterNames, BundleNames
<1>2. \A f \in DOMAIN Types[T] : CellOf(T, f) = {} /\ Types[T][f].of = ""
  BY <1>1 DEF Fits, CellOf
<1>3. ASSUME NEW c \in Cells[T] PROVE FALSE
  <2>1. T \in DOMAIN Types
    BY <1>1, TypesTable
  <2>2. \E f \in DOMAIN Types[T] :
          c \in CellOf(T, f) \/ (Types[T][f].of # "" /\ c \in Cells[Types[T][f].of])
    BY <2>1, CellsHas
  <2> QED
    BY <1>2, <2>2
<1> QED
  BY <1>3

\* All the memory of the types in S is made anew.
Anew(S) == \A T \in S : Cells[T] \subseteq DeepCopyInto[T]

\* Where nothing is shared a level below, nothing is.
LEMMA LevelShares ==
  ASSUME NEW Low, NEW High, Above(High, Low), Anew(Low)
  PROVE  Anew(High)
<1> SUFFICES ASSUME NEW T \in High, NEW c \in Cells[T]
             PROVE  c \in DeepCopyInto[T]
  BY DEF Anew
<1>1. T \in DOMAIN Types /\ Fits(Types[T], Copied[T], Low)
  BY DEF Above
<1>2. PICK f \in DOMAIN Types[T] :
        c \in CellOf(T, f) \/ (Types[T][f].of # "" /\ c \in Cells[Types[T][f].of])
  BY <1>1, CellsHas
<1>3. f \in Copied[T]
  <2> SUFFICES ASSUME f \notin Copied[T]
               PROVE  FALSE
    OBVIOUS
  <2>1. Types[T][f].shape \notin {"reference", "slice"} /\ Types[T][f].of \in Shallow \cup {""}
    BY <1>1 DEF Fits
  <2>2. CellOf(T, f) = {}
    BY <2>1 DEF CellOf
  <2> QED
    BY <1>2, <2>1, <2>2, ShallowHasNone
<1>4. c \in CellOf(T, f) \/ (Types[T][f].of # "" /\ c \in DeepCopyInto[Types[T][f].of])
  BY <1>1, <1>2 DEF Anew, Fits
<1> QED
  BY <1>1, <1>3, <1>4, CellsHas

\* A copy of an object, of a list of objects, or of a part of one, shares no
\* memory with the original: level by level, what is not copied by itself has
\* none.
THEOREM EverythingIsCopied == \A T \in DOMAIN Types : Cells[T] \subseteq DeepCopyInto[T]
<1>1. Anew({})
  BY DEF Anew
<1>2. Anew(Level1)
  BY <1>1, LevelsFit, LevelShares
<1>3. Anew(Level2)
  BY <1>2, LevelsFit, LevelShares
<1>4. Anew(Level3)
  BY <1>3, LevelsFit, LevelShares
<1>5. Anew(Level4)
  BY <1>4, LevelsFit, LevelShares
<1>6. Anew(DOMAIN Types)
  BY <1>5, LevelsFit, LevelShares
<1> QED
  BY <1>6 DEF Anew

\* So it is of the object the reconciles have copies of, and of lists of those.
THEOREM NothingIsShared == CopiesSpec => []CopiesShareNothing
<1>1. CopiesShareNothing
  BY EverythingIsCopied DEF CopiesShareNothing
<1> QED
  BY <1>1, PTL

-----------------------------------------------------------------------------
(***************************************************************************)
(* What no copy shares, no reconcile sees of another.                      *)
(***************************************************************************)

\* The cache has what was sent, no copy has anything in common with it, and what
\* a copy has that it was not read or saved with is its reconcile's own.
Apart ==
  /\ Cells[kind] \subseteq DeepCopyInto[kind]
  /\ cached = sent
  /\ \A r \in Reconciles :
       /\ copies[r].shared = {}
       /\ copies[r] # NoCopy =>
            \A c \in Cells[kind] :
              copies[r].has[c] # copies[r].had[c] => copies[r].has[c].by = r

\* Every step keeps them apart.
LEMMA ApartKept ==
  ASSUME Held, Apart, [CopiesNext]_copyVars
  PROVE  Apart'
<1> USE DEF Held
<1>0. \A q \in Reconciles : copies[q].shared = {}
  BY DEF Apart
<1>1. CASE Deliver
  <2>1. \A r \in Reconciles : [copies[r] EXCEPT !.shared = {}] = copies[r]
    <3> SUFFICES ASSUME NEW r \in Reconciles
                 PROVE  [copies[r] EXCEPT !.shared = {}] = copies[r]
      OBVIOUS
    <3>1. CASE copies[r] \in Copy
      BY <1>0, <3>1 DEF Copy
    <3>2. CASE copies[r] = NoCopy
      BY <3>2, NoCopyShares
    <3> QED
      BY <3>1, <3>2
  <2>2. copies' = copies
    BY <1>1, <2>1 DEF Deliver
  <2>3. kind' = kind /\ cached' = sent'
    BY <1>1 DEF Deliver
  <2> QED
    BY <2>2, <2>3 DEF Apart
<1>2. ASSUME NEW r \in Reconciles, Get(r) PROVE Apart'
  <2>1. /\ copies'[r].shared = {} /\ copies'[r].has = copies'[r].had
        /\ \A q \in Reconciles \ {r} : copies'[q] = copies[q]
    BY <1>2 DEF Get, Apart
  <2>2. UNCHANGED <<kind, cached, sent>>
    BY <1>2 DEF Get
  <2> QED
    BY <2>1, <2>2 DEF Apart
<1>3. ASSUME NEW r \in Reconciles, NEW c, Change(r, c) \/ Replace(r, c) PROVE Apart'
  <2> DEFINE new == [by |-> r, at |-> writes']
             y == [copies[r] EXCEPT !.has[c] = new]
  <2>1. new \in Written /\ new.by = r
    BY <1>3, NewWritten DEF Change, Replace
  <2>2. copies' = [copies EXCEPT ![r] = y] \/ copies' = [copies EXCEPT ![r] = [y EXCEPT !.shared = {}]]
    BY <1>0, <1>3 DEF Change, Replace
  <2>3. copies[r] \in Copy /\ UNCHANGED <<kind, cached, sent>>
    BY <1>0, <1>3 DEF Change, Replace
  <2> HIDE DEF new
  <2>4. /\ y \in Copy /\ y.had = copies[r].had /\ y.shared = copies[r].shared
        /\ y.has = [copies[r].has EXCEPT ![c] = new]
    <3>1. copies[r] \in Copy /\ new \in Written
      BY <2>1, <2>3
    <3>2. y \in Copy
      BY <3>1, CellWritten
    <3>3. y.had = copies[r].had
      BY <3>1, CellWritten
    <3>4. y.shared = copies[r].shared
      BY <3>1, CellWritten
    <3>5. y.has = [copies[r].has EXCEPT ![c] = new]
      BY <3>1, CellWritten
    <3> QED
      BY <3>2, <3>3, <3>4, <3>5
  <2> HIDE DEF y
  <2>5. /\ [y EXCEPT !.shared = {}].had = y.had /\ [y EXCEPT !.shared = {}].has = y.has
        /\ [y EXCEPT !.shared = {}].shared = {}
    BY <2>4, ShareLess
  <2>6. /\ copies'[r].had = copies[r].had /\ copies'[r].shared = {}
        /\ copies'[r].has = [copies[r].has EXCEPT ![c] = new]
        /\ \A q \in Reconciles \ {r} : copies'[q] = copies[q]
    BY <1>0, <2>2, <2>4, <2>5
  <2>7. copies[r].has \in [Cells[kind] -> Written] /\ copies[r] # NoCopy
    BY <1>3, <2>3 DEF Copy, Contents, Change, Replace
  <2>8. \A d \in Cells[kind] :
          copies'[r].has[d] # copies'[r].had[d] => copies'[r].has[d].by = r
    BY <2>1, <2>6, <2>7 DEF Apart
  <2>9. \A q \in Reconciles :
          /\ copies'[q].shared = {}
          /\ copies'[q] # NoCopy =>
               \A d \in Cells[kind] :
                 copies'[q].has[d] # copies'[q].had[d] => copies'[q].has[d].by = q
    <3> SUFFICES ASSUME NEW q \in Reconciles
                 PROVE  /\ copies'[q].shared = {}
                        /\ copies'[q] # NoCopy =>
                             \A d \in Cells[kind] :
                               copies'[q].has[d] # copies'[q].had[d] => copies'[q].has[d].by = q
      OBVIOUS
    <3>1. CASE q = r
      BY <2>6, <2>8, <3>1
    <3>2. CASE q # r
      <4>1. copies'[q] = copies[q]
        BY <2>6, <3>2
      <4> QED
        BY <4>1 DEF Apart
    <3> QED
      BY <3>1, <3>2
  <2> QED
    BY <2>3, <2>9 DEF Apart
<1>4. ASSUME NEW r \in Reconciles, Save(r) PROVE Apart'
  <2>1. copies[r] \in Copy
    BY <1>4 DEF Save
  <2>2. /\ copies'[r].had = copies[r].has /\ copies'[r].has = copies[r].has
        /\ copies'[r].shared = {}
        /\ \A q \in Reconciles \ {r} : copies'[q] = copies[q]
    BY <1>0, <1>4, <2>1 DEF Save, Copy
  <2>3. UNCHANGED <<kind, cached, sent>>
    BY <1>4 DEF Save
  <2> QED
    BY <2>2, <2>3 DEF Apart
<1>5. ASSUME NEW r \in Reconciles, Drop(r) PROVE Apart'
  <2>1. copies'[r] = NoCopy /\ \A q \in Reconciles \ {r} : copies'[q] = copies[q]
    BY <1>5 DEF Drop
  <2>2. UNCHANGED <<kind, cached, sent>>
    BY <1>5 DEF Drop
  <2> QED
    BY <2>1, <2>2, NoCopyShares DEF Apart
<1>6. CASE UNCHANGED copyVars
  BY <1>6 DEF copyVars, Apart
<1> QED
  BY <1>1, <1>2, <1>3, <1>4, <1>5, <1>6 DEF CopiesNext

\* At first nothing was copied.
LEMMA ApartAtFirst ==
  ASSUME CopiesInit
  PROVE  Held /\ Apart
<1>1. [by |-> Nobody, at |-> 0] \in Written
  BY CopiesAssumption DEF Written
<1>2. Held
  BY <1>1, CopiesAssumption DEF CopiesInit, Held, Contents
<1>3. Cells[kind] \subseteq DeepCopyInto[kind]
  <2>1. kind \in DOMAIN Types
    BY TypesTable DEF CopiesInit, ObjectKinds, TypeNames, ClusterNames, BundleNames,
                      ProviderConfigNames, UsageNames, StoreNames
  <2> QED
    BY <2>1, EverythingIsCopied
<1>4. cached = sent /\ \A r \in Reconciles : copies[r] = NoCopy
  BY DEF CopiesInit
<1> QED
  BY <1>2, <1>3, <1>4, NoCopyShares DEF Apart

\* The cache has nothing but what the API server sent, however many reconciles
\* change their copies.
THEOREM CacheIsSafe == CopiesSpec => []CacheIsWhatWasSent
<1>1. CopiesInit => Held /\ Apart
  BY ApartAtFirst
<1>2. Held /\ Apart /\ [CopiesNext]_copyVars => Held' /\ Apart'
  BY HeldKept, ApartKept
<1>3. Apart => CacheIsWhatWasSent
  BY DEF Apart, CacheIsWhatWasSent
<1> QED
  BY <1>1, <1>2, <1>3, PTL DEF CopiesSpec

\* A reconcile saves no change but those it made itself.
THEOREM SavesAreOwn == CopiesSpec => SavesOwnChanges
<1>1. CopiesInit => Held /\ Apart
  BY ApartAtFirst
<1>2. Held /\ Apart /\ [CopiesNext]_copyVars => Held' /\ Apart'
  BY HeldKept, ApartKept
<1>3. Held /\ Apart =>
        \A r \in Reconciles : Save(r) =>
          \A c \in Cells[kind] : served'[c] # served[c] => served'[c].by = r
  BY DEF Apart, Save
<1> QED
  BY <1>1, <1>2, <1>3, PTL DEF CopiesSpec, SavesOwnChanges

=============================================================================
