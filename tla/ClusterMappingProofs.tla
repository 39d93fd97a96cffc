------------------------ MODULE ClusterMappingProofs ------------------------
(***************************************************************************)
(* Proofs about ClusterMapping, for every table of enumeration values.     *)
(***************************************************************************)
EXTENDS ClusterMapping, TLAPS

\* A name the table has is found again by its number.
LEMMA NamesReturn ==
  ASSUME NEW table, Injective(table), NEW a \in DOMAIN table
  PROVE  NameOf(table, NumberOf(table, a)) = a
<1>1. NumberOf(table, a) = table[a]
  BY DEF NumberOf
<1>2. \A b \in DOMAIN table : table[b] = table[a] => b = a
  BY DEF Injective
<1> QED
  BY <1>1, <1>2 DEF NameOf

\* A number that has a name is found again by it.
LEMMA NumbersReturn ==
  ASSUME NEW table, Injective(table), NEW n, NEW a \in DOMAIN table, NameOf(table, n) = a, a # ""
  PROVE  n = NumberOf(table, a)
<1>1. \E b \in DOMAIN table : table[b] = n
  BY DEF NameOf
<1>2. table[a] = n
  BY <1>1 DEF NameOf
<1> QED
  BY <1>2 DEF NumberOf

\* Labels compared once or twice compare alike.
LEMMA EmptyTwice == \A labels : EquateEmpty(EquateEmpty(labels)) = EquateEmpty(labels)
BY DEF EquateEmpty

\* Parameters that differ in the labels only, and there not but for an empty
\* map and none, compare as equal; and the other way about.
LEMMA ComparedFields ==
  ASSUME NEW p \in Parameters, NEW c
  PROVE  isUpToDate(p, c) <=>
           /\ p.AdmissionController = c.AdmissionController
           /\ p.AdmissionControllerEvents = c.AdmissionControllerEvents
           /\ p.AdmissionControllerUpdates = c.AdmissionControllerUpdates
           /\ p.CentralAPIEndpoint = c.CentralAPIEndpoint
           /\ p.CollectionMethod = NameOf(Methods, c.CollectionMethod)
           /\ p.CollectorImage = c.CollectorImage
           /\ EquateEmpty(p.Labels) = EquateEmpty(c.Labels)
           /\ p.MainImage = c.MainImage
           /\ p.Name = c.Name
           /\ p.SlimCollector = c.SlimCollector
           /\ p.Tolerations = (c.TolerationsConfig # "disabled")
           /\ p.Type = NameOf(Types, c.Type)
BY DEF isUpToDate, Compared, observedParams, Parameters

\* Parameters written over any cluster and sent are read back as they are, but
\* for the difference between an empty map and none.
LEMMA RoundTrip ==
  ASSUME NEW p \in Parameters, NEW base
  PROVE  isUpToDate(p, OnTheWire(generateCluster(p, base)))
<1>1. /\ NameOf(Methods, NumberOf(Methods, p.CollectionMethod)) = p.CollectionMethod
      /\ NameOf(Types, NumberOf(Types, p.Type)) = p.Type
  BY NamesReturn, MappingAssumption DEF Parameters
<1> DEFINE c == OnTheWire(generateCluster(p, base))
<1>2. /\ c.AdmissionController = p.AdmissionController
      /\ c.AdmissionControllerEvents = p.AdmissionControllerEvents
      /\ c.AdmissionControllerUpdates = p.AdmissionControllerUpdates
      /\ c.CentralAPIEndpoint = p.CentralAPIEndpoint
      /\ c.CollectionMethod = NumberOf(Methods, p.CollectionMethod)
      /\ c.CollectorImage = p.CollectorImage
      /\ c.Labels = EquateEmpty(p.Labels)
      /\ c.MainImage = p.MainImage
      /\ c.Name = p.Name
      /\ c.SlimCollector = p.SlimCollector
      /\ c.TolerationsConfig = IF p.Tolerations THEN "enabled" ELSE "disabled"
      /\ c.Type = NumberOf(Types, p.Type)
  BY DEF OnTheWire, generateCluster
<1>3. p.Tolerations = (c.TolerationsConfig # "disabled")
  BY <1>2 DEF Parameters
<1> HIDE DEF c
<1> QED
  BY <1>1, <1>2, <1>3, EmptyTwice, ComparedFields DEF c

\* The parameters are always valid: only a user writes them, past the CRD.
ParametersValid == params \in Parameters

LEMMA ParametersStayValid == Spec => []ParametersValid
<1>1. Init => ParametersValid
  BY MappingAssumption DEF Init, ParametersValid
<1>2. ParametersValid /\ [Next]_vars => ParametersValid'
  BY MappingAssumption
  DEF Next, UserEdits, Create, Update, AdminEdits, vars, ParametersValid
<1> QED
  BY <1>1, <1>2, PTL DEF Spec

\* Whatever the tables, the labels and what Central had: what Create or Update
\* wrote counts as up to date at the next Observe.
THEOREM WritesSettle == Spec => OneWriteSettles
<1>1. ParametersValid /\ [Next]_vars =>
        [Create \/ Update => \A c \in stored' : isUpToDate(params, c)]_vars
  <2> SUFFICES ASSUME ParametersValid, Create \/ Update
               PROVE  \A c \in stored' : isUpToDate(params, c)
    OBVIOUS
  <2>1. PICK base : stored' = {OnTheWire(generateCluster(params, base))}
    BY DEF Create, Update
  <2> QED
    BY <2>1, RoundTrip DEF ParametersValid
<1> QED
  BY <1>1, ParametersStayValid, PTL DEF Spec, OneWriteSettles

-----------------------------------------------------------------------------
\* What Central has was sent to it: its labels are nil when there are none.
StoredAreSent == \A c \in stored : c \in Clusters /\ c = OnTheWire(c)

LEMMA SentStaySent == Spec => []StoredAreSent
<1>1. Init => StoredAreSent
  BY DEF Init, StoredAreSent
<1>2. ASSUME NEW p \in Parameters, NEW base, base.rest \in Rest
      PROVE  LET c == OnTheWire(generateCluster(p, base))
             IN  c \in Clusters /\ c = OnTheWire(c)
  <2>1. /\ NumberOf(Methods, p.CollectionMethod) \in NumbersOf(Methods)
        /\ NumberOf(Types, p.Type) \in NumbersOf(Types)
    BY DEF Parameters, NumberOf, NumbersOf
  <2>2. EquateEmpty(p.Labels) \in LabelMaps
    BY DEF Parameters, EquateEmpty, LabelMaps
  <2>3. generateCluster(p, base) \in Clusters
    BY <1>2, <2>1 DEF generateCluster, Clusters, Parameters
  <2>4. OnTheWire(generateCluster(p, base)) \in Clusters
    <3>1. ASSUME NEW c \in Clusters, NEW l \in LabelMaps
          PROVE  [c EXCEPT !.Labels = l] \in Clusters
      BY DEF Clusters
    <3>2. generateCluster(p, base).Labels = p.Labels
      BY DEF generateCluster
    <3> QED
      BY <2>2, <2>3, <3>1, <3>2 DEF OnTheWire
  <2>5. ASSUME NEW c \in Clusters
        PROVE  OnTheWire(OnTheWire(c)) = OnTheWire(c)
    BY EmptyTwice DEF OnTheWire, Clusters
  <2> QED
    BY <2>3, <2>4, <2>5
<1>3. ParametersValid /\ StoredAreSent /\ [Next]_vars => StoredAreSent'
  <2> SUFFICES ASSUME ParametersValid, StoredAreSent, [Next]_vars
               PROVE  StoredAreSent'
    OBVIOUS
  <2>1. CASE Create
    <3>1. PICK rest \in Rest : stored' = {OnTheWire(generateCluster(params, [rest |-> rest]))}
      BY <2>1 DEF Create
    <3> QED
      BY <1>2, <3>1 DEF ParametersValid, StoredAreSent
  <2>2. CASE Update
    <3>1. PICK base \in stored : stored' = {OnTheWire(generateCluster(params, base))}
      BY <2>2 DEF Update
    <3>2. base.rest \in Rest
      BY DEF StoredAreSent, Clusters
    <3> QED
      BY <1>2, <3>1, <3>2 DEF ParametersValid, StoredAreSent
  <2>3. ASSUME NEW name, OthersLeave(name)
        PROVE  StoredAreSent'
    BY <2>3, MappingAssumption DEF OthersLeave, StoredAreSent
  <2>4. CASE UserEdits \/ AdminEdits \/ UNCHANGED vars
    BY <2>3, <2>4 DEF UserEdits, AdminEdits, vars, StoredAreSent
  <2> QED
    BY <2>1, <2>2, <2>4 DEF Next
<1> QED
  BY <1>1, <1>3, ParametersStayValid, PTL DEF Spec

\* Fields compare as the clusters they were written to do.
LEMMA Exact ==
  ASSUME NEW p \in Parameters, NEW c \in Clusters, c = OnTheWire(c)
  PROVE  isUpToDate(p, c) <=> Alike(c, OnTheWire(generateCluster(p, c)))
<1> DEFINE d == OnTheWire(generateCluster(p, c))
<1>1. /\ p.CollectionMethod \in DOMAIN Methods /\ p.CollectionMethod # ""
      /\ p.Type \in DOMAIN Types /\ p.Type # ""
  BY MappingAssumption DEF Parameters
<1>2. NameOf(Methods, c.CollectionMethod) = p.CollectionMethod <=>
        c.CollectionMethod = NumberOf(Methods, p.CollectionMethod)
  BY <1>1, NamesReturn, NumbersReturn, MappingAssumption
<1>3. NameOf(Types, c.Type) = p.Type <=> c.Type = NumberOf(Types, p.Type)
  BY <1>1, NamesReturn, NumbersReturn, MappingAssumption
<1>4. EquateEmpty(c.Labels) = c.Labels
  <2>1. OnTheWire(c).Labels = EquateEmpty(c.Labels)
    BY DEF OnTheWire, Clusters
  <2> QED
    BY <2>1
<1>5. d = [AdmissionController |-> p.AdmissionController,
           AdmissionControllerEvents |-> p.AdmissionControllerEvents,
           AdmissionControllerUpdates |-> p.AdmissionControllerUpdates,
           CentralAPIEndpoint |-> p.CentralAPIEndpoint,
           CollectionMethod |-> NumberOf(Methods, p.CollectionMethod),
           CollectorImage |-> p.CollectorImage, Labels |-> EquateEmpty(p.Labels),
           MainImage |-> p.MainImage, Name |-> p.Name, SlimCollector |-> p.SlimCollector,
           TolerationsConfig |-> IF p.Tolerations THEN "enabled" ELSE "disabled",
           Type |-> NumberOf(Types, p.Type), rest |-> c.rest]
  BY DEF OnTheWire, generateCluster
<1>6. d.TolerationsConfig = "disabled" <=> ~p.Tolerations
  BY <1>5 DEF Parameters
<1>7. [c EXCEPT !.TolerationsConfig = "nil"] = [d EXCEPT !.TolerationsConfig = "nil"] <=>
        /\ p.AdmissionController = c.AdmissionController
        /\ p.AdmissionControllerEvents = c.AdmissionControllerEvents
        /\ p.AdmissionControllerUpdates = c.AdmissionControllerUpdates
        /\ p.CentralAPIEndpoint = c.CentralAPIEndpoint
        /\ NumberOf(Methods, p.CollectionMethod) = c.CollectionMethod
        /\ p.CollectorImage = c.CollectorImage
        /\ EquateEmpty(p.Labels) = c.Labels
        /\ p.MainImage = c.MainImage
        /\ p.Name = c.Name
        /\ p.SlimCollector = c.SlimCollector
        /\ NumberOf(Types, p.Type) = c.Type
  BY <1>5 DEF Clusters
<1>8. p.Tolerations = (c.TolerationsConfig # "disabled") <=>
        (c.TolerationsConfig = "disabled" <=> ~p.Tolerations)
  BY DEF Parameters
<1> HIDE DEF d
<1>9. Alike(c, d) <=>
        /\ [c EXCEPT !.TolerationsConfig = "nil"] = [d EXCEPT !.TolerationsConfig = "nil"]
        /\ c.TolerationsConfig = "disabled" <=> ~p.Tolerations
  BY <1>6 DEF Alike
<1>10. isUpToDate(p, c) <=> Alike(c, d)
  BY <1>2, <1>3, <1>4, <1>7, <1>8, <1>9, ComparedFields
<1> QED
  BY <1>10 DEF d

\* For every table, every label map and every cluster a newer Central may
\* send: isUpToDate is false exactly when Update has something to change.
THEOREM DriftDetection == Spec => []DriftIsExact
<1>1. ParametersValid /\ StoredAreSent => DriftIsExact
  BY Exact DEF ParametersValid, StoredAreSent, DriftIsExact
<1> QED
  BY <1>1, ParametersStayValid, SentStaySent, PTL

-----------------------------------------------------------------------------
\* Whatever Central has, unknown enumeration values and missing messages
\* included: the status, filled from a list of fields of its own, differs from
\* the parameters in one of them exactly when isUpToDate finds a difference.
THEOREM StatusIsTrue == Spec => []StatusTellsDrift
<1>1. ASSUME NEW p \in Parameters, NEW c
      PROVE  isUpToDate(p, c) <=>
               Compared([f \in DOMAIN p |-> generateObservation(c)[f]]) = Compared(p)
  <2> DEFINE shown == [f \in DOMAIN p |-> generateObservation(c)[f]]
  <2>1. shown =
          [AdmissionController |-> c.AdmissionController,
           AdmissionControllerEvents |-> c.AdmissionControllerEvents,
           AdmissionControllerUpdates |-> c.AdmissionControllerUpdates,
           CentralAPIEndpoint |-> c.CentralAPIEndpoint,
           CollectionMethod |-> NameOf(Methods, c.CollectionMethod),
           CollectorImage |-> c.CollectorImage, Labels |-> c.Labels,
           MainImage |-> c.MainImage, Name |-> c.Name, SlimCollector |-> c.SlimCollector,
           Tolerations |-> c.TolerationsConfig # "disabled",
           Type |-> NameOf(Types, c.Type)]
    BY DEF Parameters, generateObservation
  <2> HIDE DEF shown
  <2>2. Compared(shown) = Compared(p) <=>
          /\ p.AdmissionController = c.AdmissionController
          /\ p.AdmissionControllerEvents = c.AdmissionControllerEvents
          /\ p.AdmissionControllerUpdates = c.AdmissionControllerUpdates
          /\ p.CentralAPIEndpoint = c.CentralAPIEndpoint
          /\ p.CollectionMethod = NameOf(Methods, c.CollectionMethod)
          /\ p.CollectorImage = c.CollectorImage
          /\ EquateEmpty(p.Labels) = EquateEmpty(c.Labels)
          /\ p.MainImage = c.MainImage
          /\ p.Name = c.Name
          /\ p.SlimCollector = c.SlimCollector
          /\ p.Tolerations = (c.TolerationsConfig # "disabled")
          /\ p.Type = NameOf(Types, c.Type)
    BY <2>1 DEF Compared, Parameters
  <2> QED
    BY <2>2, ComparedFields DEF shown
<1>2. ParametersValid => StatusTellsDrift
  BY <1>1 DEF ParametersValid, StatusTellsDrift
<1> QED
  BY <1>2, ParametersStayValid, PTL

=============================================================================
