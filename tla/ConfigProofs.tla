---------------------------- MODULE ConfigProofs ----------------------------
(***************************************************************************)
(* Proofs about ConfigUsage, for any number of resources and of            *)
(* ProviderConfigs: a ProviderConfig waits for the users its controller    *)
(* knows of, and no resource is held without being tracked.                *)
(***************************************************************************)
EXTENDS ConfigUsage, ConnectorProofs, FiniteSetTheorems

\* What the reconcilers do to their connections is what Connector says,
\* whatever the ProviderConfigs do: what is proved of Connector holds here.
THEOREM UsesConnectors == UsageSpec => Spec
<1>1. UsageInit => Init
  BY DEF UsageInit
<1>2. [UsageNext]_allVars => [Next]_vars
  <2> SUFFICES ASSUME [UsageNext]_allVars PROVE [Next]_vars
    OBVIOUS
  <2>1. CASE UserStep
    BY <2>1 DEF UserStep, UserCreatesResource, UserEditsReference,
         UserDeletesResource, UserEditsPolicy, UserCreatesConfig, UserDeletesConfig,
         connectorVars
  <2>2. CASE KubernetesStep
    BY <2>2 DEF KubernetesStep, SyncUsage, CollectUsage, connectorVars
  <2>3. ASSUME NEW w \in Workers, WorkerStep(w) \/ BeginStale(w) PROVE [Next]_vars
    BY <2>3 DEF WorkerStep, Release, Begin, BeginStale, Track, Dial, Fail, Return, Handle, Close,
         connectorVars, Next
  <2>4. CASE ConfigStep
    BY <2>4 DEF ConfigStep, ConfigRead, ConfigWrite, ConfigConflicts, connectorVars
  <2>5. CASE UNCHANGED allVars
    BY <2>5 DEF allVars, connectorVars
  <2> QED
    BY <2>1, <2>2, <2>3, <2>4, <2>5 DEF UsageNext
<1> QED
  BY <1>1, <1>2, PTL DEF UsageSpec, Spec

\* For any number of workers, whatever users do to resources and
\* ProviderConfigs: a reconcile that had its connector for itself uses the
\* connection it dialled, no handler of a Cluster has its connection closed, and
\* the InitBundle controller leaves open only what was overwritten, and never
\* what its connector still refers to.
THEOREM ConnectionsAreSafe ==
  UsageSpec =>
    [](/\ SeparateAreSafe
       /\ ClustersStayOpen
       /\ LeaksOnlyByOverlap
       /\ FieldClosedAtRest)
BY SeparateReconciles, ClustersOpen, OverlapsLeak, FieldIsClosedAtRest, UsesConnectors, PTL

-----------------------------------------------------------------------------
\* The count of users never exceeds the number of resources, and is positive
\* when the cache has a usage.
LEMMA UsersCount ==
  ASSUME NEW c \in Configs
  PROVE  /\ Users(c) \in 0 .. Cardinality(Workers)
         /\ Users(c) \in Nat
         /\ \A w \in Workers : seenUsage[w] = c => Users(c) > 0
<1> DEFINE U == {w \in Workers : seenUsage[w] = c}
<1>1. U \in SUBSET Workers /\ IsFiniteSet(Workers)
  BY ConfigUsageAssumption
<1>2. IsFiniteSet(U) /\ Cardinality(U) <= Cardinality(Workers)
  BY <1>1, FS_Subset
<1>3. Cardinality(U) \in Nat /\ Cardinality(Workers) \in Nat
  BY <1>1, <1>2, FS_CardinalityType
<1>4. Cardinality(U) = 0 <=> U = {}
  BY <1>2, FS_EmptySet
<1>5. \A w \in Workers : seenUsage[w] = c => Cardinality(U) > 0
  BY <1>3, <1>4
<1>6. Cardinality(U) \in 0 .. Cardinality(Workers)
  BY <1>2, <1>3
<1>7. Users(c) = Cardinality(U)
  BY DEF Users
<1> HIDE DEF U
<1> QED
  BY <1>3, <1>5, <1>6, <1>7

-----------------------------------------------------------------------------
\* The types of the variables that are not Connector's.
UsageTypes ==
  /\ resource \in [Workers -> Stored]
  /\ stage \in [Workers -> {"track", "dial"}]
  /\ copy \in [Workers -> [ref : Configs, deleting : BOOLEAN] \cup {NoCopy}]
  /\ \A w \in Workers : pc[w] # "idle" => copy[w] # NoCopy
  /\ usage \in [Workers -> Configs \cup {None}]
  /\ seenUsage \in [Workers -> Configs \cup {None}]
  /\ config \in [Configs -> [state : Existence, inUse : BOOLEAN,
                             users : 0 .. Cardinality(Workers)]]
  /\ queue \subseteq Configs
  /\ task \in Tasks
  /\ pinned \subseteq Workers
  /\ edits \in 0 .. MaxEdits

\* A write to one resource.
LEMMA ResourceStored ==
  ASSUME UsageTypes, NEW w \in Workers, NEW r \in Stored,
         resource' = [resource EXCEPT ![w] = r]
  PROVE  /\ resource' \in [Workers -> Stored]
         /\ resource'[w] = r
         /\ \A v \in Workers \ {w} : resource'[v] = resource[v]
BY DEF UsageTypes

\* The values that are written.
LEMMA StoredValues ==
  ASSUME UsageTypes, NEW w \in Workers
  PROVE  /\ resource[w] \in Stored
         /\ \A c \in Configs : NewResource(c) \in Stored
         /\ GoneResource(resource[w].ref) \in Stored
         /\ \A s \in Existence : [resource[w] EXCEPT !.state = s] \in Stored
         /\ \A c \in Configs : [resource[w] EXCEPT !.ref = c] \in Stored
         /\ \A p \in BOOLEAN : [resource[w] EXCEPT !.held = TRUE, !.pending = p] \in Stored
<1>1. resource[w] \in Stored
  BY DEF UsageTypes
<1>2. \A c \in Configs : NewResource(c) \in Stored
  BY DEF NewResource, Stored, Existence
<1>3. GoneResource(resource[w].ref) \in Stored
  BY <1>1 DEF GoneResource, Stored, Existence
<1>4. \A s \in Existence : [resource[w] EXCEPT !.state = s] \in Stored
  BY <1>1 DEF Stored
<1>5. \A c \in Configs : [resource[w] EXCEPT !.ref = c] \in Stored
  BY <1>1 DEF Stored
<1>6. \A p \in BOOLEAN : [resource[w] EXCEPT !.held = TRUE, !.pending = p] \in Stored
  BY <1>1 DEF Stored
<1> QED
  BY <1>1, <1>2, <1>3, <1>4, <1>5, <1>6

LEMMA UserStepTypes ==
  ASSUME TypeOK, UsageTypes, UserStep
  PROVE  UsageTypes'
<1> USE ConfigUsageAssumption
<1>0. Cardinality(Workers) \in Nat
  BY FS_CardinalityType
<1>1. ASSUME UserWrites PROVE edits' \in 0 .. MaxEdits
  BY <1>1 DEF UserWrites, UsageTypes
<1>2. ASSUME NEW c \in Configs,
             NEW new \in [state : Existence, inUse : BOOLEAN,
                          users : 0 .. Cardinality(Workers)],
             ConfigIs(c, new)
      PROVE  /\ config' \in [Configs -> [state : Existence, inUse : BOOLEAN,
                                         users : 0 .. Cardinality(Workers)]]
             /\ queue' \subseteq Configs
             /\ task' \in Tasks
  <2>1. task' \in Tasks
    BY <1>2 DEF ConfigIs, UsageTypes, Tasks, NoTask
  <2> QED
    BY <1>2, <2>1 DEF ConfigIs, UsageTypes
<1>3. /\ Absent \in [state : Existence, inUse : BOOLEAN, users : 0 .. Cardinality(Workers)]
      /\ Fresh \in [state : Existence, inUse : BOOLEAN, users : 0 .. Cardinality(Workers)]
  <2>1. 0 \in 0 .. Cardinality(Workers)
    BY <1>0
  <2> QED
    BY <2>1 DEF Absent, Fresh, Existence
<1>4. ASSUME NEW w \in Workers, NEW c \in Configs, UserCreatesResource(w, c)
      PROVE  UsageTypes'
  <2>1. resource' \in [Workers -> Stored]
    BY <1>4, ResourceStored, StoredValues DEF UserCreatesResource
  <2> QED
    BY <1>1, <1>4, <2>1 DEF UserCreatesResource, UsageTypes, connectorVars, vars,
       usageVars, controllerVars
<1>5. ASSUME NEW w \in Workers, NEW c \in Configs, UserEditsReference(w, c)
      PROVE  UsageTypes'
  <2>1. resource' \in [Workers -> Stored]
    BY <1>5, ResourceStored, StoredValues DEF UserEditsReference
  <2> QED
    BY <1>1, <1>5, <2>1 DEF UserEditsReference, UsageTypes, connectorVars, vars,
       usageVars, controllerVars
<1>6. ASSUME NEW w \in Workers, UserDeletesResource(w) \/ UserEditsPolicy(w)
      PROVE  UsageTypes'
  <2>1. PICK state \in Existence : resource' = [resource EXCEPT ![w].state = state]
    BY <1>6 DEF UserDeletesResource, UserEditsPolicy, UsageTypes, Existence
  <2>2. resource' \in [Workers -> Stored]
    BY <2>1, ResourceStored, StoredValues
  <2> QED
    BY <1>1, <1>6, <2>2 DEF UserDeletesResource, UserEditsPolicy, UsageTypes, connectorVars,
         vars, usageVars, controllerVars
<1>7. ASSUME NEW c \in Configs, UserCreatesConfig(c)
      PROVE  UsageTypes'
  BY <1>1, <1>2, <1>3, <1>7 DEF UserCreatesConfig, UsageTypes, connectorVars, vars,
       usageVars, resourceVars
<1>8. ASSUME NEW c \in Configs, UserDeletesConfig(c)
      PROVE  UsageTypes'
  <2>1. [config[c] EXCEPT !.state = "deleting"]
          \in [state : Existence, inUse : BOOLEAN, users : 0 .. Cardinality(Workers)]
    BY DEF UsageTypes, Existence
  <2>2. /\ config' \in [Configs -> [state : Existence, inUse : BOOLEAN,
                                    users : 0 .. Cardinality(Workers)]]
        /\ queue' \subseteq Configs
        /\ task' \in Tasks
    BY <1>2, <1>3, <1>8, <2>1 DEF UserDeletesConfig
  <2>3. pinned' \subseteq Workers
    BY <1>8 DEF UserDeletesConfig, UsageTypes
  <2> QED
    BY <1>1, <1>8, <2>2, <2>3 DEF UserDeletesConfig, UsageTypes, connectorVars, vars,
         resourceVars
<1> QED
  BY <1>4, <1>5, <1>6, <1>7, <1>8 DEF UserStep

LEMMA KubernetesStepTypes ==
  ASSUME TypeOK, UsageTypes, KubernetesStep
  PROVE  UsageTypes'
<1>1. ASSUME NEW w \in Workers, SyncUsage(w) PROVE UsageTypes'
  BY <1>1 DEF SyncUsage, UsageTypes, connectorVars, vars, resourceVars
<1>2. ASSUME NEW w \in Workers, CollectUsage(w) PROVE UsageTypes'
  BY <1>2 DEF CollectUsage, UsageTypes, connectorVars, vars, resourceVars, controllerVars
<1> QED
  BY <1>1, <1>2 DEF KubernetesStep

LEMMA WorkerStepTypes ==
  ASSUME TypeOK, UsageTypes, NEW w \in Workers, WorkerStep(w) \/ BeginStale(w)
  PROVE  UsageTypes'
<1> USE ConfigUsageAssumption
<1>1. CASE Release(w)
  <2>1. resource' \in [Workers -> Stored]
    BY <1>1, ResourceStored, StoredValues DEF Release
  <2> QED
    BY <1>1, <2>1 DEF Release, UsageTypes, connectorVars, vars, usageVars, controllerVars
<1>2. CASE Begin(w) \/ BeginStale(w)
  <2>0. resource[w].ref \in Configs
    BY StoredValues DEF Stored
  <2>1. PICK deleting \in BOOLEAN :
          copy' = [copy EXCEPT ![w] = [ref |-> resource[w].ref, deleting |-> deleting]]
    BY <1>2 DEF Begin, BeginStale
  <2>2. /\ copy'[w] # NoCopy
        /\ copy' \in [Workers -> [ref : Configs, deleting : BOOLEAN] \cup {NoCopy}]
    BY <2>0, <2>1, ConfigUsageAssumption DEF UsageTypes, NoCopy
  <2>3. \A v \in Workers : pc'[v] # "idle" => copy'[v] # NoCopy
    BY <1>2, <2>1, <2>2 DEF Begin, BeginStale, Reconcile, UsageTypes, TypeOK
  <2>4. edits' \in 0 .. MaxEdits
    BY <1>2 DEF Begin, BeginStale, UserWrites, UsageTypes
  <2> QED
    BY <1>2, <2>2, <2>3, <2>4 DEF Begin, BeginStale, UsageTypes, usageVars, controllerVars
<1>3. CASE Track(w)
  <2>1. copy[w].ref \in Configs
    BY <1>3 DEF Track, UsageTypes
  <2> QED
    BY <1>3, <2>1 DEF Track, UsageTypes, connectorVars, vars, controllerVars
<1>4. CASE Dial(w)
  BY <1>4 DEF Dial, ConnectStores, UsageTypes, TypeOK, resourceVars, usageVars, controllerVars
<1>5. CASE Fail(w)
  BY <1>5 DEF Fail, Forget, ConnectFails, UsageTypes, TypeOK, usageVars, controllerVars
<1>6. CASE Return(w)
  BY <1>6 DEF Return, ConnectReturns, UsageTypes, TypeOK, resourceVars, usageVars,
       controllerVars
<1>7. CASE Handle(w)
  <2>1. resource' \in [Workers -> Stored]
    <3>1. CASE UNCHANGED resource
      BY <3>1 DEF UsageTypes
    <3>2. CASE resource' # resource
      BY <1>7, <3>2, ResourceStored, StoredValues DEF Handle
    <3> QED
      BY <3>1, <3>2
  <2>2. \A v \in Workers : pc'[v] # "idle" => copy'[v] # NoCopy
    BY <1>7 DEF Handle, HandlersReturn, UsageTypes, TypeOK
  <2> QED
    BY <1>7, <2>1, <2>2 DEF Handle, UsageTypes, usageVars, controllerVars
<1>8. CASE Close(w)
  BY <1>8 DEF Close, Forget, Disconnect, UsageTypes, TypeOK, usageVars, controllerVars
<1> QED
  BY <1>1, <1>2, <1>3, <1>4, <1>5, <1>6, <1>7, <1>8 DEF WorkerStep

LEMMA ConfigStepTypes ==
  ASSUME TypeOK, UsageTypes, ConfigStep
  PROVE  UsageTypes'
<1> USE ConfigUsageAssumption
<1>0. Cardinality(Workers) \in Nat
  BY FS_CardinalityType
<1>1. ASSUME NEW c \in Configs, ConfigRead(c) PROVE UsageTypes'
  <2>1. [config |-> c, deleting |-> config[c].state = "deleting",
         users |-> Users(c), current |-> TRUE] \in Tasks
    BY UsersCount DEF Tasks
  <2>2. task' \in Tasks
    BY <1>1, <2>1 DEF ConfigRead, Tasks
  <2> QED
    BY <1>1, <2>2 DEF ConfigRead, UsageTypes, connectorVars, vars, resourceVars, usageVars
<1>2. CASE ConfigWrite
  <2>1. task.config \in Configs /\ task.users \in 0 .. Cardinality(Workers)
    BY <1>2 DEF ConfigWrite, UsageTypes, Tasks
  <2>2. Accounted \in [state : Existence, inUse : BOOLEAN, users : 0 .. Cardinality(Workers)]
    <3>1. 0 \in 0 .. Cardinality(Workers)
      BY <1>0
    <3>2. [config[task.config] EXCEPT !.users = task.users]
            \in [state : Existence, inUse : BOOLEAN, users : 0 .. Cardinality(Workers)]
      BY <2>1 DEF UsageTypes
    <3> QED
      BY <3>1, <3>2 DEF Accounted, Absent, Existence
  <2>3. /\ config' \in [Configs -> [state : Existence, inUse : BOOLEAN,
                                    users : 0 .. Cardinality(Workers)]]
        /\ queue' \subseteq Configs
    BY <1>2, <2>1, <2>2 DEF ConfigWrite, UsageTypes
  <2>4. task' \in Tasks
    BY <1>2 DEF ConfigWrite, Tasks
  <2> QED
    BY <1>2, <2>3, <2>4 DEF ConfigWrite, UsageTypes, connectorVars, vars, resourceVars,
         usageVars
<1>3. CASE ConfigConflicts
  <2>1. task.config \in Configs
    BY <1>3 DEF ConfigConflicts, UsageTypes, Tasks
  <2>2. task' \in Tasks
    BY <1>3 DEF ConfigConflicts, Tasks
  <2> QED
    BY <1>3, <2>1, <2>2 DEF ConfigConflicts, UsageTypes, connectorVars, vars,
         resourceVars, usageVars
<1> QED
  BY <1>1, <1>2, <1>3 DEF ConfigStep

\* Every reachable state is well typed.
THEOREM UsageTyping == UsageSpec => []UsageTypeOK
<1>1. UsageInit => UsageTypes
  <2> SUFFICES ASSUME UsageInit PROVE UsageTypes
    OBVIOUS
  <2>1. Cardinality(Workers) \in Nat
    BY ConfigUsageAssumption, FS_CardinalityType
  <2>2. Fresh \in [state : Existence, inUse : BOOLEAN, users : 0 .. Cardinality(Workers)]
    BY <2>1 DEF Fresh, Existence
  <2>3. \A w \in Workers : pc[w] = "idle"
    BY DEF UsageInit, Init
  <2>4. 0 \in 0 .. MaxEdits
    BY ConfigUsageAssumption
  <2>5. resource \in [Workers -> Stored]
    BY DEF UsageInit, NewResource, Stored, Existence
  <2> QED
    BY <2>2, <2>3, <2>4, <2>5 DEF UsageInit, UsageTypes, Tasks
<1>2. TypeOK /\ UsageTypes /\ [UsageNext]_allVars => UsageTypes'
  <2> SUFFICES ASSUME TypeOK, UsageTypes, [UsageNext]_allVars PROVE UsageTypes'
    OBVIOUS
  <2>1. CASE UNCHANGED allVars
    BY <2>1 DEF allVars, connectorVars, vars, resourceVars, usageVars, controllerVars,
         UsageTypes
  <2> QED
    BY <2>1, UserStepTypes, KubernetesStepTypes, WorkerStepTypes, ConfigStepTypes
       DEF UsageNext
<1>3. TypeOK /\ UsageTypes => UsageTypeOK
  BY DEF UsageTypes, UsageTypeOK
<1> QED
  BY <1>1, <1>2, <1>3, UsesConnectors, Typing, PTL DEF UsageSpec

-----------------------------------------------------------------------------
\* Past Track, a reconcile of a resource that is still there.
PastTrack(w) ==
  \/ pc[w] \in {"stored", "use", "disconnect"}
  \/ pc[w] = "connect" /\ stage[w] = "dial"

\* A usage is only missing where nothing, not even the cache, knows of one, so
\* that no Track takes an old entry for it; a held resource exists.
TrackedInv ==
  \A w \in Workers :
    /\ resource[w].state # "absent" /\ usage[w] = None => seenUsage[w] = None
    /\ resource[w].state # "absent" /\ PastTrack(w) => usage[w] # None
    /\ pc[w] = "idle" => stage[w] = "track"
    /\ resource[w].held => resource[w].state # "absent" /\ usage[w] # None

LEMMA TrackedInductive ==
  ASSUME TypeOK, UsageTypes, TrackedInv, [UsageNext]_allVars
  PROVE  TrackedInv'
<1> USE ConfigUsageAssumption DEF PastTrack
<1>0. ASSUME NEW w \in Workers, NEW r \in Stored, resource' = [resource EXCEPT ![w] = r],
             UNCHANGED <<pc, stage, usage, seenUsage>>,
             r.state # "absent" /\ resource[w].state = "absent" =>
               pc[w] = "idle" /\ seenUsage[w] = None,
             r.held => r.state # "absent" /\ usage[w] # None
      PROVE  TrackedInv'
  BY <1>0, ResourceStored DEF TrackedInv
<1>1. ASSUME NEW w \in Workers, NEW c \in Configs,
             UserCreatesResource(w, c) \/ UserEditsReference(w, c)
      PROVE  TrackedInv'
  <2>1. UNCHANGED <<pc, stage, usage, seenUsage>>
    BY <1>1 DEF UserCreatesResource, UserEditsReference, connectorVars, vars, usageVars
  <2>2. CASE UserCreatesResource(w, c)
    <3>1. ~NewResource(c).held /\ pc[w] = "idle" /\ seenUsage[w] = None
      BY <2>2 DEF UserCreatesResource, NewResource
    <3> QED
      BY <1>0, <2>1, <2>2, <3>1, StoredValues DEF UserCreatesResource
  <2>3. CASE UserEditsReference(w, c)
    <3> DEFINE r == [resource[w] EXCEPT !.ref = c]
    <3>1. r.state = resource[w].state /\ r.held = resource[w].held
      BY StoredValues DEF Stored
    <3>2. resource' = [resource EXCEPT ![w] = r] /\ r \in Stored
      BY <2>3, StoredValues DEF UserEditsReference
    <3> HIDE DEF r
    <3> QED
      BY <1>0, <2>1, <3>1, <3>2 DEF TrackedInv
  <2> QED
    BY <1>1, <2>2, <2>3
<1>2. ASSUME NEW w \in Workers, UserDeletesResource(w) \/ UserEditsPolicy(w)
      PROVE  TrackedInv'
  <2>1. UNCHANGED <<pc, stage, usage, seenUsage>> /\ resource[w].state # "absent"
    BY <1>2 DEF UserDeletesResource, UserEditsPolicy, connectorVars, vars, usageVars
  <2>2. PICK state \in Existence :
          /\ resource' = [resource EXCEPT ![w].state = state]
          /\ resource[w].held => state # "absent"
    BY <1>2 DEF UserDeletesResource, UserEditsPolicy, UsageTypes, Existence
  <2> DEFINE r == [resource[w] EXCEPT !.state = state]
  <2>3. r.state = state /\ r.held = resource[w].held /\ r \in Stored
    BY StoredValues DEF Stored
  <2>4. resource' = [resource EXCEPT ![w] = r]
    BY <2>2
  <2> HIDE DEF r
  <2> QED
    BY <1>0, <2>1, <2>2, <2>3, <2>4 DEF TrackedInv
<1>3. ASSUME NEW c \in Configs, UserCreatesConfig(c) \/ UserDeletesConfig(c)
      PROVE  TrackedInv'
  BY <1>3 DEF UserCreatesConfig, UserDeletesConfig, TrackedInv, connectorVars, vars,
       resourceVars, usageVars
<1>4. ASSUME NEW w \in Workers, SyncUsage(w) PROVE TrackedInv'
  BY <1>4 DEF SyncUsage, UsageTypes, TrackedInv, connectorVars, vars, resourceVars
<1>5. ASSUME NEW w \in Workers, CollectUsage(w) PROVE TrackedInv'
  BY <1>5 DEF CollectUsage, UsageTypes, TrackedInv, connectorVars, vars, resourceVars
<1>6. ASSUME NEW w \in Workers, WorkerStep(w) \/ BeginStale(w) PROVE TrackedInv'
  <2>0. CASE Release(w)
    <3>1. UNCHANGED <<pc, stage, usage, seenUsage>>
      BY <2>0 DEF Release, connectorVars, vars, usageVars
    <3>2. ~GoneResource(resource[w].ref).held /\ resource[w].state # "absent"
      BY <2>0 DEF Release, GoneResource
    <3> QED
      BY <1>0, <2>0, <3>1, <3>2, StoredValues DEF Release
  <2>1. CASE Begin(w) \/ BeginStale(w)
    BY <2>1 DEF Begin, BeginStale, Reconcile, UsageTypes, TypeOK, TrackedInv, usageVars
  <2>2. CASE Track(w)
    <3>1. copy[w].ref \in Configs /\ copy[w].ref # None
      BY <2>2 DEF Track, UsageTypes
    <3>2. resource[w].state # "absent" => usage'[w] # None
      BY <2>2, <3>1 DEF Track, UsageTypes, TrackedInv
    <3>3. \A v \in Workers \ {w} :
            usage'[v] = usage[v] /\ stage'[v] = stage[v]
      BY <2>2 DEF Track, UsageTypes
    <3>4. pc[w] = "connect" /\ UNCHANGED <<pc, resource, seenUsage>>
      BY <2>2 DEF Track, connectorVars, vars
    <3>5. resource[w].held => resource[w].state # "absent"
      BY DEF TrackedInv
    <3> QED
      BY <3>2, <3>3, <3>4, <3>5 DEF TrackedInv
  <2>3. CASE Dial(w)
    BY <2>3 DEF Dial, ConnectStores, UsageTypes, TypeOK, TrackedInv, resourceVars, usageVars
  <2>4. CASE Fail(w)
    BY <2>4 DEF Fail, Forget, ConnectFails, UsageTypes, TypeOK, TrackedInv, usageVars
  <2>5. CASE Return(w)
    BY <2>5 DEF Return, ConnectReturns, UsageTypes, TypeOK, TrackedInv, resourceVars,
         usageVars
  <2>6. CASE Handle(w)
    <3>1. pc[w] = "use" /\ pc' = [pc EXCEPT ![w] = "disconnect"]
          /\ UNCHANGED <<stage, usage, seenUsage>>
      BY <2>6 DEF Handle, HandlersReturn, usageVars
    <3>2. \A v \in Workers \ {w} : resource'[v] = resource[v] /\ pc'[v] = pc[v]
      BY <2>6, <3>1 DEF Handle, UsageTypes, TypeOK
    <3>3. /\ resource'[w].state # "absent" => resource[w].state # "absent"
          /\ resource'[w].held => resource'[w].state # "absent"
      <4>1. ASSUME CopyIsCurrent(w), ~copy[w].deleting, NEW p \in BOOLEAN,
                   resource' = [resource EXCEPT ![w] = [@ EXCEPT !.held = TRUE, !.pending = p]]
            PROVE  resource'[w].state # "absent" /\ resource[w].state # "absent"
        <5>1. resource[w].state # "absent"
          BY <4>1 DEF CopyIsCurrent
        <5>2. [resource[w] EXCEPT !.held = TRUE, !.pending = p].state = resource[w].state
          BY StoredValues DEF Stored
        <5> QED
          BY <4>1, <5>1, <5>2, StoredValues, ResourceStored
      <4>2. CASE resource' = [resource EXCEPT ![w] = GoneResource(@.ref)]
        BY <4>2, StoredValues, ResourceStored DEF GoneResource
      <4>3. CASE UNCHANGED resource
        BY <4>3 DEF TrackedInv
      <4> QED
        BY <2>6, <4>1, <4>2, <4>3 DEF Handle
    <3>4. pc'[w] = "disconnect"
      BY <3>1 DEF TypeOK
    <3> QED
      BY <3>1, <3>2, <3>3, <3>4 DEF TrackedInv
  <2>7. CASE Close(w)
    BY <2>7 DEF Close, Forget, Disconnect, UsageTypes, TypeOK, TrackedInv, usageVars
  <2> QED
    BY <1>6, <2>0, <2>1, <2>2, <2>3, <2>4, <2>5, <2>6, <2>7 DEF WorkerStep
<1>7. CASE ConfigStep
  BY <1>7 DEF ConfigStep, ConfigRead, ConfigWrite, ConfigConflicts, TrackedInv,
       connectorVars, vars, resourceVars, usageVars
<1>8. CASE UNCHANGED allVars
  BY <1>8 DEF allVars, connectorVars, vars, resourceVars, usageVars, TrackedInv
<1> QED
  BY <1>1, <1>2, <1>3, <1>4, <1>5, <1>6, <1>7, <1>8
     DEF UsageNext, UserStep, KubernetesStep

\* No resource has a finalizer, and so something in Central, without a usage
\* of its ProviderConfig, whatever is edited, deleted or read late.
THEOREM HeldIsTracked == UsageSpec => []HeldAreTracked
<1>1. UsageInit => TrackedInv
  <2> SUFFICES ASSUME UsageInit PROVE TrackedInv
    OBVIOUS
  <2>1. ASSUME NEW w \in Workers PROVE ~resource[w].held
    <3>1. PICK c : resource[w] = NewResource(c)
      BY DEF UsageInit
    <3> QED
      BY <3>1 DEF NewResource
  <2>2. \A w \in Workers : pc[w] = "idle" /\ stage[w] = "track" /\ seenUsage[w] = None
    BY DEF UsageInit, Init
  <2> QED
    BY <2>1, <2>2 DEF TrackedInv, PastTrack
<1>2. UsageTypeOK => TypeOK /\ UsageTypes
  BY DEF UsageTypeOK, UsageTypes
<1>3. TrackedInv => HeldAreTracked
  BY DEF TrackedInv, HeldAreTracked
<1> QED
  BY <1>1, <1>2, <1>3, TrackedInductive, UsageTyping, PTL DEF UsageSpec

-----------------------------------------------------------------------------
\* The ProviderConfig of a user that was known when it was deleted is being
\* deleted, its user is still known, and a reconcile that could write to it
\* has counted that user.
PinnedInv ==
  \A w \in pinned :
    /\ usage[w] \in Configs
    /\ seenUsage[w] = usage[w]
    /\ config[usage[w]].state = "deleting"
    /\ task # NoTask /\ task.config = usage[w] /\ task.current =>
         task.deleting /\ task.users > 0

LEMMA PinnedInductive ==
  ASSUME TypeOK, UsageTypes, PinnedInv, [UsageNext]_allVars
  PROVE  PinnedInv'
<1> USE ConfigUsageAssumption
<1>1. ASSUME NEW w \in Workers, NEW c \in Configs,
             UserCreatesResource(w, c) \/ UserEditsReference(w, c)
      PROVE  PinnedInv'
  BY <1>1 DEF UserCreatesResource, UserEditsReference, PinnedInv, usageVars, controllerVars
<1>2. ASSUME NEW w \in Workers, UserDeletesResource(w) \/ UserEditsPolicy(w)
      PROVE  PinnedInv'
  BY <1>2 DEF UserDeletesResource, UserEditsPolicy, PinnedInv, usageVars, controllerVars
<1>3. ASSUME NEW c \in Configs, UserCreatesConfig(c) PROVE PinnedInv'
  <2>1. \A w \in pinned : usage[w] # c
    BY <1>3 DEF UserCreatesConfig, PinnedInv
  <2>2. \A d \in Configs \ {c} : config'[d] = config[d]
    BY <1>3 DEF UserCreatesConfig, ConfigIs, UsageTypes
  <2>3. /\ task = NoTask => task' = NoTask
        /\ task # NoTask /\ task.config # c => task' = task
        /\ task # NoTask /\ task.config = c => task'.config = c
    BY <1>3 DEF UserCreatesConfig, ConfigIs, UsageTypes, Tasks
  <2>4. UNCHANGED <<usage, seenUsage, pinned>>
    BY <1>3 DEF UserCreatesConfig, usageVars
  <2> QED
    BY <2>1, <2>2, <2>3, <2>4 DEF PinnedInv
<1>4. ASSUME NEW c \in Configs, UserDeletesConfig(c) PROVE PinnedInv'
  <2>1. \A w \in pinned : usage[w] # c
    BY <1>4 DEF UserDeletesConfig, PinnedInv
  <2>2. \A d \in Configs \ {c} : config'[d] = config[d]
    BY <1>4 DEF UserDeletesConfig, ConfigIs, UsageTypes
  <2>3. task # NoTask /\ task.config = c => ~task'.current
    BY <1>4 DEF UserDeletesConfig, ConfigIs, UsageTypes, Tasks
  <2>4. /\ task = NoTask => task' = NoTask
        /\ task # NoTask /\ task.config # c => task' = task
        /\ task # NoTask /\ task.config = c => task'.config = c
    BY <1>4 DEF UserDeletesConfig, ConfigIs, UsageTypes, Tasks
  <2>5. UNCHANGED <<usage, seenUsage>>
    BY <1>4 DEF UserDeletesConfig
  <2>6. \A w \in pinned' \ pinned :
          usage[w] = c /\ seenUsage[w] = c /\ config'[c].state = "deleting"
    BY <1>4 DEF UserDeletesConfig, ConfigIs, UsageTypes
  <2> QED
    BY <2>1, <2>2, <2>3, <2>4, <2>5, <2>6 DEF PinnedInv
<1>5. ASSUME NEW w \in Workers, SyncUsage(w) PROVE PinnedInv'
  BY <1>5 DEF SyncUsage, UsageTypes, PinnedInv
<1>6. ASSUME NEW w \in Workers, CollectUsage(w) PROVE PinnedInv'
  BY <1>6 DEF CollectUsage, UsageTypes, PinnedInv, controllerVars
<1>7. ASSUME NEW w \in Workers, WorkerStep(w) \/ BeginStale(w) PROVE PinnedInv'
  <2>1. CASE Track(w)
    BY <2>1 DEF Track, UsageTypes, PinnedInv, controllerVars
  <2>2. CASE ~Track(w)
    BY <1>7, <2>2 DEF WorkerStep, Release, Begin, BeginStale, Dial, Fail, Return, Handle, Close, PinnedInv,
         usageVars, controllerVars
  <2> QED
    BY <2>1, <2>2
<1>8. ASSUME NEW c \in Configs, ConfigRead(c) PROVE PinnedInv'
  <2>1. UNCHANGED <<usage, seenUsage, pinned, config>>
    BY <1>8 DEF ConfigRead, usageVars
  <2>2. ASSUME NEW w \in pinned, usage[w] = c
        PROVE  task'.deleting /\ task'.users > 0
    <3>1. Users(c) > 0
      BY <2>2, UsersCount DEF PinnedInv, UsageTypes
    <3> QED
      BY <1>8, <2>2, <3>1 DEF ConfigRead, PinnedInv
  <2>3. task' = NoTask \/ task'.config = c
    BY <1>8 DEF ConfigRead
  <2> QED
    BY <2>1, <2>2, <2>3 DEF PinnedInv
<1>9. CASE ConfigWrite
  <2>1. task.config \in Configs
    BY <1>9 DEF ConfigWrite, UsageTypes, Tasks
  <2>2. \A d \in Configs \ {task.config} : config'[d] = config[d]
    BY <1>9, <2>1 DEF ConfigWrite, UsageTypes
  <2>3. ASSUME NEW w \in pinned, usage[w] = task.config
        PROVE  config'[task.config].state = "deleting"
    <3>1. task.deleting /\ task.users > 0 /\ config[task.config].state = "deleting"
      BY <1>9, <2>3 DEF ConfigWrite, PinnedInv
    <3>2. Accounted.state = "deleting"
      BY <2>1, <3>1 DEF Accounted, UsageTypes
    <3> QED
      BY <1>9, <2>1, <3>2 DEF ConfigWrite, UsageTypes
  <2>4. UNCHANGED <<usage, seenUsage, pinned>> /\ task' = NoTask
    BY <1>9 DEF ConfigWrite, usageVars
  <2> QED
    BY <2>2, <2>3, <2>4 DEF PinnedInv
<1>10. CASE ConfigConflicts
  BY <1>10 DEF ConfigConflicts, PinnedInv, usageVars
<1>11. CASE UNCHANGED allVars
  BY <1>11 DEF allVars, usageVars, controllerVars, PinnedInv
<1> QED
  BY <1>1, <1>2, <1>3, <1>4, <1>5, <1>6, <1>7, <1>8, <1>9, <1>10, <1>11
     DEF UsageNext, UserStep, KubernetesStep, ConfigStep

\* A deleted ProviderConfig outlives every user its controller knew of, for
\* any number of resources that use it at once.
THEOREM KnownUsersAreSafe == UsageSpec => []KnownUsersKeepConfig
<1>1. UsageInit => PinnedInv
  BY DEF UsageInit, PinnedInv
<1>2. UsageTypeOK => TypeOK /\ UsageTypes
  BY DEF UsageTypeOK, UsageTypes
<1>3. PinnedInv => KnownUsersKeepConfig
  BY ConfigUsageAssumption DEF PinnedInv, KnownUsersKeepConfig
<1> QED
  BY <1>1, <1>2, <1>3, PinnedInductive, UsageTyping, PTL DEF UsageSpec

=============================================================================
