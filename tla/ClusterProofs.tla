--------------------------- MODULE ClusterProofs ---------------------------
(***************************************************************************)
(* Proofs about the Cluster controller, for every set of resources, every  *)
(* set of specifications and every bound.                                  *)
(***************************************************************************)
EXTENDS Cluster, ReconcilerProofs

-----------------------------------------------------------------------------
(***************************************************************************)
(* Types.                                                                  *)
(***************************************************************************)

\* What stands for no cluster is well formed.
LEMMA NoClusterType == NoCluster \in External
<1>1. (CHOOSE s \in Specs : TRUE) \in Specs
  BY ReconcilerAssumption
<1> QED
  BY <1>1, ReconcilerAssumption DEF NoCluster, External

\* Whatever cluster it starts from, a handler sends a request.
LEMMA RequestType ==
  ASSUME TypeOK, NEW m \in Resources, NEW from \in External, NEW op \in {"post", "put", "delete"}
  PROVE  /\ generateCluster(m, op, from) \in Request
         /\ generateCluster(m, op, from).id = from.id
<1>1. mg[m].spec \in Specs
  BY DEF TypeOK, CommonTypeOK, Managed
<1> QED
  BY <1>1 DEF generateCluster, Request, External

\* The steps of the surroundings keep the types; they leave base alone.
LEMMA SharedStepType ==
  ASSUME TypeOK, NEW m \in Resources,
         \/ Begin(m) \/ AddFinalizer(m) \/ MarkPending(m) \/ MarkOutcome(m)
         \/ RemoveFinalizer(m) \/ UpdateStatus(m) \/ CacheSync(m)
         \/ UserCreates(m) \/ UserEdits(m) \/ UserDeletes(m)
  PROVE  TypeOK'
  BY BeginType, AddFinalizerType, MarkPendingType, MarkOutcomeType, RemoveFinalizerType,
     UpdateStatusType, CacheSyncType, UserType
  DEF TypeOK, Begin, AddFinalizer, MarkPending, MarkOutcome, RemoveFinalizer, UpdateStatus,
      CacheSync, UserCreates, UserEdits, UserDeletes

\* A handler that fails keeps the types.
LEMMA HandlerFailsType ==
  ASSUME TypeOK, NEW m \in Resources, HandlerFails(m)
  PROVE  TypeOK'
  BY DisruptType
  DEF HandlerFails, Fault, Goto, Phases, kubeVars, centralVars, TypeOK, CommonTypeOK

\* Observe keeps the types.
LEMMA ObserveType ==
  ASSUME TypeOK, NEW m \in Resources, ObserveFinds(m) \/ ObserveMisses(m) \/ ObserveFails(m)
  PROVE  TypeOK'
<1>1. CASE ObserveFinds(m)
  <2>1. PICK c \in getCluster(m) :
          /\ mg' = [mg EXCEPT ![m].ready = "Available", ![m].id = c.id]
          /\ AfterObserve(m, TRUE, isUpToDate(m, c))
    BY <1>1 DEF ObserveFinds
  <2>2. c.id \in Nat /\ mg[m] \in Managed
    BY DEF getCluster, Named, External, TypeOK, CommonTypeOK
  <2>3. [mg[m] EXCEPT !.ready = "Available", !.id = c.id] \in Managed
    BY <2>2, ManagedUpdates
  <2>4. mg' \in [Resources -> Managed]
    BY <2>1, <2>3 DEF TypeOK, CommonTypeOK
  <2>5. isUpToDate(m, c) \in BOOLEAN
    BY DEF isUpToDate
  <2>6. /\ pc' \in [Resources -> Phases]
        /\ goal' \in [Resources -> {"pending", "status", "update"}]
    BY <2>1, <2>5, AfterObserveType DEF TypeOK
  <2> QED
    BY <1>1, <2>4, <2>6 DEF ObserveFinds, kubeVars, centralVars, TypeOK, CommonTypeOK
<1>2. CASE ObserveMisses(m)
  <2>1. CASE AfterObserve(m, FALSE, FALSE) /\ UNCHANGED <<mg, mgCurrent, budget>>
    BY <1>2, <2>1, AfterObserveType DEF ObserveMisses, kubeVars, centralVars, TypeOK, CommonTypeOK
  <2>2. CASE WaitForCreation(m)
    BY <1>2, <2>2, FinishType, DisruptType
    DEF ObserveMisses, WaitForCreation, kubeVars, centralVars, TypeOK, CommonTypeOK
  <2> QED
    BY <1>2, <2>1, <2>2 DEF ObserveMisses
<1>3. CASE ObserveFails(m)
  BY <1>3, HandlerFailsType DEF ObserveFails
<1> QED
  BY <1>1, <1>2, <1>3

\* Create keeps the types.
LEMMA CreateType ==
  ASSUME TypeOK, NEW m \in Resources, Create(m)
  PROVE  TypeOK'
<1> DEFINE r == generateCluster(m, "post", NoCluster)
<1>1. r \in Request
  BY RequestType, NoClusterType
<1>2. CallSucceeds(r) \/ CallFails(r)
  BY SilentCall DEF Create
<1>3. central' \subseteq External /\ wire' \subseteq Request /\ nextId' \in Nat /\ budget' \in Nat
  BY <1>1, <1>2, CallType DEF TypeOK
<1>4. mg[m] \in Managed /\ (CallSucceeds(r) \/ CallSucceedsSilently(r) => nextId' - 1 \in Nat)
  BY <1>1, NewestType DEF generateCluster, TypeOK, CommonTypeOK
<1>5. /\ CallSucceeds(r) \/ CallSucceedsSilently(r) =>
           [mg[m] EXCEPT !.ready = "Creating", !.id = nextId' - 1] \in Managed
      /\ [mg[m] EXCEPT !.ready = "Creating"] \in Managed
  BY <1>4, ManagedUpdates
<1>6. mg' \in [Resources -> Managed] /\ pc' \in [Resources -> Phases]
  BY <1>5 DEF Create, SetReady, Goto, Phases, TypeOK, CommonTypeOK
<1> QED
  BY <1>3, <1>6 DEF Create, kubeVars, TypeOK, CommonTypeOK

\* Update keeps the types.
LEMMA UpdateType ==
  ASSUME TypeOK, NEW m \in Resources, UpdateGet(m) \/ UpdateGetFails(m) \/ UpdatePut(m)
  PROVE  TypeOK'
<1>1. CASE UpdateGet(m)
  <2>1. \A c \in getCluster(m) : c \in External
    BY DEF getCluster, Named, TypeOK, CommonTypeOK
  <2> QED
    BY <1>1, <2>1 DEF UpdateGet, Goto, Phases, kubeVars, centralVars, TypeOK, CommonTypeOK
<1>2. CASE UpdateGetFails(m)
  BY <1>2, HandlerFailsType DEF UpdateGetFails
<1>3. CASE UpdatePut(m)
  <2> DEFINE r == generateCluster(m, "put", base[m])
  <2>1. base[m] \in External
    BY DEF TypeOK
  <2>2. r \in Request /\ r.id \in Nat
    BY <2>1, RequestType DEF Request
  <2>3. CallSucceeds(r) \/ CallFails(r)
    BY <1>3, SilentCall DEF UpdatePut
  <2>4. central' \subseteq External /\ wire' \subseteq Request /\ nextId' \in Nat /\ budget' \in Nat
    BY <2>2, <2>3, CallType DEF TypeOK
  <2>5. mg[m] \in Managed
    BY DEF TypeOK, CommonTypeOK
  <2>6. [mg[m] EXCEPT !.id = r.id] \in Managed
    BY <2>2, <2>5, ManagedUpdates
  <2>7. mg' \in [Resources -> Managed] /\ pc' \in [Resources -> Phases]
    BY <1>3, <2>6 DEF UpdatePut, Goto, Phases, TypeOK, CommonTypeOK
  <2>8. base' \in [Resources -> External]
    BY <1>3, NoClusterType DEF UpdatePut, TypeOK
  <2> QED
    BY <1>3, <2>4, <2>7, <2>8 DEF UpdatePut, kubeVars, TypeOK, CommonTypeOK
<1> QED
  BY <1>1, <1>2, <1>3

\* Delete keeps the types.
LEMMA DeleteType ==
  ASSUME TypeOK, NEW m \in Resources, Delete(m)
  PROVE  TypeOK'
<1> DEFINE r == [generateCluster(m, "delete", NoCluster) EXCEPT !.id = mg[m].id]
<1>1. mg[m] \in Managed
  BY DEF TypeOK, CommonTypeOK
<1>2. r \in Request
  <2>1. generateCluster(m, "delete", NoCluster) \in Request
    BY RequestType, NoClusterType
  <2>2. mg[m].id \in Nat
    BY <1>1 DEF Managed
  <2> QED
    BY <2>1, <2>2 DEF Request
<1>3. CallSucceeds(r) \/ CallFails(r)
  BY DEF Delete
<1>4. central' \subseteq External /\ wire' \subseteq Request /\ nextId' \in Nat /\ budget' \in Nat
  BY <1>2, <1>3, CallType DEF TypeOK
<1>5. [mg[m] EXCEPT !.ready = "Deleting"] \in Managed
  BY <1>1, ManagedUpdates
<1>6. mg' \in [Resources -> Managed] /\ pc' \in [Resources -> Phases]
  BY <1>5 DEF Delete, SetReady, Goto, Phases, TypeOK, CommonTypeOK
<1> QED
  BY <1>4, <1>6 DEF Delete, kubeVars, TypeOK, CommonTypeOK

\* Connect and publishing keep the types.
LEMMA ConnectPublishType ==
  ASSUME TypeOK, NEW m \in Resources, Connect(m) \/ Publish(m)
  PROVE  TypeOK'
<1>1. CASE HandlerFails(m)
  BY <1>1, HandlerFailsType
<1>2. CASE ~HandlerFails(m)
  BY <1>2 DEF Connect, Publish, Goto, Phases, kubeVars, centralVars, TypeOK, CommonTypeOK
<1> QED
  BY <1>1, <1>2

\* Every variable always has its type: every write the reconciler and the
\* handlers do, every answer of Central and every late request is well formed.
THEOREM Typing == Spec => []TypeOK
<1>1. Init => TypeOK
  BY CommonInitType, NoClusterType DEF Init, TypeOK
<1>2. TypeOK /\ [Next]_vars => TypeOK'
  <2> SUFFICES ASSUME TypeOK, [Next]_vars
               PROVE  TypeOK'
    OBVIOUS
  <2>1. ASSUME NEW m \in Resources, Worker(m)
        PROVE  TypeOK'
    BY <2>1, SharedStepType, ObserveType, CreateType, UpdateType, DeleteType, ConnectPublishType
    DEF Worker
  <2>2. ASSUME NEW m \in Resources, CacheSync(m) \/ UserCreates(m) \/ UserEdits(m) \/ UserDeletes(m)
        PROVE  TypeOK'
    BY <2>2, SharedStepType
  <2>3. CASE AdminActs
    BY <2>3, AdminType DEF AdminActs, TypeOK
  <2>4. CASE Arrive
    BY <2>4, ArriveType DEF Arrive, TypeOK
  <2>5. CASE Crash
    BY <2>5, CrashType, NoClusterType DEF Crash, TypeOK
  <2>6. CASE UNCHANGED vars
    BY <2>6 DEF vars, commonVars, kubeVars, workerVars, centralVars, TypeOK, CommonTypeOK
  <2> QED
    BY <2>1, <2>2, <2>3, <2>4, <2>5, <2>6 DEF Next
<1> QED
  BY <1>1, <1>2, PTL DEF Spec

-----------------------------------------------------------------------------
(***************************************************************************)
(* The invariant.                                                          *)
(***************************************************************************)

\* What the handlers of the other workers aim at stays; and of this worker,
\* when it does not aim at anything afterwards.
LEMMA TargetsKeep ==
  ASSUME TypeOK, HandlerTargets, NEW m \in Resources,
         \A i \in Nat : \A n : Denotes(i, n) => Denotes(i, n)',
         \A k \in Resources \ {m} : mg'[k] = mg[k] /\ pc'[k] = pc[k] /\ base'[k] = base[k],
         pc'[m] \notin {"put", "delete"}
  PROVE  HandlerTargets'
<1>1. \A k \in Resources : mg[k].id \in Nat /\ base[k].id \in Nat
  BY DEF TypeOK, CommonTypeOK, Managed, External
<1> QED
  BY <1>1 DEF HandlerTargets

\* It stays as well when no worker moves.
LEMMA TargetsStay ==
  ASSUME TypeOK, HandlerTargets, UNCHANGED <<pc, mg, base>>,
         \A i \in Nat : \A n : Denotes(i, n) => Denotes(i, n)'
  PROVE  HandlerTargets'
<1>1. \A k \in Resources : mg[k].id \in Nat /\ base[k].id \in Nat
  BY DEF TypeOK, CommonTypeOK, Managed, External
<1> QED
  BY <1>1 DEF HandlerTargets

\* Neither a handler that only moves its worker on, nor one that fails, nor one
\* that sends a request that fits, breaks the invariant.
LEMMA HandlerInv ==
  ASSUME Inv, TypeOK', NEW m \in Resources, SameButStatus(m),
         UNCHANGED kubeVars, UNCHANGED mgCurrent,
         pc[m] # "idle", NEW phase, pc' = [pc EXCEPT ![m] = phase],
         phase \notin {"idle", "pending", "create", "put", "delete"},
         phase \in {"connect", "observe"} => pc[m] = "connect",
         phase = "finalizer" => pc[m] = "observe" /\ ~mg[m].deleting,
         phase = "release" => mg[m].deleting,
         phase \in {"succeeded", "failed"} => pc[m] = "create",
         \A k \in Resources \ {m} : base'[k] = base[k],
         \/ UNCHANGED centralVars
         \/ \E r \in Request :
              /\ CallSucceeds(r) \/ CallFails(r)
              /\ r.op = "put" => Denotes(r.id, r.spec.name)
  PROVE  Inv'
<1>1. CommonTypeOK /\ TypeOK /\ ReconcileInv /\ IdentifiersKeepNames /\ HandlerTargets
  BY DEF Inv, TypeOK
<1>2. /\ ReconcileInv'
      /\ pc'[m] = phase
      /\ \A k \in Resources \ {m} : mg'[k] = mg[k] /\ pc'[k] = pc[k]
  BY <1>1, StatusOnly
<1>3. /\ IdentifiersKeepNames'
      /\ \A i \in Nat : \A n : Denotes(i, n) => Denotes(i, n)'
  BY <1>1, ElsewhereKeepsNames, CallKeepsNames
<1>4. HandlerTargets'
  BY <1>1, <1>2, <1>3, TargetsKeep
<1> QED
  BY <1>2, <1>3, <1>4 DEF Inv

\* The reconciler's own steps keep the invariant.
LEMMA SharedStepInv ==
  ASSUME Inv, TypeOK', NEW m \in Resources,
         \/ Begin(m) \/ AddFinalizer(m) \/ MarkPending(m) \/ MarkOutcome(m)
         \/ RemoveFinalizer(m) \/ UpdateStatus(m)
  PROVE  Inv'
<1>1. CommonTypeOK /\ TypeOK /\ ReconcileInv /\ IdentifiersKeepNames /\ HandlerTargets
  BY DEF Inv, TypeOK
<1>2. /\ UNCHANGED base
      /\ \/ BeginStep(m) \/ AddFinalizerStep(m) \/ MarkPendingStep(m) \/ MarkOutcomeStep(m)
         \/ RemoveFinalizerStep(m) \/ UpdateStatusStep(m)
  BY DEF Begin, AddFinalizer, MarkPending, MarkOutcome, RemoveFinalizer, UpdateStatus
<1>3. ReconcileInv'
  BY <1>1, <1>2, BeginKeeps, AddFinalizerKeeps, MarkPendingKeeps, MarkOutcomeKeeps,
     RemoveFinalizerKeeps, UpdateStatusKeeps
<1>4. /\ UNCHANGED centralVars
      /\ pc'[m] \notin {"put", "delete"}
      /\ \A k \in Resources \ {m} : mg'[k] = mg[k] /\ pc'[k] = pc[k]
  BY <1>1, <1>2, SharedStepMoves
<1>5. /\ IdentifiersKeepNames'
      /\ \A i \in Nat : \A n : Denotes(i, n) => Denotes(i, n)'
  BY <1>1, <1>4, ElsewhereKeepsNames
<1>6. HandlerTargets'
  BY <1>1, <1>2, <1>4, <1>5, TargetsKeep
<1> QED
  BY <1>3, <1>5, <1>6 DEF Inv

\* So does everyone else.
LEMMA OthersInv ==
  ASSUME Inv, TypeOK',
         \/ \E m \in Resources :
              CacheSync(m) \/ UserCreates(m) \/ UserEdits(m) \/ UserDeletes(m)
         \/ AdminActs \/ Arrive \/ UNCHANGED vars
  PROVE  Inv'
<1>1. CommonTypeOK /\ TypeOK /\ ReconcileInv /\ IdentifiersKeepNames /\ HandlerTargets
  BY DEF Inv, TypeOK
<1>2. UNCHANGED <<pc, mg, base>>
  BY DEF CacheSync, UserCreates, UserEdits, UserDeletes, AdminActs, Arrive, vars, commonVars,
         CacheSyncStep, UserCreatesStep, UserEditsStep, UserDeletesStep, UserStores,
         AdminStep, ArriveStep, workerVars
<1>3. ReconcileInv'
  <2>1. ASSUME NEW m \in Resources, CacheSync(m)
        PROVE  ReconcileInv'
    BY <1>1, <2>1, CacheSyncKeeps DEF CacheSync
  <2>2. ASSUME NEW m \in Resources, UserCreates(m) \/ UserEdits(m) \/ UserDeletes(m)
        PROVE  ReconcileInv'
    BY <1>1, <2>2, UserKeeps DEF UserCreates, UserEdits, UserDeletes
  <2>3. CASE AdminActs \/ Arrive \/ UNCHANGED vars
    <3>1. UNCHANGED <<kubeVars, workerVars>>
      BY <2>3 DEF AdminActs, AdminStep, Arrive, ArriveStep, vars, commonVars
    <3> QED
      BY <1>1, <3>1, ElsewhereKeeps
  <2> QED
    BY <2>1, <2>2, <2>3
<1>4. /\ IdentifiersKeepNames'
      /\ \A i \in Nat : \A n : Denotes(i, n) => Denotes(i, n)'
  <2>1. CASE AdminActs
    BY <1>1, <2>1, AdminKeepsNames DEF AdminActs
  <2>2. CASE Arrive
    BY <1>1, <2>2, ArriveKeepsNames DEF Arrive
  <2>3. CASE ~AdminActs /\ ~Arrive
    <3>1. UNCHANGED centralVars
      BY <2>3 DEF CacheSync, UserCreates, UserEdits, UserDeletes, vars, commonVars,
         CacheSyncStep, UserCreatesStep, UserEditsStep, UserDeletesStep, UserStores
    <3> QED
      BY <1>1, <3>1, ElsewhereKeepsNames
  <2> QED
    BY <2>1, <2>2, <2>3
<1>5. HandlerTargets'
  BY <1>1, <1>2, <1>4, TargetsStay
<1> QED
  BY <1>3, <1>4, <1>5 DEF Inv

\* So does a restart: no worker aims at anything after it.
LEMMA CrashInv ==
  ASSUME Inv, TypeOK', Crash
  PROVE  Inv'
<1>1. CommonTypeOK /\ ReconcileInv /\ IdentifiersKeepNames
  BY DEF Inv, TypeOK
<1>2. ReconcileInv'
  BY <1>1, CrashKeeps DEF Crash
<1>3. IdentifiersKeepNames'
  BY <1>1, ElsewhereKeepsNames DEF Crash, CrashStep
<1>4. HandlerTargets'
  BY DEF Crash, CrashStep, HandlerTargets
<1> QED
  BY <1>2, <1>3, <1>4 DEF Inv

\* Connecting, publishing and failing keep the invariant.
LEMMA PassiveInv ==
  ASSUME Inv, TypeOK', NEW m \in Resources,
         Connect(m) \/ Publish(m) \/ ObserveFails(m) \/ UpdateGetFails(m)
  PROVE  Inv'
<1>1. /\ SameButStatus(m) /\ UNCHANGED kubeVars /\ UNCHANGED mgCurrent
      /\ UNCHANGED centralVars /\ UNCHANGED base
      /\ pc[m] \in {"connect", "observe", "update", "publish"}
      /\ Goto(m, "status") \/ (Goto(m, "observe") /\ pc[m] = "connect")
  BY MemoryUnchanged DEF Connect, Publish, ObserveFails, UpdateGetFails, HandlerFails
<1>2. CASE Goto(m, "status")
  BY <1>1, <1>2, HandlerInv DEF Goto
<1>3. CASE Goto(m, "observe") /\ pc[m] = "connect"
  BY <1>1, <1>3, HandlerInv DEF Goto
<1> QED
  BY <1>1, <1>2, <1>3

\* Observe keeps the invariant: the identifier it stores denotes the name it
\* looked for, and what is deleted then is to be.
LEMMA ObserveFindsInv ==
  ASSUME Inv, TypeOK', NEW m \in Resources, ObserveFinds(m)
  PROVE  Inv'
<1>1. CommonTypeOK /\ TypeOK /\ ReconcileInv /\ IdentifiersKeepNames /\ HandlerTargets
  BY DEF Inv, TypeOK
<1>2. PICK c \in getCluster(m) :
        /\ mg' = [mg EXCEPT ![m].ready = "Available", ![m].id = c.id]
        /\ AfterObserve(m, TRUE, isUpToDate(m, c))
  BY DEF ObserveFinds
<1>3. PICK phase \in {"delete", "finalizer"} :
        /\ pc' = [pc EXCEPT ![m] = phase]
        /\ phase = "delete" <=> mg[m].deleting
  BY <1>2 DEF AfterObserve, Goto
<1>4. SameButStatus(m)
  BY <1>1, <1>2, MemoryStatus
<1>5. /\ ReconcileInv'
      /\ pc'[m] = phase
      /\ \A k \in Resources \ {m} : mg'[k] = mg[k] /\ pc'[k] = pc[k]
  BY <1>1, <1>3, <1>4, StatusOnly DEF ObserveFinds
<1>6. /\ IdentifiersKeepNames'
      /\ \A i \in Nat : \A n : Denotes(i, n) => Denotes(i, n)'
  BY <1>1, ElsewhereKeepsNames DEF ObserveFinds
<1>7. UNCHANGED base
  BY DEF ObserveFinds
<1>8. CASE phase = "finalizer"
  <2>1. HandlerTargets'
    BY <1>1, <1>5, <1>6, <1>7, <1>8, TargetsKeep
  <2> QED
    BY <1>5, <1>6, <2>1 DEF Inv
<1>9. CASE phase = "delete"
  <2>1. mg'[m].id = c.id /\ c.id \in Nat
    BY <1>1, <1>2 DEF getCluster, Named, External, CommonTypeOK, Managed
  <2>2. Denotes(c.id, mg[m].spec.name)
    BY <1>1 DEF getCluster, Named, IdentifiersKeepNames
  <2>3. Denotes(mg[m].id, mg[m].spec.name)'
    <3>1. Denotes(c.id, mg[m].spec.name)
          => /\ c.id < nextId'
             /\ \A d \in central' : d.id = c.id => d.spec.name = mg[m].spec.name
      BY <1>6, <2>1 DEF Denotes
    <3> QED
      BY <1>4, <2>1, <2>2, <3>1 DEF SameButStatus, Denotes
  <2>4. mg'[m].deleting /\ mg'[m].policy = "Delete"
    BY <1>1, <1>3, <1>4, <1>9 DEF ObserveFinds, SameButStatus, ReconcileInv, WorkerHolds, Holds
  <2>5. \A k \in Resources : mg[k].id \in Nat /\ base[k].id \in Nat
    BY <1>1 DEF TypeOK, CommonTypeOK, Managed, External
  <2>6. HandlerTargets'
    BY <1>1, <1>5, <1>6, <1>7, <1>9, <2>3, <2>4, <2>5 DEF HandlerTargets
  <2> QED
    BY <1>5, <1>6, <2>6 DEF Inv
<1> QED
  BY <1>3, <1>8, <1>9

\* Looking in vain keeps the invariant.
LEMMA ObserveMissesInv ==
  ASSUME Inv, TypeOK', NEW m \in Resources, ObserveMisses(m)
  PROVE  Inv'
<1>1. CommonTypeOK /\ TypeOK /\ ReconcileInv /\ IdentifiersKeepNames /\ HandlerTargets
  BY DEF Inv, TypeOK
<1>2. /\ pc[m] = "observe" /\ UNCHANGED kubeVars /\ UNCHANGED centralVars /\ UNCHANGED base
  BY DEF ObserveMisses
<1>3. CASE AfterObserve(m, FALSE, FALSE) /\ UNCHANGED <<mg, mgCurrent, budget>>
  <2>1. PICK phase \in {"release", "finalizer"} :
          /\ pc' = [pc EXCEPT ![m] = phase]
          /\ phase = "release" <=> mg[m].deleting
    BY <1>3 DEF AfterObserve, Goto
  <2>2. SameButStatus(m)
    BY <1>3, MemoryUnchanged
  <2> QED
    BY <1>2, <1>3, <2>1, <2>2, HandlerInv
<1>4. CASE WaitForCreation(m)
  <2>1. /\ pc'[m] = "idle" /\ mgCurrent' = mgCurrent \ {m}
        /\ \A k \in Resources \ {m} : mg'[k] = mg[k] /\ pc'[k] = pc[k]
    BY <1>1, <1>4 DEF WaitForCreation, Finish, Goto, CommonTypeOK
  <2>2. ReconcileInv'
    BY <1>1, <1>2, <2>1, HandlerKeeps DEF kubeVars
  <2>3. /\ IdentifiersKeepNames'
        /\ \A i \in Nat : \A n : Denotes(i, n) => Denotes(i, n)'
    BY <1>1, <1>2, ElsewhereKeepsNames
  <2>4. HandlerTargets'
    BY <1>1, <1>2, <2>1, <2>3, TargetsKeep
  <2> QED
    BY <2>2, <2>3, <2>4 DEF Inv
<1> QED
  BY <1>3, <1>4 DEF ObserveMisses

\* Create keeps the invariant: it was announced, and a new cluster gets a new
\* identifier.
LEMMA CreateInv ==
  ASSUME Inv, TypeOK', NEW m \in Resources, Create(m)
  PROVE  Inv'
<1> DEFINE r == generateCluster(m, "post", NoCluster)
<1>1. CommonTypeOK /\ TypeOK
  BY DEF Inv, TypeOK
<1>2. r \in Request /\ r.op # "put"
  BY <1>1, RequestType, NoClusterType DEF generateCluster
<1>3. CallSucceeds(r) \/ CallFails(r)
  BY SilentCall DEF Create
<1>4. SameButStatus(m)
  BY <1>1, MemoryStatus, MemoryReady DEF Create, SetReady
<1>5. PICK phase \in {"succeeded", "failed"} : pc' = [pc EXCEPT ![m] = phase]
  BY DEF Create, Goto
<1> QED
  BY <1>2, <1>3, <1>4, <1>5, HandlerInv DEF Create

\* Delete keeps the invariant.
LEMMA DeleteInv ==
  ASSUME Inv, TypeOK', NEW m \in Resources, Delete(m)
  PROVE  Inv'
<1> DEFINE r == [generateCluster(m, "delete", NoCluster) EXCEPT !.id = mg[m].id]
<1>1. CommonTypeOK /\ TypeOK
  BY DEF Inv, TypeOK
<1>2. generateCluster(m, "delete", NoCluster) \in Request /\ mg[m].id \in Nat
  BY <1>1, RequestType, NoClusterType DEF CommonTypeOK, Managed
<1>3. r \in Request
  BY <1>2 DEF Request
<1>4. r.op # "put"
  BY DEF generateCluster
<1>5. CallSucceeds(r) \/ CallFails(r)
  BY DEF Delete
<1>6. SameButStatus(m)
  BY <1>1, MemoryReady DEF Delete, SetReady
<1>7. pc' = [pc EXCEPT ![m] = "status"]
  BY DEF Delete, Goto
<1> QED
  BY <1>3, <1>4, <1>5, <1>6, <1>7, HandlerInv DEF Delete

\* Update keeps the invariant: what it read has the name of the object, and
\* still has it when it is written back, however late.
LEMMA UpdateInv ==
  ASSUME Inv, TypeOK', NEW m \in Resources, UpdateGet(m) \/ UpdatePut(m)
  PROVE  Inv'
<1>1. CommonTypeOK /\ TypeOK /\ ReconcileInv /\ IdentifiersKeepNames /\ HandlerTargets
  BY DEF Inv, TypeOK
<1>2. CASE UpdateGet(m) /\ Goto(m, "publish") /\ UNCHANGED base
  BY <1>2, MemoryUnchanged, HandlerInv DEF UpdateGet, Goto
<1>3. ASSUME UpdateGet(m), NEW c \in getCluster(m), base' = [base EXCEPT ![m] = c], Goto(m, "put")
      PROVE  Inv'
  <2>1. /\ ReconcileInv'
        /\ pc'[m] = "put"
        /\ \A k \in Resources \ {m} : mg'[k] = mg[k] /\ pc'[k] = pc[k]
    BY <1>1, <1>3, MemoryUnchanged, StatusOnly DEF UpdateGet, Goto
  <2>2. /\ IdentifiersKeepNames'
        /\ \A i \in Nat : \A n : Denotes(i, n) => Denotes(i, n)'
    BY <1>1, <1>3, ElsewhereKeepsNames DEF UpdateGet
  <2>3. base'[m] = c /\ mg' = mg /\ \A k \in Resources \ {m} : base'[k] = base[k]
    BY <1>1, <1>3 DEF UpdateGet, TypeOK
  <2>4. Denotes(c.id, mg[m].spec.name) /\ c.id \in Nat
    BY <1>1 DEF getCluster, Named, IdentifiersKeepNames, CommonTypeOK, External
  <2>5. Denotes(base[m].id, mg[m].spec.name)'
    <3>1. c.id < nextId' /\ \A d \in central' : d.id = c.id => d.spec.name = mg[m].spec.name
      BY <2>2, <2>4 DEF Denotes
    <3> QED
      BY <2>3, <3>1 DEF Denotes
  <2>6. \A k \in Resources : mg[k].id \in Nat /\ base[k].id \in Nat
    BY <1>1 DEF TypeOK, CommonTypeOK, Managed, External
  <2>7. HandlerTargets'
    BY <1>1, <2>1, <2>2, <2>3, <2>5, <2>6 DEF HandlerTargets
  <2> QED
    BY <2>1, <2>2, <2>7 DEF Inv
<1>4. CASE UpdatePut(m)
  <2> DEFINE r == generateCluster(m, "put", base[m])
  <2>1. r \in Request
    BY <1>1, RequestType DEF TypeOK
  <2>2. Denotes(r.id, r.spec.name)
    BY <1>1, <1>4 DEF UpdatePut, HandlerTargets, generateCluster
  <2>3. CallSucceeds(r) \/ CallFails(r)
    BY <1>4, SilentCall DEF UpdatePut
  <2>4. SameButStatus(m)
    BY <1>1, <1>4, MemoryId, MemoryUnchanged DEF UpdatePut
  <2>5. PICK phase \in {"publish", "status"} : pc' = [pc EXCEPT ![m] = phase]
    BY <1>4 DEF UpdatePut, Goto
  <2>6. \A k \in Resources \ {m} : base'[k] = base[k]
    BY <1>1, <1>4 DEF UpdatePut, TypeOK
  <2> QED
    BY <1>4, <2>1, <2>2, <2>3, <2>4, <2>5, <2>6, HandlerInv DEF UpdatePut
<1> QED
  BY <1>2, <1>3, <1>4 DEF UpdateGet

\* The invariant holds in every reachable state.
THEOREM Invariance == Spec => []Inv
<1>1. Init => Inv
  <2>1. Init => TypeOK
    BY CommonInitType, NoClusterType DEF Init, TypeOK
  <2> QED
    BY <2>1, ReconcileInit
    DEF Init, Inv, CommonInit, IdentifiersKeepNames, HandlerTargets
<1>2. Inv /\ TypeOK' /\ [Next]_vars => Inv'
  BY SharedStepInv, PassiveInv, ObserveFindsInv, ObserveMissesInv, CreateInv, DeleteInv, UpdateInv,
     OthersInv, CrashInv
  DEF Next, Worker
<1>3. Spec => []TypeOK
  BY Typing
<1> QED
  BY <1>1, <1>2, <1>3, PTL DEF Spec

\* Whatever is edited, lost, delayed or restarted: a creation is attempted
\* only on an object that carries its finalizer and the record of the attempt,
\* and these outlast it until the outcome is recorded.
THEOREM CreationsAreRecorded == Spec => []CreateIsRecoverable
<1>1. Inv => CreateIsRecoverable
  BY DEF Inv, ReconcileInv
<1> QED
  BY <1>1, Invariance, PTL

\* Whatever was renamed, recreated or restored: Delete is called for objects
\* seen deleted with policy Delete only, and with an identifier no cluster of
\* another name has.
THEOREM DeletionsHitTheirTarget == Spec => []DeleteTargetIsOurs
<1>1. Inv => DeleteTargetIsOurs
  BY DEF Inv, HandlerTargets, DeleteTargetIsOurs, Denotes
<1> QED
  BY <1>1, Invariance, PTL
-----------------------------------------------------------------------------
(***************************************************************************)
(* The promise of ManagedLife is kept.                                     *)
(***************************************************************************)

\* Nothing is late where nothing can be.
LEMMA Lateness == Spec => []LateIfAllowed
<1>1. Init => LateIfAllowed
  BY DEF Init, CommonInit, LateIfAllowed
<1>2. LateIfAllowed /\ [Next]_vars => LateIfAllowed'
  <2> SUFFICES ASSUME LateIfAllowed, [Next]_vars
               PROVE  LateIfAllowed'
    OBVIOUS
  <2>1. ASSUME NEW m \in Resources, Create(m) \/ UpdatePut(m) \/ Delete(m)
        PROVE  LateIfAllowed'
    BY <2>1, CallLate, SilentCall DEF Create, UpdatePut, Delete
  <2>2. ASSUME NEW m \in Resources,
               \/ Connect(m) \/ ObserveFinds(m) \/ ObserveMisses(m) \/ ObserveFails(m)
               \/ UpdateGet(m) \/ UpdateGetFails(m) \/ Publish(m)
        PROVE  LateIfAllowed'
    BY <2>2 DEF Connect, ObserveFinds, ObserveMisses, ObserveFails, UpdateGet,
      UpdateGetFails, Publish, HandlerFails, centralVars, LateIfAllowed
  <2>3. ASSUME NEW m \in Resources,
               \/ Begin(m) \/ AddFinalizer(m) \/ MarkPending(m) \/ MarkOutcome(m)
               \/ RemoveFinalizer(m) \/ UpdateStatus(m)
        PROVE  LateIfAllowed'
    BY <2>3 DEF Begin, AddFinalizer, MarkPending, MarkOutcome, RemoveFinalizer, UpdateStatus,
      BeginStep, AddFinalizerStep, MarkPendingStep, MarkOutcomeStep, RemoveFinalizerStep,
      UpdateStatusStep, centralVars, LateIfAllowed
  <2>4. ASSUME NEW m \in Resources,
               CacheSync(m) \/ UserCreates(m) \/ UserEdits(m) \/ UserDeletes(m)
        PROVE  LateIfAllowed'
    BY <2>4 DEF CacheSync, UserCreates, UserEdits, UserDeletes, CacheSyncStep, UserCreatesStep,
      UserEditsStep, UserDeletesStep, UserStores, centralVars, LateIfAllowed
  <2>5. CASE AdminActs \/ Arrive \/ Crash
    BY <2>5 DEF AdminActs, AdminStep, Arrive, ArriveStep, Crash, CrashStep, centralVars, LateIfAllowed
  <2>6. CASE UNCHANGED vars
    BY <2>6 DEF vars, commonVars, centralVars, LateIfAllowed
  <2> QED
    BY <2>1, <2>2, <2>3, <2>4, <2>5, <2>6 DEF Next, Worker
<1> QED
  BY <1>1, <1>2, PTL DEF Spec

\* Every step of the reconciler and the handlers is one of ManagedLife.
LEMMA WorkerLives ==
  ASSUME Inv, NEW m \in Resources, Worker(m)
  PROVE  [Life!Next]_Life!vars
<1>1. CommonTypeOK /\ TypeOK /\ ReconcileInv
  BY DEF Inv, TypeOK
<1>2. CASE \/ Begin(m) \/ AddFinalizer(m) \/ MarkPending(m) \/ MarkOutcome(m)
           \/ RemoveFinalizer(m) \/ UpdateStatus(m)
  BY <1>1, <1>2, BeginLives, AddFinalizerLives, MarkPendingLives, MarkOutcomeLives,
     RemoveFinalizerLives, UpdateStatusLives
  DEF Begin, AddFinalizer, MarkPending, MarkOutcome, RemoveFinalizer, UpdateStatus
<1>3. CASE Create(m)
  <2> DEFINE r == generateCluster(m, "post", NoCluster)
  <2>1. r \in Request /\ r.op = "post" /\ r.by = m
    BY <1>1, RequestType, NoClusterType DEF generateCluster
  <2>2. /\ CallSucceeds(r) \/ CallFails(r)
        /\ pc' = [pc EXCEPT ![m] = "succeeded"] \/ pc' = [pc EXCEPT ![m] = "failed"]
        /\ pc[m] = "create" /\ UNCHANGED api
    BY <1>3, SilentCall DEF Create, Goto, kubeVars
  <2> QED
    BY <1>1, <2>1, <2>2, CreateLives
<1>4. CASE UpdatePut(m)
  <2> DEFINE r == generateCluster(m, "put", base[m])
  <2>1. r \in Request /\ r.op # "post"
    BY <1>1, RequestType DEF generateCluster, TypeOK
  <2>2. /\ CallSucceeds(r) \/ CallFails(r)
        /\ pc[m] = "put" /\ UNCHANGED api
        /\ pc' = [pc EXCEPT ![m] = "publish"] \/ pc' = [pc EXCEPT ![m] = "status"]
    BY <1>4, SilentCall DEF UpdatePut, Goto, kubeVars
  <2> QED
    BY <1>1, <2>1, <2>2, OtherHandlerLives
<1>5. CASE Delete(m)
  <2> DEFINE r == [generateCluster(m, "delete", NoCluster) EXCEPT !.id = mg[m].id]
  <2>1. generateCluster(m, "delete", NoCluster) \in Request /\ mg[m].id \in Nat
    BY <1>1, RequestType, NoClusterType DEF CommonTypeOK, Managed
  <2>2. r \in Request
    BY <2>1 DEF Request
  <2>3. r.op # "post"
    BY DEF generateCluster
  <2>4. /\ CallSucceeds(r) \/ CallFails(r)
        /\ pc[m] = "delete" /\ UNCHANGED api /\ pc' = [pc EXCEPT ![m] = "status"]
    BY <1>5 DEF Delete, Goto, kubeVars
  <2> QED
    BY <1>1, <2>2, <2>3, <2>4, OtherHandlerLives
<1>6. CASE \/ Connect(m) \/ ObserveFinds(m) \/ ObserveMisses(m) \/ ObserveFails(m)
           \/ UpdateGet(m) \/ UpdateGetFails(m) \/ Publish(m)
  <2>1. /\ UNCHANGED <<api, central>>
        /\ pc[m] # "create"
        /\ \E phase \in Phases \ {"create"} : pc' = [pc EXCEPT ![m] = phase]
    BY <1>6 DEF Connect, ObserveFinds, ObserveMisses, ObserveFails, UpdateGet, UpdateGetFails,
      Publish, HandlerFails, AfterObserve, WaitForCreation, Finish, Goto, Phases, kubeVars,
      centralVars
  <2> QED
    BY <1>1, <2>1, OtherHandlerLives
<1> QED
  BY <1>2, <1>3, <1>4, <1>5, <1>6 DEF Worker

\* Whatever is lost, late, repeated, restarted or stale, and whatever users do
\* meanwhile: the controller keeps the promise of ManagedLife.
THEOREM KeepsThePromise == Spec => LivesAsPromised
<1>1. Init => Life!Init
  BY CommonInitLives DEF Init
<1>2. Inv /\ LateIfAllowed /\ [Next]_vars => [Life!Next]_Life!vars
  <2> SUFFICES ASSUME Inv, LateIfAllowed, [Next]_vars
               PROVE  [Life!Next]_Life!vars
    OBVIOUS
  <2>1. CommonTypeOK /\ ReconcileInv
    BY DEF Inv, TypeOK
  <2>2. ASSUME NEW m \in Resources, Worker(m)
        PROVE  [Life!Next]_Life!vars
    BY <2>2, WorkerLives
  <2>3. ASSUME NEW m \in Resources,
               CacheSync(m) \/ UserCreates(m) \/ UserEdits(m) \/ UserDeletes(m)
        PROVE  [Life!Next]_Life!vars
    BY <2>1, <2>3, CacheSyncLives, UserCreatesLives, UserEditsLives, UserDeletesLives
    DEF CacheSync, UserCreates, UserEdits, UserDeletes
  <2>4. CASE AdminActs \/ Arrive \/ Crash
    BY <2>1, <2>4, AdminLives, ArriveLives, CrashLives DEF AdminActs, Arrive, Crash
  <2>5. CASE UNCHANGED vars
    BY <2>5, Stutters DEF vars, commonVars, kubeVars, workerVars, centralVars, objectView,
      intentView, madeView, ObjectOf, IntentOf, MadeFor
  <2> QED
    BY <2>2, <2>3, <2>4, <2>5 DEF Next
<1> QED
  BY <1>1, <1>2, Invariance, Lateness, PTL DEF Spec, LivesAsPromised, Life!Spec

-----------------------------------------------------------------------------
(***************************************************************************)
(* What others wrote, and what was made.                                   *)
(***************************************************************************)

\* A put of Update leaves every cluster but the one it was read from alone, and
\* there the fields no managed resource specifies are those that were read:
\* whatever else is edited, renamed, late or repeated meanwhile.
THEOREM UnmanagedAreKept == Spec => UnmanagedFieldsKept
<1>1. ASSUME Inv, NEW m \in Resources, UpdatePut(m),
             NEW c \in central, NEW d \in central', c.id = d.id
      PROVE  d.extra = c.extra \/ (d.id = base[m].id /\ d.extra = base[m].extra)
  <2> DEFINE r == generateCluster(m, "put", base[m])
  <2>1. CommonTypeOK /\ TypeOK /\ IdentifiersKeepNames
    BY <1>1 DEF Inv, TypeOK
  <2>2. r \in Request
    BY <1>1, <2>1, RequestType DEF TypeOK
  <2>3. r.op = "put" /\ r.id = base[m].id /\ r.extra = base[m].extra
    BY DEF generateCluster
  <2>4. CallSucceeds(r) \/ CallFails(r)
    BY <1>1, SilentCall DEF UpdatePut
  <2> HIDE DEF r
  <2>5. d = c \/ (d.id = r.id /\ d.spec = r.spec /\ d.extra = r.extra)
    BY <1>1, <2>1, <2>2, <2>3, <2>4, PutEditsOne
  <2> QED
    BY <2>3, <2>5
<1>2. Inv => \A m \in Resources : UpdatePut(m) =>
                \A c \in central, d \in central' :
                  c.id = d.id => d.extra = c.extra \/ (d.id = base[m].id /\ d.extra = base[m].extra)
  BY <1>1
<1> QED
  BY <1>2, Invariance, PTL DEF UnmanagedFieldsKept

\* Where nothing is late, a worker that acts on an absence is right about it.
LEMMA WorkerMissed ==
  ASSUME Inv, MissedIsMissing, NEW m \in Resources, Worker(m)
  PROVE  MissedIsMissing'
<1>1. CommonTypeOK /\ TypeOK /\ ReconcileInv /\ IdentifiersKeepNames /\ HandlerTargets
  BY DEF Inv, TypeOK
<1>2. CASE \/ Begin(m) \/ AddFinalizer(m) \/ MarkPending(m) \/ MarkOutcome(m)
           \/ RemoveFinalizer(m) \/ UpdateStatus(m)
  BY <1>1, <1>2, SharedStepMissed
  DEF Begin, AddFinalizer, MarkPending, MarkOutcome, RemoveFinalizer, UpdateStatus
<1>3. CASE Create(m) \/ UpdatePut(m) \/ Delete(m)
  <2>1. \A k \in Resources \ {m} : NothingNewFor(k)
    <3>1. CASE Create(m)
      <4> DEFINE r == generateCluster(m, "post", NoCluster)
      <4>1. r \in Request /\ r.op = "post" /\ r.by = m
        BY <1>1, RequestType, NoClusterType DEF generateCluster
      <4>2. CallSucceeds(r) \/ CallFails(r)
        BY <3>1, SilentCall DEF Create
      <4> HIDE DEF r
      <4> QED
        BY <1>1, <4>1, <4>2, CallMakesFor
    <3>2. CASE UpdatePut(m)
      <4> DEFINE r == generateCluster(m, "put", base[m])
      <4>1. r \in Request /\ r.op = "put"
        BY <1>1, RequestType DEF TypeOK, generateCluster
      <4>2. Denotes(r.id, r.spec.name)
        BY <1>1, <3>2 DEF UpdatePut, HandlerTargets, generateCluster
      <4>3. CallSucceeds(r) \/ CallFails(r)
        BY <3>2, SilentCall DEF UpdatePut
      <4> HIDE DEF r
      <4> QED
        BY <1>1, <4>1, <4>2, <4>3, CallMakesFor
    <3>3. CASE Delete(m)
      <4> DEFINE r == [generateCluster(m, "delete", NoCluster) EXCEPT !.id = mg[m].id]
      <4>1. generateCluster(m, "delete", NoCluster) \in Request /\ mg[m].id \in Nat
        BY <1>1, RequestType, NoClusterType DEF CommonTypeOK, Managed
      <4>2. r \in Request /\ r.op = "delete"
        BY <4>1 DEF Request, generateCluster
      <4>3. CallSucceeds(r) \/ CallFails(r)
        BY <3>3 DEF Delete
      <4> HIDE DEF r
      <4> QED
        BY <1>1, <4>2, <4>3, CallMakesFor
    <3> QED
      BY <1>3, <3>1, <3>2, <3>3
  <2>2. /\ \A k \in Resources \ {m} : mg'[k] = mg[k] /\ pc'[k] = pc[k] /\ goal'[k] = goal[k]
        /\ ~Missed(m)'
    BY <1>1, <1>3 DEF Create, UpdatePut, Delete, SetReady, Goto, Missed, CommonTypeOK
  <2> QED
    BY <2>1, <2>2, MissedKeeps
<1>4. CASE ObserveMisses(m)
  <2>1. \A c \in central : c.spec.name # mg[m].spec.name
    BY <1>4 DEF ObserveMisses, getCluster, Named
  <2>2. /\ \A k \in Resources \ {m} : mg'[k] = mg[k] /\ pc'[k] = pc[k] /\ goal'[k] = goal[k]
        /\ Missed(m)' => mg' = mg
    BY <1>1, <1>4
    DEF ObserveMisses, AfterObserve, WaitForCreation, Finish, Goto, Missed, CommonTypeOK
  <2>3. UNCHANGED central
    BY <1>4 DEF ObserveMisses, centralVars
  <2> QED
    BY <2>1, <2>2, <2>3, UnchangedMakesNothing, MissedKeeps
<1>5. CASE \/ Connect(m) \/ ObserveFinds(m) \/ ObserveFails(m)
           \/ UpdateGet(m) \/ UpdateGetFails(m) \/ Publish(m)
  <2>1. UNCHANGED central
    BY <1>5 DEF Connect, ObserveFinds, ObserveFails, UpdateGet, UpdateGetFails, Publish,
      HandlerFails, centralVars
  <2>2. /\ \A k \in Resources \ {m} : mg'[k] = mg[k] /\ pc'[k] = pc[k] /\ goal'[k] = goal[k]
        /\ ~Missed(m)'
    BY <1>1, <1>5 DEF Connect, ObserveFinds, ObserveFails, UpdateGet, UpdateGetFails, Publish,
      HandlerFails, AfterObserve, Goto, Missed, CommonTypeOK
  <2> QED
    BY <2>1, <2>2, UnchangedMakesNothing, MissedKeeps
<1> QED
  BY <1>2, <1>3, <1>4, <1>5 DEF Worker

\* So it is in every reachable state.
LEMMA Missing ==
  ASSUME ~(AllowDelays /\ AllowFaults)
  PROVE  Spec => []MissedIsMissing
<1>1. Init => MissedIsMissing
  BY DEF Init, CommonInit, MissedIsMissing, Missed
<1>2. Inv /\ LateIfAllowed /\ MissedIsMissing /\ [Next]_vars => MissedIsMissing'
  <2> SUFFICES ASSUME Inv, LateIfAllowed, MissedIsMissing, [Next]_vars
               PROVE  MissedIsMissing'
    OBVIOUS
  <2>1. ASSUME NEW m \in Resources, Worker(m)
        PROVE  MissedIsMissing'
    BY <2>1, WorkerMissed
  <2>2. CASE \/ \E m \in Resources :
                  CacheSync(m) \/ UserCreates(m) \/ UserEdits(m) \/ UserDeletes(m)
             \/ UNCHANGED vars
    <3>1. UNCHANGED <<pc, mg, goal, central>>
      BY <2>2 DEF CacheSync, UserCreates, UserEdits, UserDeletes, vars, commonVars,
        CacheSyncStep, UserCreatesStep, UserEditsStep, UserDeletesStep, UserStores, workerVars,
        centralVars
    <3> QED
      BY <3>1, UnchangedMakesNothing, MissedStays
  <2>3. CASE AdminActs
    <3>1. UNCHANGED <<pc, mg, goal>>
      BY <2>3 DEF AdminActs, AdminStep, workerVars
    <3> QED
      BY <2>3, <3>1, AdminMakesFor, MissedStays DEF AdminActs, Inv, TypeOK
  <2>4. CASE Arrive
    BY <2>4 DEF Arrive, ArriveStep, LateIfAllowed
  <2>5. CASE Crash
    BY <2>5, CrashMissed DEF Crash
  <2> QED
    BY <2>1, <2>2, <2>3, <2>4, <2>5 DEF Next
<1> QED
  BY <1>1, <1>2, Invariance, Lateness, PTL DEF Spec

\* Where no request arrives after its caller gave up: whatever was renamed,
\* edited, recreated, lost or restarted, and however many resources have one
\* name, an object with policy Delete is let go only when Central has nothing
\* left that was made for it under the name it has.
THEOREM NothingIsLeftBehind ==
  ASSUME ~(AllowDelays /\ AllowFaults)
  PROVE  Spec => NothingLeftBehind
<1>1. ASSUME Inv, MissedIsMissing, [Next]_vars, NEW k \in Resources,
             api[k].exists, ~api'[k].exists, api[k].finalizer, api[k].policy = "Delete"
      PROVE  \A c \in central' : c.by = k => c.spec.name # api[k].spec.name
  <2>1. CommonTypeOK /\ ReconcileInv
    BY <1>1 DEF Inv, TypeOK
  <2>2. ASSUME NEW m \in Resources,
               \/ Begin(m) \/ AddFinalizer(m) \/ MarkPending(m) \/ MarkOutcome(m)
               \/ RemoveFinalizer(m) \/ UpdateStatus(m)
               \/ CacheSync(m) \/ UserCreates(m) \/ UserEdits(m) \/ UserDeletes(m)
        PROVE  \A c \in central' : c.by = k => c.spec.name # api[k].spec.name
    BY <1>1, <2>1, <2>2, OnlyMissedLeave
    DEF Begin, AddFinalizer, MarkPending, MarkOutcome, RemoveFinalizer, UpdateStatus,
        CacheSync, UserCreates, UserEdits, UserDeletes
  <2>3. ASSUME NEW m \in Resources,
               \/ Connect(m) \/ ObserveFinds(m) \/ ObserveMisses(m) \/ ObserveFails(m)
               \/ Create(m) \/ UpdateGet(m) \/ UpdateGetFails(m) \/ UpdatePut(m) \/ Delete(m)
               \/ Publish(m)
        PROVE  UNCHANGED api
    BY <2>3 DEF Connect, ObserveFinds, ObserveMisses, ObserveFails, Create, UpdateGet,
      UpdateGetFails, UpdatePut, Delete, Publish, HandlerFails, kubeVars
  <2>4. AdminActs \/ Arrive \/ Crash \/ UNCHANGED vars => UNCHANGED api
    BY DEF AdminActs, AdminStep, Arrive, ArriveStep, Crash, CrashStep, vars, commonVars, kubeVars
  <2> QED
    BY <1>1, <2>2, <2>3, <2>4 DEF Next, Worker
<1>2. Inv /\ MissedIsMissing /\ [Next]_vars =>
        \A m \in Resources :
          api[m].exists /\ ~api'[m].exists /\ api[m].finalizer /\ api[m].policy = "Delete" =>
            \A c \in central' : c.by = m => c.spec.name # api[m].spec.name
  BY <1>1
<1>3. Spec => []MissedIsMissing
  BY Missing
<1> QED
  BY <1>2, <1>3, Invariance, PTL DEF Spec, NothingLeftBehind

-----------------------------------------------------------------------------
(***************************************************************************)
(* Nothing is made twice.                                                  *)
(***************************************************************************)

\* A worker makes clusters in Create only, after it has missed them.
LEMMA WorkerMakesAnew ==
  ASSUME Inv, MissedIsMissing, NEW m \in Resources, Worker(m)
  PROVE  MadeAnew
<1>1. CommonTypeOK /\ TypeOK /\ IdentifiersKeepNames /\ HandlerTargets
  BY DEF Inv, TypeOK
<1>2. CASE Create(m)
  <2> DEFINE r == generateCluster(m, "post", NoCluster)
  <2>1. r \in Request /\ r.op = "post" /\ r.by = m /\ r.spec = mg[m].spec
    BY <1>1, RequestType, NoClusterType DEF generateCluster
  <2>2. (CallSucceeds(r) \/ CallFails(r)) /\ Missed(m)
    BY <1>2, SilentCall DEF Create, Missed
  <2> HIDE DEF r
  <2> QED
    BY <1>1, <2>1, <2>2, CallMakesAsked, MissedIsMadeAnew
<1>3. CASE UpdatePut(m)
  <2> DEFINE r == generateCluster(m, "put", base[m])
  <2>1. r \in Request /\ r.op = "put"
    BY <1>1, RequestType DEF TypeOK, generateCluster
  <2>2. Denotes(r.id, r.spec.name)
    BY <1>1, <1>3 DEF UpdatePut, HandlerTargets, generateCluster
  <2>3. CallSucceeds(r) \/ CallFails(r)
    BY <1>3, SilentCall DEF UpdatePut
  <2> HIDE DEF r
  <2> QED
    BY <1>1, <2>1, <2>2, <2>3, CallMakesAsked, MissedIsMadeAnew
<1>4. CASE Delete(m)
  <2> DEFINE r == [generateCluster(m, "delete", NoCluster) EXCEPT !.id = mg[m].id]
  <2>1. generateCluster(m, "delete", NoCluster) \in Request /\ mg[m].id \in Nat
    BY <1>1, RequestType, NoClusterType DEF CommonTypeOK, Managed
  <2>2. r \in Request /\ r.op = "delete"
    BY <2>1 DEF Request, generateCluster
  <2>3. CallSucceeds(r) \/ CallFails(r)
    BY <1>4 DEF Delete
  <2> HIDE DEF r
  <2> QED
    BY <1>1, <2>2, <2>3, CallMakesAsked, MissedIsMadeAnew
<1>5. CASE ~(Create(m) \/ UpdatePut(m) \/ Delete(m))
  <2>1. UNCHANGED central
    BY <1>5 DEF Worker, Begin, BeginStep, Connect, ObserveFinds, ObserveMisses, ObserveFails,
      HandlerFails, AddFinalizer, AddFinalizerStep, MarkPending, MarkPendingStep, MarkOutcome,
      MarkOutcomeStep, UpdateGet, UpdateGetFails, Publish, RemoveFinalizer, RemoveFinalizerStep,
      UpdateStatus, UpdateStatusStep, centralVars
  <2> QED
    BY <1>1, <2>1, MissedIsMadeAnew
<1> QED
  BY <1>2, <1>3, <1>4, <1>5

\* For any number of resources, whatever they are renamed to, what replies are
\* lost, how often the process restarts and what others do in Central: a call
\* makes a cluster for a resource only when Central has none made for it under
\* that name.
THEOREM NothingIsMadeTwice ==
  ASSUME ~(AllowDelays /\ AllowFaults)
  PROVE  Spec => NothingMadeTwice
<1>1. Inv /\ LateIfAllowed /\ MissedIsMissing /\ [Next]_vars => MadeAnew
  <2> SUFFICES ASSUME Inv, LateIfAllowed, MissedIsMissing, [Next]_vars
               PROVE  MadeAnew
    OBVIOUS
  <2>1. CommonTypeOK /\ IdentifiersKeepNames
    BY DEF Inv, TypeOK
  <2>2. ASSUME NEW m \in Resources, Worker(m)
        PROVE  MadeAnew
    BY <2>2, WorkerMakesAnew
  <2>3. CASE AdminActs
    BY <2>1, <2>3, AdminMakesOwn, MissedIsMadeAnew DEF AdminActs
  <2>4. CASE \/ \E m \in Resources :
                  CacheSync(m) \/ UserCreates(m) \/ UserEdits(m) \/ UserDeletes(m)
             \/ Arrive \/ Crash \/ UNCHANGED vars
    <3>1. UNCHANGED central
      BY <2>4 DEF CacheSync, UserCreates, UserEdits, UserDeletes, Arrive, Crash, vars, commonVars,
        CacheSyncStep, UserCreatesStep, UserEditsStep, UserDeletesStep, UserStores, ArriveStep,
        CrashStep, LateIfAllowed, centralVars
    <3> QED
      BY <2>1, <3>1, MissedIsMadeAnew
  <2> QED
    BY <2>2, <2>3, <2>4 DEF Next
<1>2. Inv /\ LateIfAllowed /\ MissedIsMissing /\ [Next]_vars =>
        \A d \in central' :
          d.id >= nextId /\ d.by # Admin =>
            \A c \in central : c.by = d.by => c.spec.name # d.spec.name
  BY <1>1 DEF MadeAnew
<1>3. Spec => []MissedIsMissing
  BY Missing
<1> QED
  BY <1>2, <1>3, Invariance, Lateness, PTL DEF Spec, NothingMadeTwice

=============================================================================
