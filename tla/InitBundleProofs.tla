-------------------------- MODULE InitBundleProofs --------------------------
(***************************************************************************)
(* Proofs about the InitBundle controller, for every set of resources,     *)
(* every set of specifications and every bound.                            *)
(***************************************************************************)
EXTENDS InitBundle, ReconcilerProofs

-----------------------------------------------------------------------------
(***************************************************************************)
(* Types.                                                                  *)
(***************************************************************************)

\* The handlers send requests.
LEMMA BundleRequestType ==
  ASSUME TypeOK, NEW m \in Resources, NEW i \in Nat, NEW op \in {"post", "put", "delete"}
  PROVE  BundleRequest(m, op, i) \in Request
<1>1. mg[m].spec \in Specs
  BY DEF TypeOK, CommonTypeOK, Managed
<1> QED
  BY <1>1, ReconcilerAssumption DEF BundleRequest, Request

\* The steps of the surroundings keep the types.
LEMMA SharedStepType ==
  ASSUME TypeOK, NEW m \in Resources,
         \/ Begin(m) \/ AddFinalizer(m) \/ MarkPending(m) \/ MarkOutcome(m)
         \/ RemoveFinalizer(m) \/ UpdateStatus(m) \/ CacheSync(m)
         \/ UserCreates(m) \/ UserEdits(m) \/ UserDeletes(m)
  PROVE  TypeOK'
<1>1. CommonTypeOK'
  BY BeginType, AddFinalizerType, MarkPendingType, MarkOutcomeType, RemoveFinalizerType,
     UpdateStatusType, CacheSyncType, UserType
  DEF TypeOK, Begin, AddFinalizer, MarkPending, MarkOutcome, RemoveFinalizer, UpdateStatus,
      CacheSync, UserCreates, UserEdits, UserDeletes
<1>2. /\ secret' \in [Resources -> Nat]
      /\ details' \in [Resources -> Nat]
  BY DEF TypeOK, Begin, AddFinalizer, MarkPending, MarkOutcome, RemoveFinalizer, UpdateStatus,
         CacheSync, UserCreates, UserEdits, UserDeletes, bundleVars, Published, OwnedSecret
<1> QED
  BY <1>1, <1>2 DEF TypeOK

\* A handler that fails keeps the types.
LEMMA HandlerFailsType ==
  ASSUME TypeOK, NEW m \in Resources, HandlerFails(m)
  PROVE  TypeOK'
  BY DisruptType
  DEF HandlerFails, Fault, Goto, Phases, kubeVars, centralVars, bundleVars, TypeOK, CommonTypeOK

\* Observe keeps the types.
LEMMA ObserveType ==
  ASSUME TypeOK, NEW m \in Resources, ObserveFinds(m) \/ ObserveMisses(m) \/ ObserveFails(m)
  PROVE  TypeOK'
<1>1. CASE ObserveFinds(m)
  <2>1. PICK c \in getInitBundle(m) :
          /\ mg' = [mg EXCEPT ![m].ready = "Available", ![m].id = c.id]
          /\ AfterObserve(m, TRUE, isUpToDate(m, c))
    BY <1>1 DEF ObserveFinds
  <2>2. c.id \in Nat /\ mg[m] \in Managed
    BY DEF getInitBundle, Named, External, TypeOK, CommonTypeOK
  <2>3. [mg[m] EXCEPT !.ready = "Available", !.id = c.id] \in Managed
    BY <2>2, ManagedUpdates
  <2>4. mg' \in [Resources -> Managed]
    BY <2>1, <2>3 DEF TypeOK, CommonTypeOK
  <2>5. isUpToDate(m, c) \in BOOLEAN
    BY DEF isUpToDate
  <2>6. /\ pc' \in [Resources -> Phases]
        /\ goal' \in [Resources -> {"pending", "status", "update"}]
    BY <2>1, <2>5, AfterObserveType DEF TypeOK
  <2> QED
    BY <1>1, <2>4, <2>6
    DEF ObserveFinds, kubeVars, centralVars, bundleVars, TypeOK, CommonTypeOK
<1>2. CASE ObserveMisses(m)
  <2>1. CASE AfterObserve(m, FALSE, FALSE) /\ UNCHANGED <<mg, mgCurrent, budget>>
    BY <1>2, <2>1, AfterObserveType
    DEF ObserveMisses, kubeVars, centralVars, bundleVars, TypeOK, CommonTypeOK
  <2>2. CASE WaitForCreation(m)
    BY <1>2, <2>2, FinishType, DisruptType
    DEF ObserveMisses, WaitForCreation, kubeVars, centralVars, bundleVars, TypeOK, CommonTypeOK
  <2> QED
    BY <1>2, <2>1, <2>2 DEF ObserveMisses
<1>3. CASE ObserveFails(m)
  BY <1>3, HandlerFailsType DEF ObserveFails
<1> QED
  BY <1>1, <1>2, <1>3

\* Create keeps the types.
LEMMA CreateType ==
  ASSUME TypeOK, NEW m \in Resources, Create(m)
  PROVE  TypeOK'
<1> DEFINE r == BundleRequest(m, "post", 0)
<1>1. r \in Request
  BY BundleRequestType
<1>2. CallSucceeds(r) \/ CallFails(r)
  BY SilentCall DEF Create
<1>3. central' \subseteq External /\ wire' \subseteq Request /\ nextId' \in Nat /\ budget' \in Nat
  BY <1>1, <1>2, CallType DEF TypeOK
<1>4. mg[m] \in Managed /\ (CallSucceeds(r) \/ CallSucceedsSilently(r) => nextId' - 1 \in Nat)
  BY <1>1, NewestType DEF BundleRequest, TypeOK, CommonTypeOK
<1>5. /\ CallSucceeds(r) \/ CallSucceedsSilently(r) =>
           [mg[m] EXCEPT !.ready = "Creating", !.id = nextId' - 1] \in Managed
      /\ [mg[m] EXCEPT !.ready = "Creating"] \in Managed
  BY <1>4, ManagedUpdates
<1>6. mg' \in [Resources -> Managed] /\ pc' \in [Resources -> Phases]
  BY <1>5 DEF Create, SetReady, Goto, Phases, TypeOK, CommonTypeOK
<1>7. details' \in [Resources -> Nat]
  BY <1>4 DEF Create, TypeOK
<1> QED
  BY <1>3, <1>6, <1>7 DEF Create, kubeVars, TypeOK, CommonTypeOK

\* Update and Delete keep the types.
LEMMA RevokeType ==
  ASSUME TypeOK, NEW m \in Resources, Revoke(m)
  PROVE  TypeOK'
<1> DEFINE r == BundleRequest(m, "delete", mg[m].id)
<1>1. mg[m] \in Managed
  BY DEF TypeOK, CommonTypeOK
<1>2. r \in Request
  BY <1>1, BundleRequestType DEF Managed
<1>3. CallSucceeds(r) \/ CallFails(r)
  BY DEF Revoke
<1>4. central' \subseteq External /\ wire' \subseteq Request /\ nextId' \in Nat /\ budget' \in Nat
  BY <1>2, <1>3, CallType DEF TypeOK
<1>5. [mg[m] EXCEPT !.ready = "Deleting"] \in Managed
  BY <1>1, ManagedUpdates
<1>6. mg' \in [Resources -> Managed] /\ pc' \in [Resources -> Phases]
  BY <1>5 DEF Revoke, SetReady, Goto, Phases, TypeOK, CommonTypeOK
<1> QED
  BY <1>4, <1>6 DEF Revoke, kubeVars, bundleVars, TypeOK, CommonTypeOK

\* Connecting keeps the types.
LEMMA ConnectType ==
  ASSUME TypeOK, NEW m \in Resources, Connect(m)
  PROVE  TypeOK'
<1>1. CASE HandlerFails(m)
  BY <1>1, HandlerFailsType
<1>2. CASE ~HandlerFails(m)
  BY <1>2 DEF Connect, Goto, Phases, kubeVars, centralVars, bundleVars, TypeOK, CommonTypeOK
<1> QED
  BY <1>1, <1>2

\* Publishing keeps the types.
LEMMA PublishType ==
  ASSUME TypeOK, NEW m \in Resources, Publish(m)
  PROVE  TypeOK'
<1>1. [mg[m] EXCEPT !.ready = "Creating"] \in Managed
  BY ManagedUpdates DEF TypeOK, CommonTypeOK
<1>2. mg' \in [Resources -> Managed] /\ pc' \in [Resources -> Phases] /\ budget' \in Nat
  BY <1>1, DisruptType DEF Publish, SetReady, Goto, Fault, Phases, TypeOK, CommonTypeOK
<1>3. secret' \in [Resources -> Nat] /\ details' \in [Resources -> Nat]
  BY DEF Publish, Published, TypeOK
<1> QED
  BY <1>2, <1>3 DEF Publish, kubeVars, centralVars, TypeOK, CommonTypeOK

\* Every variable always has its type, the secret and the details on their
\* way to it included.
THEOREM Typing == Spec => []TypeOK
<1>1. Init => TypeOK
  BY CommonInitType DEF Init, TypeOK
<1>2. TypeOK /\ [Next]_vars => TypeOK'
  <2> SUFFICES ASSUME TypeOK, [Next]_vars
               PROVE  TypeOK'
    OBVIOUS
  <2>1. ASSUME NEW m \in Resources, Worker(m)
        PROVE  TypeOK'
    BY <2>1, SharedStepType, ObserveType, CreateType, RevokeType, ConnectType, PublishType
    DEF Worker
  <2>2. ASSUME NEW m \in Resources, CacheSync(m) \/ UserCreates(m) \/ UserEdits(m) \/ UserDeletes(m)
        PROVE  TypeOK'
    BY <2>2, SharedStepType
  <2>3. CASE AdminActs
    BY <2>3, AdminType DEF AdminActs, bundleVars, TypeOK
  <2>4. CASE Arrive
    BY <2>4, ArriveType DEF Arrive, bundleVars, TypeOK
  <2>5. CASE Crash
    BY <2>5, CrashType DEF Crash, TypeOK
  <2>6. CASE UNCHANGED vars
    BY <2>6 DEF vars, commonVars, kubeVars, workerVars, centralVars, bundleVars, TypeOK, CommonTypeOK
  <2> QED
    BY <2>1, <2>2, <2>3, <2>4, <2>5, <2>6 DEF Next
<1> QED
  BY <1>1, <1>2, PTL DEF Spec

-----------------------------------------------------------------------------
(***************************************************************************)
(* The invariant.                                                          *)
(***************************************************************************)

\* What the other workers aim at stays; and of this worker, when it does not
\* aim at anything afterwards.
LEMMA TargetsKeep ==
  ASSUME TypeOK, RevocationTargets, NEW m \in Resources,
         \A i \in Nat : \A n : Denotes(i, n) => Denotes(i, n)',
         \A k \in Resources \ {m} : mg'[k] = mg[k] /\ pc'[k] = pc[k],
         \A k \in Resources : goal'[k] # "update",
         pc'[m] \notin {"update", "delete"}
  PROVE  RevocationTargets'
<1>1. \A k \in Resources : mg[k].id \in Nat
  BY DEF TypeOK, CommonTypeOK, Managed
<1> QED
  BY <1>1 DEF RevocationTargets

\* Neither a handler that only moves its worker on, nor one that fails, nor one
\* that asks for a bundle or for its end, breaks the invariant.
LEMMA HandlerInv ==
  ASSUME Inv, TypeOK', NEW m \in Resources, SameButStatus(m),
         UNCHANGED kubeVars, UNCHANGED mgCurrent,
         \A k \in Resources : goal'[k] # "update",
         pc[m] # "idle", NEW phase, pc' = [pc EXCEPT ![m] = phase],
         phase \notin {"idle", "pending", "create", "update", "delete"},
         phase \in {"connect", "observe"} => pc[m] = "connect",
         phase = "finalizer" => pc[m] = "observe" /\ ~mg[m].deleting,
         phase = "release" => mg[m].deleting,
         phase \in {"succeeded", "failed"} => pc[m] = "create",
         \/ UNCHANGED centralVars
         \/ \E r \in Request : (CallSucceeds(r) \/ CallFails(r)) /\ r.op # "put"
  PROVE  Inv'
<1>1. CommonTypeOK /\ TypeOK /\ ReconcileInv /\ IdentifiersKeepNames /\ RevocationTargets
  BY DEF Inv, TypeOK
<1>2. /\ ReconcileInv'
      /\ pc'[m] = phase
      /\ \A k \in Resources \ {m} : mg'[k] = mg[k] /\ pc'[k] = pc[k]
  BY <1>1, StatusOnly
<1>3. /\ IdentifiersKeepNames'
      /\ \A i \in Nat : \A n : Denotes(i, n) => Denotes(i, n)'
  BY <1>1, ElsewhereKeepsNames, CallKeepsNames
<1>4. RevocationTargets'
  BY <1>1, <1>2, <1>3, TargetsKeep
<1> QED
  BY <1>2, <1>3, <1>4 DEF Inv

\* A handler that leaves the decisions alone decides on no update.
LEMMA GoalKept ==
  ASSUME Inv, UNCHANGED goal
  PROVE  \A k \in Resources : goal'[k] # "update"
  BY DEF Inv, RevocationTargets

\* The reconciler's own steps keep the invariant.
LEMMA SharedStepInv ==
  ASSUME Inv, TypeOK', NEW m \in Resources,
         \/ Begin(m) \/ AddFinalizer(m) \/ MarkPending(m) \/ MarkOutcome(m)
         \/ RemoveFinalizer(m) \/ UpdateStatus(m)
  PROVE  Inv'
<1>1. CommonTypeOK /\ TypeOK /\ ReconcileInv /\ IdentifiersKeepNames /\ RevocationTargets
  BY DEF Inv, TypeOK
<1>2. \/ BeginStep(m) \/ AddFinalizerStep(m) \/ MarkPendingStep(m) \/ MarkOutcomeStep(m)
      \/ RemoveFinalizerStep(m) \/ UpdateStatusStep(m)
  BY DEF Begin, AddFinalizer, MarkPending, MarkOutcome, RemoveFinalizer, UpdateStatus
<1>3. ReconcileInv'
  BY <1>1, <1>2, BeginKeeps, AddFinalizerKeeps, MarkPendingKeeps, MarkOutcomeKeeps,
     RemoveFinalizerKeeps, UpdateStatusKeeps
<1>4. /\ UNCHANGED centralVars
      /\ pc'[m] \notin {"put", "delete"}
      /\ \A k \in Resources \ {m} : mg'[k] = mg[k] /\ pc'[k] = pc[k]
  BY <1>1, <1>2, SharedStepMoves
<1>5. /\ \A k \in Resources : goal'[k] # "update"
      /\ pc'[m] # "update"
  <2>1. /\ \A k \in Resources : goal'[k] \in {goal[k], "status"}
        /\ pc'[m] = "update" => goal[m] = "update"
    BY <1>1, <1>2, SharedStepGoals
  <2> QED
    BY <1>1, <2>1 DEF RevocationTargets
<1>6. /\ IdentifiersKeepNames'
      /\ \A i \in Nat : \A n : Denotes(i, n) => Denotes(i, n)'
  BY <1>1, <1>4, ElsewhereKeepsNames
<1>7. RevocationTargets'
  BY <1>1, <1>4, <1>5, <1>6, TargetsKeep
<1> QED
  BY <1>3, <1>6, <1>7 DEF Inv

\* So does everyone else.
LEMMA OthersInv ==
  ASSUME Inv, TypeOK',
         \/ \E m \in Resources :
              CacheSync(m) \/ UserCreates(m) \/ UserEdits(m) \/ UserDeletes(m)
         \/ AdminActs \/ Arrive \/ UNCHANGED vars
  PROVE  Inv'
<1>1. CommonTypeOK /\ TypeOK /\ ReconcileInv /\ IdentifiersKeepNames /\ RevocationTargets
  BY DEF Inv, TypeOK
<1>2. UNCHANGED <<pc, mg, goal>>
  BY DEF CacheSync, UserCreates, UserEdits, UserDeletes, AdminActs, Arrive, vars, commonVars,
         CacheSyncStep, UserCreatesStep, UserEditsStep, UserDeletesStep, UserStores,
         AdminStep, ArriveStep, workerVars
<1>3. ReconcileInv'
  <2>1. ASSUME NEW m \in Resources, CacheSync(m)
        PROVE  ReconcileInv'
    BY <1>1, <2>1, CacheSyncKeeps DEF CacheSync
  <2>2. ASSUME NEW m \in Resources, UserCreates(m) \/ UserEdits(m) \/ UserDeletes(m)
        PROVE  ReconcileInv'
    BY <1>1, <2>2, UserKeeps DEF UserCreates, UserEdits, UserDeletes
  <2>3. CASE AdminActs \/ Arrive \/ UNCHANGED vars
    <3>1. UNCHANGED <<kubeVars, workerVars>>
      BY <2>3 DEF AdminActs, AdminStep, Arrive, ArriveStep, vars, commonVars
    <3> QED
      BY <1>1, <3>1, ElsewhereKeeps
  <2> QED
    BY <2>1, <2>2, <2>3
<1>4. /\ IdentifiersKeepNames'
      /\ \A i \in Nat : \A n : Denotes(i, n) => Denotes(i, n)'
  <2>1. CASE AdminActs
    BY <1>1, <2>1, AdminKeepsNames DEF AdminActs
  <2>2. CASE Arrive
    BY <1>1, <2>2, ArriveKeepsNames DEF Arrive
  <2>3. CASE ~AdminActs /\ ~Arrive
    <3>1. UNCHANGED centralVars
      BY <2>3 DEF CacheSync, UserCreates, UserEdits, UserDeletes, vars, commonVars,
         CacheSyncStep, UserCreatesStep, UserEditsStep, UserDeletesStep, UserStores
    <3> QED
      BY <1>1, <3>1, ElsewhereKeepsNames
  <2> QED
    BY <2>1, <2>2, <2>3
<1>5. RevocationTargets'
  <2>1. \A k \in Resources : mg[k].id \in Nat
    BY <1>1 DEF CommonTypeOK, Managed
  <2> QED
    BY <1>1, <1>2, <1>4, <2>1 DEF RevocationTargets
<1> QED
  BY <1>3, <1>4, <1>5 DEF Inv

\* So does a restart: no worker aims at anything after it.
LEMMA CrashInv ==
  ASSUME Inv, TypeOK', Crash
  PROVE  Inv'
<1>1. CommonTypeOK /\ ReconcileInv /\ IdentifiersKeepNames
  BY DEF Inv, TypeOK
<1>2. ReconcileInv'
  BY <1>1, CrashKeeps DEF Crash
<1>3. IdentifiersKeepNames'
  BY <1>1, ElsewhereKeepsNames DEF Crash, CrashStep
<1>4. RevocationTargets'
  BY DEF Crash, CrashStep, RevocationTargets
<1> QED
  BY <1>2, <1>3, <1>4 DEF Inv

\* Connecting, publishing and failing keep the invariant.
LEMMA PassiveInv ==
  ASSUME Inv, TypeOK', NEW m \in Resources, Connect(m) \/ Publish(m) \/ ObserveFails(m)
  PROVE  Inv'
<1>1. CommonTypeOK
  BY DEF Inv, TypeOK
<1>2. /\ SameButStatus(m) /\ UNCHANGED kubeVars /\ UNCHANGED mgCurrent
      /\ UNCHANGED goal /\ UNCHANGED centralVars
      /\ pc[m] \in {"connect", "observe", "publish"}
      /\ Goto(m, "status") \/ (Goto(m, "observe") /\ pc[m] = "connect")
  BY <1>1, MemoryUnchanged, MemoryReady
  DEF Connect, Publish, ObserveFails, HandlerFails, SetReady
<1>3. CASE Goto(m, "status")
  BY <1>2, <1>3, HandlerInv, GoalKept DEF Goto
<1>4. CASE Goto(m, "observe") /\ pc[m] = "connect"
  BY <1>2, <1>4, HandlerInv, GoalKept DEF Goto
<1> QED
  BY <1>2, <1>3, <1>4

\* Observe keeps the invariant: a bundle that is found is up to date, and the
\* identifier it stores denotes the name it looked for.
LEMMA ObserveFindsInv ==
  ASSUME Inv, TypeOK', NEW m \in Resources, ObserveFinds(m)
  PROVE  Inv'
<1>1. CommonTypeOK /\ TypeOK /\ ReconcileInv /\ IdentifiersKeepNames /\ RevocationTargets
  BY DEF Inv, TypeOK
<1>2. PICK c \in getInitBundle(m) :
        /\ mg' = [mg EXCEPT ![m].ready = "Available", ![m].id = c.id]
        /\ AfterObserve(m, TRUE, isUpToDate(m, c))
  BY DEF ObserveFinds
<1>3. isUpToDate(m, c) = TRUE
  BY DEF getInitBundle, Named, isUpToDate
<1>4. PICK phase \in {"delete", "finalizer"} :
        /\ pc' = [pc EXCEPT ![m] = phase]
        /\ phase = "delete" <=> mg[m].deleting
  BY <1>2 DEF AfterObserve, Goto
<1>5. SameButStatus(m)
  BY <1>1, <1>2, MemoryStatus
<1>6. /\ ReconcileInv'
      /\ pc'[m] = phase
      /\ \A k \in Resources \ {m} : mg'[k] = mg[k] /\ pc'[k] = pc[k]
  BY <1>1, <1>4, <1>5, StatusOnly DEF ObserveFinds
<1>7. /\ IdentifiersKeepNames'
      /\ \A i \in Nat : \A n : Denotes(i, n) => Denotes(i, n)'
  BY <1>1, ElsewhereKeepsNames DEF ObserveFinds
<1>8. \A k \in Resources : goal'[k] # "update"
  BY <1>1, <1>2, <1>3 DEF AfterObserve, RevocationTargets, CommonTypeOK
<1>9. CASE phase = "finalizer"
  <2>1. RevocationTargets'
    BY <1>1, <1>6, <1>7, <1>8, <1>9, TargetsKeep
  <2> QED
    BY <1>6, <1>7, <2>1 DEF Inv
<1>10. CASE phase = "delete"
  <2>1. mg'[m].id = c.id /\ c.id \in Nat
    BY <1>1, <1>2 DEF getInitBundle, Named, External, CommonTypeOK, Managed
  <2>2. Denotes(c.id, mg[m].spec.name)
    BY <1>1 DEF getInitBundle, Named, IdentifiersKeepNames
  <2>3. Denotes(mg[m].id, mg[m].spec.name)'
    <3>1. c.id < nextId' /\ \A d \in central' : d.id = c.id => d.spec.name = mg[m].spec.name
      BY <1>7, <2>1, <2>2 DEF Denotes
    <3> QED
      BY <1>5, <2>1, <3>1 DEF SameButStatus, Denotes
  <2>4. mg'[m].deleting /\ mg'[m].policy = "Delete"
    BY <1>1, <1>4, <1>5, <1>10 DEF ObserveFinds, SameButStatus, ReconcileInv, WorkerHolds, Holds
  <2>5. \A k \in Resources : mg[k].id \in Nat
    BY <1>1 DEF CommonTypeOK, Managed
  <2>6. RevocationTargets'
    BY <1>1, <1>6, <1>7, <1>8, <1>10, <2>3, <2>4, <2>5 DEF RevocationTargets
  <2> QED
    BY <1>6, <1>7, <2>6 DEF Inv
<1> QED
  BY <1>4, <1>9, <1>10

\* Looking in vain keeps the invariant.
LEMMA ObserveMissesInv ==
  ASSUME Inv, TypeOK', NEW m \in Resources, ObserveMisses(m)
  PROVE  Inv'
<1>1. CommonTypeOK /\ TypeOK /\ ReconcileInv /\ IdentifiersKeepNames /\ RevocationTargets
  BY DEF Inv, TypeOK
<1>2. pc[m] = "observe" /\ UNCHANGED kubeVars /\ UNCHANGED centralVars
  BY DEF ObserveMisses
<1>3. CASE AfterObserve(m, FALSE, FALSE) /\ UNCHANGED <<mg, mgCurrent, budget>>
  <2>1. PICK phase \in {"release", "finalizer"} :
          /\ pc' = [pc EXCEPT ![m] = phase]
          /\ phase = "release" <=> mg[m].deleting
    BY <1>3 DEF AfterObserve, Goto
  <2>2. SameButStatus(m)
    BY <1>3, MemoryUnchanged
  <2>3. \A k \in Resources : goal'[k] # "update"
    BY <1>1, <1>3 DEF AfterObserve, RevocationTargets, CommonTypeOK
  <2> QED
    BY <1>2, <1>3, <2>1, <2>2, <2>3, HandlerInv
<1>4. CASE WaitForCreation(m)
  <2>1. /\ pc'[m] = "idle" /\ mgCurrent' = mgCurrent \ {m}
        /\ \A k \in Resources \ {m} : mg'[k] = mg[k] /\ pc'[k] = pc[k]
    BY <1>1, <1>4 DEF WaitForCreation, Finish, Goto, CommonTypeOK
  <2>2. ReconcileInv'
    BY <1>1, <1>2, <2>1, HandlerKeeps DEF kubeVars
  <2>3. /\ IdentifiersKeepNames'
        /\ \A i \in Nat : \A n : Denotes(i, n) => Denotes(i, n)'
    BY <1>1, <1>2, ElsewhereKeepsNames
  <2>4. \A k \in Resources : goal'[k] # "update"
    BY <1>1, <1>4 DEF WaitForCreation, Finish, RevocationTargets, CommonTypeOK
  <2>5. RevocationTargets'
    BY <1>1, <2>1, <2>3, <2>4, TargetsKeep
  <2> QED
    BY <2>2, <2>3, <2>5 DEF Inv
<1> QED
  BY <1>3, <1>4 DEF ObserveMisses

\* Create keeps the invariant: it was announced, and a new bundle gets a new
\* identifier.
LEMMA CreateInv ==
  ASSUME Inv, TypeOK', NEW m \in Resources, Create(m)
  PROVE  Inv'
<1> DEFINE r == BundleRequest(m, "post", 0)
<1>1. CommonTypeOK /\ TypeOK
  BY DEF Inv, TypeOK
<1>2. r \in Request /\ r.op # "put"
  BY <1>1, BundleRequestType DEF BundleRequest
<1>3. CallSucceeds(r) \/ CallFails(r)
  BY SilentCall DEF Create
<1>4. SameButStatus(m)
  BY <1>1, MemoryStatus, MemoryReady DEF Create, SetReady
<1>5. PICK phase \in {"succeeded", "failed"} : pc' = [pc EXCEPT ![m] = phase]
  BY DEF Create, Goto
<1> QED
  BY <1>2, <1>3, <1>4, <1>5, HandlerInv, GoalKept DEF Create

\* Update and Delete keep the invariant.
LEMMA RevokeInv ==
  ASSUME Inv, TypeOK', NEW m \in Resources, Revoke(m)
  PROVE  Inv'
<1> DEFINE r == BundleRequest(m, "delete", mg[m].id)
<1>1. CommonTypeOK /\ TypeOK
  BY DEF Inv, TypeOK
<1>2. mg[m].id \in Nat
  BY <1>1 DEF CommonTypeOK, Managed
<1>3. r \in Request /\ r.op # "put"
  BY <1>1, <1>2, BundleRequestType DEF BundleRequest
<1>4. CallSucceeds(r) \/ CallFails(r)
  BY DEF Revoke
<1>5. SameButStatus(m)
  BY <1>1, MemoryReady DEF Revoke, SetReady
<1>6. PICK phase \in {"publish", "status"} : pc' = [pc EXCEPT ![m] = phase]
  BY DEF Revoke, Goto
<1> QED
  BY <1>3, <1>4, <1>5, <1>6, HandlerInv, GoalKept DEF Revoke

\* The invariant holds in every reachable state.
THEOREM Invariance == Spec => []Inv
<1>1. Init => Inv
  <2>1. Init => TypeOK
    BY CommonInitType DEF Init, TypeOK
  <2> QED
    BY <2>1, ReconcileInit
    DEF Init, Inv, CommonInit, IdentifiersKeepNames, RevocationTargets
<1>2. Inv /\ TypeOK' /\ [Next]_vars => Inv'
  BY SharedStepInv, PassiveInv, ObserveFindsInv, ObserveMissesInv, CreateInv, RevokeInv,
     OthersInv, CrashInv
  DEF Next, Worker
<1> QED
  BY <1>1, <1>2, Typing, PTL DEF Spec

\* Whatever was renamed, revoked or restored: Update, which revokes the bundle,
\* is never called, and Delete revokes a bundle of the object's own name, for
\* an object seen deleted with policy Delete only.
THEOREM RevocationsAreDeletions == Spec => []RevokesOnlyOwnOnDeletion
<1>1. Inv => RevokesOnlyOwnOnDeletion
  BY DEF Inv, RevocationTargets, RevokesOnlyOwnOnDeletion, Denotes
<1> QED
  BY <1>1, Invariance, PTL

-----------------------------------------------------------------------------
(***************************************************************************)
(* The promise of ManagedLife is kept.                                     *)
(***************************************************************************)

\* Nothing is late where nothing can be.
LEMMA Lateness == Spec => []LateIfAllowed
<1>1. Init => LateIfAllowed
  BY DEF Init, CommonInit, LateIfAllowed
<1>2. LateIfAllowed /\ [Next]_vars => LateIfAllowed'
  <2> SUFFICES ASSUME LateIfAllowed, [Next]_vars
               PROVE  LateIfAllowed'
    OBVIOUS
  <2>1. ASSUME NEW m \in Resources, Create(m) \/ Revoke(m)
        PROVE  LateIfAllowed'
    BY <2>1, CallLate, SilentCall DEF Create, Revoke
  <2>2. ASSUME NEW m \in Resources,
               Connect(m) \/ ObserveFinds(m) \/ ObserveMisses(m) \/ ObserveFails(m) \/ Publish(m)
        PROVE  LateIfAllowed'
    BY <2>2 DEF Connect, ObserveFinds, ObserveMisses, ObserveFails, Publish, HandlerFails,
      centralVars, LateIfAllowed
  <2>3. ASSUME NEW m \in Resources,
               \/ Begin(m) \/ AddFinalizer(m) \/ MarkPending(m) \/ MarkOutcome(m)
               \/ RemoveFinalizer(m) \/ UpdateStatus(m)
        PROVE  LateIfAllowed'
    BY <2>3 DEF Begin, AddFinalizer, MarkPending, MarkOutcome, RemoveFinalizer, UpdateStatus,
      BeginStep, AddFinalizerStep, MarkPendingStep, MarkOutcomeStep, RemoveFinalizerStep,
      UpdateStatusStep, centralVars, LateIfAllowed
  <2>4. ASSUME NEW m \in Resources,
               CacheSync(m) \/ UserCreates(m) \/ UserEdits(m) \/ UserDeletes(m)
        PROVE  LateIfAllowed'
    BY <2>4 DEF CacheSync, UserCreates, UserEdits, UserDeletes, CacheSyncStep, UserCreatesStep,
      UserEditsStep, UserDeletesStep, UserStores, centralVars, LateIfAllowed
  <2>5. CASE AdminActs \/ Arrive \/ Crash
    BY <2>5 DEF AdminActs, AdminStep, Arrive, ArriveStep, Crash, CrashStep, centralVars, LateIfAllowed
  <2>6. CASE UNCHANGED vars
    BY <2>6 DEF vars, commonVars, centralVars, LateIfAllowed
  <2> QED
    BY <2>1, <2>2, <2>3, <2>4, <2>5, <2>6 DEF Next, Worker
<1> QED
  BY <1>1, <1>2, PTL DEF Spec

\* Every step of the reconciler and the handlers is one of ManagedLife.
LEMMA WorkerLives ==
  ASSUME Inv, NEW m \in Resources, Worker(m)
  PROVE  [Life!Next]_Life!vars
<1>1. CommonTypeOK /\ TypeOK /\ ReconcileInv
  BY DEF Inv, TypeOK
<1>2. CASE \/ Begin(m) \/ AddFinalizer(m) \/ MarkPending(m) \/ MarkOutcome(m)
           \/ RemoveFinalizer(m) \/ UpdateStatus(m)
  BY <1>1, <1>2, BeginLives, AddFinalizerLives, MarkPendingLives, MarkOutcomeLives,
     RemoveFinalizerLives, UpdateStatusLives
  DEF Begin, AddFinalizer, MarkPending, MarkOutcome, RemoveFinalizer, UpdateStatus
<1>3. CASE Create(m)
  <2> DEFINE r == BundleRequest(m, "post", 0)
  <2>1. r \in Request /\ r.op = "post" /\ r.by = m
    BY <1>1, BundleRequestType DEF BundleRequest
  <2>2. /\ CallSucceeds(r) \/ CallFails(r)
        /\ pc' = [pc EXCEPT ![m] = "succeeded"] \/ pc' = [pc EXCEPT ![m] = "failed"]
        /\ pc[m] = "create" /\ UNCHANGED api
    BY <1>3, SilentCall DEF Create, Goto, kubeVars
  <2> QED
    BY <1>1, <2>1, <2>2, CreateLives
<1>4. CASE Revoke(m)
  <2> DEFINE r == BundleRequest(m, "delete", mg[m].id)
  <2>1. mg[m].id \in Nat
    BY <1>1 DEF CommonTypeOK, Managed
  <2>2. r \in Request /\ r.op # "post"
    BY <1>1, <2>1, BundleRequestType DEF BundleRequest
  <2>3. /\ CallSucceeds(r) \/ CallFails(r)
        /\ pc[m] # "create" /\ UNCHANGED api
        /\ pc' = [pc EXCEPT ![m] = "publish"] \/ pc' = [pc EXCEPT ![m] = "status"]
    BY <1>4 DEF Revoke, Goto, kubeVars
  <2> QED
    BY <1>1, <2>2, <2>3, OtherHandlerLives
<1>5. CASE Connect(m) \/ ObserveFinds(m) \/ ObserveMisses(m) \/ ObserveFails(m) \/ Publish(m)
  <2>1. /\ UNCHANGED <<api, central>>
        /\ pc[m] # "create"
        /\ \E phase \in Phases \ {"create"} : pc' = [pc EXCEPT ![m] = phase]
    BY <1>5 DEF Connect, ObserveFinds, ObserveMisses, ObserveFails, Publish, HandlerFails,
      AfterObserve, WaitForCreation, Finish, Goto, Phases, kubeVars, centralVars
  <2> QED
    BY <1>1, <2>1, OtherHandlerLives
<1> QED
  BY <1>2, <1>3, <1>4, <1>5 DEF Worker

\* Whatever is lost, late, repeated, restarted or stale, and whatever users do
\* meanwhile: the controller keeps the promise of ManagedLife.
THEOREM KeepsThePromise == Spec => LivesAsPromised
<1>1. Init => Life!Init
  BY CommonInitLives DEF Init
<1>2. Inv /\ LateIfAllowed /\ [Next]_vars => [Life!Next]_Life!vars
  <2> SUFFICES ASSUME Inv, LateIfAllowed, [Next]_vars
               PROVE  [Life!Next]_Life!vars
    OBVIOUS
  <2>1. CommonTypeOK /\ ReconcileInv
    BY DEF Inv, TypeOK
  <2>2. ASSUME NEW m \in Resources, Worker(m)
        PROVE  [Life!Next]_Life!vars
    BY <2>2, WorkerLives
  <2>3. ASSUME NEW m \in Resources,
               CacheSync(m) \/ UserCreates(m) \/ UserEdits(m) \/ UserDeletes(m)
        PROVE  [Life!Next]_Life!vars
    BY <2>1, <2>3, CacheSyncLives, UserCreatesLives, UserEditsLives, UserDeletesLives
    DEF CacheSync, UserCreates, UserEdits, UserDeletes
  <2>4. CASE AdminActs \/ Arrive \/ Crash
    BY <2>1, <2>4, AdminLives, ArriveLives, CrashLives DEF AdminActs, Arrive, Crash
  <2>5. CASE UNCHANGED vars
    BY <2>5, Stutters DEF vars, commonVars, kubeVars, workerVars, centralVars, objectView,
      intentView, madeView, ObjectOf, IntentOf, MadeFor
  <2> QED
    BY <2>2, <2>3, <2>4, <2>5 DEF Next
<1> QED
  BY <1>1, <1>2, Invariance, Lateness, PTL DEF Spec, LivesAsPromised, Life!Spec

-----------------------------------------------------------------------------
(***************************************************************************)
(* The contents in the secret.                                             *)
(***************************************************************************)

\* Only a worker that has just created a bundle holds contents, and they are
\* newer than those in the secret.
ContentsInOrder ==
  \A m \in Resources :
    /\ secret[m] < nextId /\ details[m] < nextId
    /\ details[m] # 0 => pc[m] \in {"succeeded", "publish"} /\ secret[m] < details[m]

\* A step that reads no reply to a creation keeps them in order, when the worker
\* drops what it holds as it moves on.
LEMMA OrderKept ==
  ASSUME TypeOK, TypeOK', ContentsInOrder, nextId' >= nextId,
         \A k \in Resources :
           /\ secret'[k] \in {secret[k], 0} \/ (secret'[k] = Published(k) /\ details'[k] = 0)
           /\ \/ details'[k] = 0
              \/ /\ details'[k] = details[k] /\ secret'[k] \in {secret[k], 0}
                 /\ pc[k] \in {"succeeded", "publish"} => pc'[k] \in {"succeeded", "publish"}
  PROVE  ContentsInOrder'
<1>1. /\ nextId \in Nat /\ nextId' \in Nat
      /\ \A k \in Resources :
           secret[k] \in Nat /\ details[k] \in Nat /\ secret'[k] \in Nat /\ details'[k] \in Nat
  BY DEF TypeOK, CommonTypeOK
<1> SUFFICES ASSUME NEW k \in Resources
             PROVE  /\ secret'[k] < nextId' /\ details'[k] < nextId'
                    /\ details'[k] # 0 => pc'[k] \in {"succeeded", "publish"} /\ secret'[k] < details'[k]
  BY DEF ContentsInOrder
<1>2. /\ secret[k] < nextId /\ details[k] < nextId
      /\ details[k] # 0 => pc[k] \in {"succeeded", "publish"} /\ secret[k] < details[k]
  BY DEF ContentsInOrder
<1>3. secret'[k] \in {secret[k], details[k], 0}
  BY DEF Published
<1> QED
  BY <1>1, <1>2, <1>3

\* Central counts up.
LEMMA CountsUp ==
  ASSUME nextId \in Nat,
         \/ \E r : CallSucceeds(r) \/ CallFails(r)
         \/ AdminStep \/ ArriveStep \/ UNCHANGED centralVars
  PROVE  nextId' \in Nat /\ nextId' >= nextId
<1>1. \/ \E r : Serve(r) \/ ServeRepeatedly(r)
      \/ UNCHANGED nextId
  BY DEF CallSucceeds, CallFails, AdminStep, ArriveStep, centralVars
<1>2. ASSUME NEW r, Serve(r)
      PROVE  nextId' \in Nat /\ nextId' >= nextId
  <2>1. nextId' = nextId + 1 \/ nextId' = nextId
    BY <1>2 DEF Serve, ServePost, ServePut, ServeDelete
  <2> QED
    BY <2>1
<1>3. ASSUME NEW r, ServeRepeatedly(r)
      PROVE  nextId' \in Nat /\ nextId' >= nextId
  BY <1>3 DEF ServeRepeatedly, MaxAttempts
<1> QED
  BY <1>1, <1>2, <1>3

\* The contents are in order in every reachable state.
LEMMA Order == Spec => []ContentsInOrder
<1>1. Init => ContentsInOrder
  <2> SUFFICES ASSUME Init, NEW m \in Resources
               PROVE  /\ secret[m] < nextId /\ details[m] < nextId
                      /\ details[m] # 0 => pc[m] \in {"succeeded", "publish"} /\ secret[m] < details[m]
    BY DEF ContentsInOrder
  <2>1. nextId = 1 /\ secret[m] = 0 /\ details[m] = 0
    BY DEF Init, CommonInit
  <2> QED
    BY <2>1
<1>2. Inv /\ Inv' /\ ContentsInOrder /\ [Next]_vars => ContentsInOrder'
  <2> SUFFICES ASSUME Inv, Inv', ContentsInOrder, [Next]_vars
               PROVE  ContentsInOrder'
    OBVIOUS
  <2>1. TypeOK /\ TypeOK' /\ CommonTypeOK /\ nextId \in Nat
    BY DEF Inv, TypeOK, CommonTypeOK
  <2>2. ASSUME NEW m \in Resources, Create(m)
        PROVE  ContentsInOrder'
    <3> DEFINE r == BundleRequest(m, "post", 0)
    <3>1. r.op = "post"
      BY DEF BundleRequest
    <3> HIDE DEF r
    <3>2. CASE /\ CallSucceeds(r) \/ CallSucceedsSilently(r)
               /\ details' = [details EXCEPT ![m] = nextId' - 1]
               /\ Goto(m, "succeeded")
      <4>1. nextId' \in Nat /\ nextId' > nextId
        <5>1. CASE Serve(r)
          BY <2>1, <3>1, <5>1 DEF Serve, ServePost, ServePut, ServeDelete
        <5>2. CASE ServeRepeatedly(r)
          BY <2>1, <5>2 DEF ServeRepeatedly, MaxAttempts
        <5> QED
          BY <3>2, <5>1, <5>2 DEF CallSucceeds, CallSucceedsSilently
      <4>2. /\ secret' = secret /\ details'[m] = nextId' - 1 /\ pc'[m] = "succeeded"
            /\ \A k \in Resources \ {m} : details'[k] = details[k] /\ pc'[k] = pc[k]
            /\ \A k \in Resources : secret[k] \in Nat /\ details[k] \in Nat
        BY <2>1, <2>2, <3>2 DEF Create, Goto, TypeOK, CommonTypeOK
      <4> QED
        BY <2>1, <4>1, <4>2 DEF ContentsInOrder
    <3>3. CASE CallFails(r) /\ Goto(m, "failed") /\ UNCHANGED details
      <4>1. nextId' >= nextId
        BY <2>1, <3>3, CountsUp
      <4>2. /\ UNCHANGED <<secret, details>> /\ pc[m] = "create"
            /\ \A k \in Resources \ {m} : pc'[k] = pc[k]
        BY <2>1, <2>2, <3>3 DEF Create, Goto, CommonTypeOK
      <4> QED
        BY <2>1, <4>1, <4>2, OrderKept
    <3> QED
      BY <2>2, <3>2, <3>3 DEF Create, r
  <2>3. ASSUME NEW m \in Resources, Revoke(m)
        PROVE  ContentsInOrder'
    <3>1. nextId' >= nextId
      BY <2>1, <2>3, CountsUp DEF Revoke
    <3>2. /\ UNCHANGED <<secret, details>> /\ pc[m] \in {"delete", "update"}
          /\ \A k \in Resources \ {m} : pc'[k] = pc[k]
      BY <2>1, <2>3 DEF Revoke, Goto, bundleVars, CommonTypeOK
    <3> QED
      BY <2>1, <3>1, <3>2, OrderKept
  <2>4. ASSUME NEW m \in Resources, Publish(m)
        PROVE  ContentsInOrder'
    <3>1. /\ nextId' = nextId /\ details'[m] = 0 /\ secret'[m] \in {secret[m], Published(m)}
          /\ \A k \in Resources \ {m} :
               secret'[k] = secret[k] /\ details'[k] = details[k] /\ pc'[k] = pc[k]
      BY <2>1, <2>4 DEF Publish, Goto, centralVars, TypeOK, CommonTypeOK
    <3> QED
      BY <2>1, <3>1, OrderKept
  <2>5. ASSUME NEW m \in Resources, AddFinalizer(m)
        PROVE  ContentsInOrder'
    <3>1. details[m] = 0
      BY <2>5 DEF AddFinalizer, AddFinalizerStep, ContentsInOrder
    <3>2. /\ nextId' = nextId /\ details' = details /\ secret'[m] = Published(m)
          /\ \A k \in Resources \ {m} : secret'[k] = secret[k] /\ pc'[k] = pc[k]
      BY <2>1, <2>5 DEF AddFinalizer, AddFinalizerStep, Goto, centralVars, TypeOK, CommonTypeOK
    <3> QED
      BY <2>1, <3>1, <3>2, OrderKept
  <2>6. ASSUME NEW m \in Resources, MarkOutcome(m)
        PROVE  ContentsInOrder'
    <3>1. /\ nextId' = nextId /\ secret' = secret
          /\ details'[m] = 0 \/ (details'[m] = details[m] /\ pc'[m] = "publish")
          /\ \A k \in Resources \ {m} : details'[k] = details[k] /\ pc'[k] = pc[k]
      BY <2>1, <2>6 DEF MarkOutcome, MarkOutcomeStep, Goto, centralVars, TypeOK, CommonTypeOK
    <3> QED
      BY <2>1, <3>1, OrderKept
  <2>7. ASSUME NEW m \in Resources, RemoveFinalizer(m) \/ UserDeletes(m)
        PROVE  ContentsInOrder'
    <3>1. /\ nextId' = nextId /\ details' = details /\ secret'[m] \in {secret[m], 0}
          /\ pc' = pc \/ (pc[m] = "release" /\ \A k \in Resources \ {m} : pc'[k] = pc[k])
          /\ \A k \in Resources \ {m} : secret'[k] = secret[k]
      BY <2>1, <2>7 DEF RemoveFinalizer, RemoveFinalizerStep, UserDeletes, UserDeletesStep, UserStores,
        Finish, OwnedSecret, Goto, centralVars, TypeOK, CommonTypeOK
    <3>2. pc[m] = "release" => details[m] = 0
      BY DEF ContentsInOrder
    <3> QED
      BY <2>1, <3>1, <3>2, OrderKept
  <2>8. ASSUME NEW m \in Resources,
               \/ Begin(m) \/ Connect(m) \/ ObserveFinds(m) \/ ObserveMisses(m) \/ ObserveFails(m)
               \/ MarkPending(m) \/ UpdateStatus(m)
        PROVE  ContentsInOrder'
    <3>1. /\ nextId' = nextId /\ UNCHANGED <<secret, details>>
          /\ pc[m] \notin {"succeeded", "publish"} /\ \A k \in Resources \ {m} : pc'[k] = pc[k]
      BY <2>1, <2>8 DEF Begin, BeginStep, Connect, ObserveFinds, ObserveMisses, ObserveFails,
        HandlerFails, AfterObserve, WaitForCreation, MarkPending, MarkPendingStep, UpdateStatus,
        UpdateStatusStep, Finish, Goto, bundleVars, centralVars, CommonTypeOK
    <3>2. details[m] = 0
      BY <3>1 DEF ContentsInOrder
    <3> QED
      BY <2>1, <3>1, <3>2, OrderKept
  <2>9. ASSUME NEW m \in Resources, CacheSync(m) \/ UserCreates(m) \/ UserEdits(m)
        PROVE  ContentsInOrder'
    <3>1. UNCHANGED <<nextId, secret, details, pc>>
      BY <2>9 DEF CacheSync, CacheSyncStep, UserCreates, UserCreatesStep, UserEdits, UserEditsStep,
        UserStores, bundleVars, centralVars, workerVars
    <3> QED
      BY <2>1, <3>1, OrderKept
  <2>10. CASE AdminActs \/ Arrive
    <3>1. nextId' >= nextId /\ UNCHANGED <<secret, details, pc>>
      BY <2>1, <2>10, CountsUp DEF AdminActs, AdminStep, Arrive, ArriveStep, bundleVars, workerVars
    <3> QED
      BY <2>1, <3>1, OrderKept
  <2>11. CASE Crash
    <3>1. nextId' = nextId /\ secret' = secret /\ details' = [m \in Resources |-> 0]
      BY <2>11 DEF Crash, CrashStep, centralVars
    <3> QED
      BY <2>1, <3>1, OrderKept
  <2>12. CASE UNCHANGED vars
    BY <2>12 DEF vars, commonVars, workerVars, centralVars, bundleVars, ContentsInOrder
  <2> QED
    BY <2>2, <2>3, <2>4, <2>5, <2>6, <2>7, <2>8, <2>9, <2>10, <2>11, <2>12 DEF Next, Worker
<1> QED
  BY <1>1, <1>2, Invariance, PTL DEF Spec

\* Whatever is edited, restarted, lost or late: while the object is there, what
\* is written to its secret is never older than what the secret has, and nothing
\* empties it.
THEOREM SecretsNeverRegress == Spec => SecretNeverRegresses
<1>1. ASSUME Inv, ContentsInOrder, [Next]_vars, NEW k \in Resources, api'[k].exists
      PROVE  secret'[k] >= secret[k]
  <2>1. TypeOK /\ secret[k] \in Nat /\ details[k] \in Nat
    BY <1>1 DEF Inv, TypeOK
  <2>2. Published(k) \in Nat /\ Published(k) >= secret[k]
    BY <1>1, <2>1 DEF Published, ContentsInOrder
  <2>3. ASSUME NEW m \in Resources,
               Publish(m) \/ AddFinalizer(m) \/ RemoveFinalizer(m) \/ UserDeletes(m)
        PROVE  secret'[k] \in {secret[k], Published(k)}
    BY <1>1, <2>1, <2>3 DEF Publish, AddFinalizer, RemoveFinalizer, UserDeletes, OwnedSecret, TypeOK
  <2>4. ASSUME NEW m \in Resources,
               \/ Begin(m) \/ Connect(m) \/ ObserveFinds(m) \/ ObserveMisses(m) \/ ObserveFails(m)
               \/ MarkPending(m) \/ Create(m) \/ MarkOutcome(m) \/ Revoke(m) \/ UpdateStatus(m)
               \/ CacheSync(m) \/ UserCreates(m) \/ UserEdits(m)
        PROVE  secret' = secret
    BY <2>4 DEF Begin, Connect, ObserveFinds, ObserveMisses, ObserveFails, HandlerFails, MarkPending,
      Create, MarkOutcome, Revoke, UpdateStatus, CacheSync, UserCreates, UserEdits, bundleVars
  <2>5. AdminActs \/ Arrive \/ Crash \/ UNCHANGED vars => secret' = secret
    BY DEF AdminActs, Arrive, Crash, vars, bundleVars
  <2> QED
    BY <1>1, <2>1, <2>2, <2>3, <2>4, <2>5 DEF Next, Worker
<1>2. Inv /\ ContentsInOrder /\ [Next]_vars =>
        \A m \in Resources : api[m].exists /\ api'[m].exists => secret'[m] >= secret[m]
  BY <1>1
<1> QED
  BY <1>2, Invariance, Order, PTL DEF Spec, SecretNeverRegresses

-----------------------------------------------------------------------------
(***************************************************************************)
(* Whose contents they are.                                                *)
(***************************************************************************)
\* The bundles whose contents are on their way to the secret of m, or there.
Contents(m) == {details[m], secret[m]} \ {0}

\* Between the reply to a creation and the secret.
Carries(m) == pc[m] \in {"succeeded", "publish"}

\* Contents are those of bundles made for the resource, which has a creation on
\* record; and no two resources have those of one bundle.
ContentsAreOwn ==
  \A m \in Resources :
    /\ Contents(m) # {} \/ Carries(m) => api[m].create # "never"
    /\ \A c \in central : c.id \in Contents(m) => c.by = m
    /\ \A k \in Resources \ {m} : Contents(k) \cap Contents(m) = {}

\* So they stay when no contents are added, no record is lost that they need,
\* and what Central makes is new.
LEMMA OwnStay ==
  ASSUME TypeOK, ContentsInOrder, ContentsAreOwn,
         \A k \in Resources : Contents(k)' \subseteq Contents(k),
         \A k \in Resources :
           \/ api'[k].create = api[k].create /\ (Carries(k)' => Carries(k))
           \/ api'[k].create # "never"
           \/ Contents(k)' = {} /\ ~Carries(k)',
         \A d \in central' :
           \/ d.id \in Nat /\ d.id >= nextId
           \/ \E c \in central : c.id = d.id /\ c.by = d.by /\ c.spec.name = d.spec.name
  PROVE  ContentsAreOwn'
<1> SUFFICES ASSUME NEW m \in Resources
             PROVE  /\ Contents(m)' # {} \/ Carries(m)' => api'[m].create # "never"
                    /\ \A c \in central' : c.id \in Contents(m)' => c.by = m
                    /\ \A k \in Resources \ {m} : Contents(k)' \cap Contents(m)' = {}
  BY DEF ContentsAreOwn
<1>1. nextId \in Nat /\ \A i \in Contents(m) : i \in Nat /\ i < nextId
  BY DEF Contents, ContentsInOrder, TypeOK, CommonTypeOK
<1>2. ASSUME NEW d \in central', d.id \in Contents(m)'
      PROVE  d.by = m
  <2>1. ~(d.id \in Nat /\ d.id >= nextId)
    BY <1>1, <1>2
  <2>2. PICK c \in central : c.id = d.id /\ c.by = d.by
    BY <2>1
  <2> QED
    BY <1>2, <2>2 DEF ContentsAreOwn
<1> QED
  BY <1>2 DEF ContentsAreOwn

\* A creation that succeeds gives its caller contents that nobody has, of a
\* bundle made for it.
LEMMA CreateOwns ==
  ASSUME Inv, Inv', ContentsInOrder, ContentsAreOwn, NEW m \in Resources, Create(m)
  PROVE  ContentsAreOwn'
<1>1. /\ TypeOK /\ CommonTypeOK /\ IdentifiersKeepNames /\ nextId \in Nat
      /\ \A k \in Resources : \A i \in Contents(k) : i \in Nat /\ i < nextId
  BY DEF Inv, TypeOK, CommonTypeOK, ContentsInOrder, Contents
<1> DEFINE r == BundleRequest(m, "post", 0)
<1>2. r \in Request /\ r.op = "post" /\ r.by = m
  BY <1>1, BundleRequestType DEF BundleRequest
<1>3. /\ UNCHANGED <<api, secret>> /\ pc[m] = "create" /\ api[m].create = "pending"
      /\ \A k \in Resources \ {m} : pc'[k] = pc[k]
  BY <1>1 DEF Create, kubeVars, Goto, CommonTypeOK, Inv, ReconcileInv, CreateIsRecoverable
<1>4. \/ (CallSucceeds(r) \/ CallSucceedsSilently(r)) /\ details' = [details EXCEPT ![m] = nextId' - 1]
      \/ CallFails(r) /\ UNCHANGED details
  BY DEF Create
<1> HIDE DEF r
<1>5. \A d \in central' :
        \/ d.id \in Nat /\ d.id >= nextId
        \/ \E c \in central : c.id = d.id /\ c.by = d.by /\ c.spec.name = d.spec.name
  BY <1>1, <1>2, <1>4, MakersStay, SilentCall
<1>6. CASE (CallSucceeds(r) \/ CallSucceedsSilently(r)) /\ details' = [details EXCEPT ![m] = nextId' - 1]
  <2>1. /\ nextId' - 1 \in Nat /\ nextId' - 1 >= nextId
        /\ \A d \in central' : d \in central \/ d.by = m
    <3>1. CASE Serve(r)
      BY <1>1, <1>2, <3>1 DEF Serve, ServePost, ServePut, ServeDelete
    <3>2. CASE ServeRepeatedly(r)
      BY <1>1, <1>2, <3>2 DEF ServeRepeatedly, MaxAttempts
    <3> QED
      BY <1>6, <3>1, <3>2 DEF CallSucceeds, CallSucceedsSilently
  <2>2. /\ Contents(m)' \subseteq Contents(m) \cup {nextId' - 1}
        /\ \A k \in Resources \ {m} : Contents(k)' = Contents(k)
    BY <1>1, <1>3, <1>6 DEF Contents, TypeOK
  <2> SUFFICES ASSUME NEW k \in Resources
               PROVE  /\ Contents(k)' # {} \/ Carries(k)' => api[k].create # "never"
                      /\ \A c \in central' : c.id \in Contents(k)' => c.by = k
                      /\ \A j \in Resources \ {k} : Contents(j)' \cap Contents(k)' = {}
    BY <1>3 DEF ContentsAreOwn
  <2>3. Contents(k)' # {} \/ Carries(k)' => api[k].create # "never"
    BY <1>3, <2>2 DEF ContentsAreOwn, Carries
  <2>4. ASSUME NEW c \in central', c.id \in Contents(k)'
        PROVE  c.by = k
    <3>1. CASE c.id \in Contents(k)
      <4>1. ~(c.id \in Nat /\ c.id >= nextId)
        BY <1>1, <3>1
      <4>2. PICK d \in central : d.id = c.id /\ d.by = c.by
        BY <1>5, <4>1
      <4> QED
        BY <3>1, <4>2 DEF ContentsAreOwn
    <3>2. CASE c.id \notin Contents(k)
      <4>1. k = m /\ c.id = nextId' - 1
        BY <2>2, <2>4, <3>2
      <4>2. c \notin central
        BY <1>1, <2>1, <4>1 DEF IdentifiersKeepNames, Denotes
      <4> QED
        BY <2>1, <4>1, <4>2
    <3> QED
      BY <3>1, <3>2
  <2>5. ASSUME NEW j \in Resources \ {k}
        PROVE  Contents(j)' \cap Contents(k)' = {}
    <3>1. Contents(j) \cap Contents(k) = {}
      BY DEF ContentsAreOwn
    <3>2. nextId' - 1 \notin Contents(j) /\ nextId' - 1 \notin Contents(k)
      BY <1>1, <2>1
    <3>3. CASE j # m
      <4>1. Contents(j)' = Contents(j) /\ Contents(k)' \subseteq Contents(k) \cup {nextId' - 1}
        BY <2>2, <3>3
      <4> QED
        BY <3>1, <3>2, <4>1
    <3>4. CASE j = m
      <4>1. Contents(k)' = Contents(k) /\ Contents(j)' \subseteq Contents(j) \cup {nextId' - 1}
        BY <2>2, <3>4
      <4> QED
        BY <3>1, <3>2, <4>1
    <3> QED
      BY <3>3, <3>4
  <2> QED
    BY <2>3, <2>4, <2>5
<1>7. CASE CallFails(r) /\ UNCHANGED details
  <2>1. \A k \in Resources : Contents(k)' = Contents(k)
    BY <1>3, <1>7 DEF Contents
  <2>2. api'[m].create # "never" /\ \A k \in Resources \ {m} : Carries(k)' => Carries(k)
    BY <1>3 DEF Carries
  <2> QED
    BY <1>1, <1>3, <1>5, <2>1, <2>2, OwnStay
<1> QED
  BY <1>4, <1>6, <1>7

\* Every other step of a worker adds no contents, and no resource loses the
\* record of a creation but by going away, contents and all.
LEMMA WorkerOwns ==
  ASSUME Inv, Inv', ContentsInOrder, ContentsAreOwn, NEW m \in Resources, Worker(m)
  PROVE  ContentsAreOwn'
<1>1. /\ TypeOK /\ CommonTypeOK /\ IdentifiersKeepNames /\ api[m] \in Managed
      /\ Blank \in Managed
  BY BlankType DEF Inv, TypeOK, CommonTypeOK
<1>2. CASE Create(m)
  BY <1>2, CreateOwns
<1>3. CASE ~Create(m)
  <2>1. \A d \in central' :
          \/ d.id \in Nat /\ d.id >= nextId
          \/ \E c \in central : c.id = d.id /\ c.by = d.by /\ c.spec.name = d.spec.name
    <3>1. CASE Revoke(m)
      <4> DEFINE r == BundleRequest(m, "delete", mg[m].id)
      <4>1. mg[m].id \in Nat
        BY <1>1 DEF CommonTypeOK, Managed
      <4>2. r \in Request /\ r.op = "delete"
        BY <1>1, <4>1, BundleRequestType DEF BundleRequest
      <4>3. CallSucceeds(r) \/ CallFails(r)
        BY <3>1 DEF Revoke
      <4> HIDE DEF r
      <4> QED
        BY <1>1, <4>2, <4>3, MakersStay
    <3>2. CASE ~Revoke(m)
      <4>1. UNCHANGED central
        BY <1>3, <3>2 DEF Worker, Begin, BeginStep, Connect, ObserveFinds, ObserveMisses,
          ObserveFails, HandlerFails, AddFinalizer, AddFinalizerStep, MarkPending,
          MarkPendingStep, MarkOutcome, MarkOutcomeStep, Publish, RemoveFinalizer,
          RemoveFinalizerStep, UpdateStatus, UpdateStatusStep, centralVars
      <4> QED
        BY <4>1
    <3> QED
      BY <3>1, <3>2
  <2>2. \A k \in Resources \ {m} : /\ details'[k] = details[k] /\ secret'[k] = secret[k]
                                   /\ api'[k] = api[k] /\ pc'[k] = pc[k]
    BY <1>1, <1>3 DEF Worker, Begin, BeginStep, Connect, ObserveFinds, ObserveMisses, ObserveFails,
      HandlerFails, AfterObserve, WaitForCreation, AddFinalizer, AddFinalizerStep, MarkPending,
      MarkPendingStep, MarkOutcome, MarkOutcomeStep, Revoke, Publish, RemoveFinalizer,
      RemoveFinalizerStep, UpdateStatus, UpdateStatusStep, Store, Finish, Goto, OwnedSecret,
      kubeVars, bundleVars, TypeOK, CommonTypeOK
  <2>3. /\ details'[m] \in {details[m], 0}
        /\ secret'[m] \in {secret[m], details[m], 0}
    BY <1>1, <1>3 DEF Worker, Begin, Connect, ObserveFinds, ObserveMisses, ObserveFails,
      HandlerFails, AddFinalizer, MarkPending, MarkOutcome, Revoke, Publish, Published,
      RemoveFinalizer, UpdateStatus, OwnedSecret, bundleVars, TypeOK
  <2>4. \A k \in Resources : Contents(k)' \subseteq Contents(k)
    BY <2>2, <2>3 DEF Contents
  <2>5. \/ api'[m].create = api[m].create /\ (Carries(m)' => Carries(m))
        \/ api'[m].create # "never"
        \/ Contents(m)' = {} /\ ~Carries(m)'
    <3>1. CASE RemoveFinalizer(m)
      <4>1. pc[m] = "release" /\ details'[m] = details[m] /\ pc'[m] \in {"idle", "status"}
        BY <1>1, <3>1 DEF RemoveFinalizer, RemoveFinalizerStep, Finish, Goto, CommonTypeOK
      <4>2. details[m] = 0
        BY <4>1 DEF ContentsInOrder
      <4>3. api' = api \/ secret'[m] = 0
        BY <1>1, <3>1 DEF RemoveFinalizer, RemoveFinalizerStep, OwnedSecret, Store, kubeVars, Blank,
          TypeOK, CommonTypeOK
      <4> QED
        BY <4>1, <4>2, <4>3 DEF Contents, Carries
    <3>2. CASE MarkPending(m) \/ MarkOutcome(m)
      <4>1. \/ api' = api /\ pc'[m] = "status"
            \/ api'[m] = [api[m] EXCEPT !.create = "pending"]
            \/ api'[m] = [api[m] EXCEPT !.create = pc[m]] /\ pc[m] \in {"succeeded", "failed"}
        BY <1>1, <3>2 DEF MarkPending, MarkPendingStep, MarkOutcome, MarkOutcomeStep, Store, Goto,
          kubeVars, CommonTypeOK
      <4> QED
        BY <1>1, <4>1 DEF Carries, Managed
    <3>3. CASE AddFinalizer(m) \/ UpdateStatus(m)
      <4>1. pc'[m] \notin {"succeeded", "publish"}
        BY <1>1, <3>3 DEF AddFinalizer, AddFinalizerStep, UpdateStatus, UpdateStatusStep, Finish,
          Goto, CommonTypeOK
      <4>2. \/ api' = api
            \/ api'[m] = [api[m] EXCEPT !.finalizer = TRUE]
            \/ api'[m] = [api[m] EXCEPT !.ready = mg[m].ready, !.id = mg[m].id]
        BY <1>1, <3>3 DEF AddFinalizer, AddFinalizerStep, UpdateStatus, UpdateStatusStep, Store,
          kubeVars, CommonTypeOK
      <4> QED
        BY <1>1, <4>1, <4>2 DEF Carries, Managed
    <3>4. CASE Begin(m) \/ Connect(m) \/ ObserveFinds(m) \/ ObserveMisses(m) \/ ObserveFails(m)
      BY <1>1, <3>4 DEF Begin, BeginStep, Connect, ObserveFinds, ObserveMisses, ObserveFails,
        HandlerFails, AfterObserve, WaitForCreation, Finish, Goto, kubeVars, Carries, CommonTypeOK
    <3>5. CASE Revoke(m) \/ Publish(m)
      BY <1>1, <3>5 DEF Revoke, Publish, Goto, kubeVars, Carries, CommonTypeOK, Inv,
        RevocationTargets
    <3> QED
      BY <1>3, <3>1, <3>2, <3>3, <3>4, <3>5 DEF Worker
  <2> QED
    BY <1>1, <2>1, <2>2, <2>4, <2>5, OwnStay DEF Carries
<1> QED
  BY <1>2, <1>3

\* Nobody else adds contents, or takes a record from a resource that has some.
LEMMA OthersOwn ==
  ASSUME Inv, ContentsInOrder, ContentsAreOwn,
         \/ \E m \in Resources : CacheSync(m) \/ UserCreates(m) \/ UserEdits(m) \/ UserDeletes(m)
         \/ AdminActs \/ Arrive \/ Crash
  PROVE  ContentsAreOwn'
<1>1. TypeOK /\ CommonTypeOK /\ IdentifiersKeepNames /\ ReconcileInv
  BY DEF Inv, TypeOK
<1>2. ASSUME NEW m \in Resources, UserCreates(m) \/ UserEdits(m) \/ UserDeletes(m)
      PROVE  ContentsAreOwn'
  <2>0. api[m] \in Managed /\ Blank \in Managed
    BY <1>1, BlankType DEF CommonTypeOK
  <2>1. /\ UNCHANGED <<central, details, pc>> /\ secret'[m] \in {secret[m], 0}
        /\ \A k \in Resources \ {m} : secret'[k] = secret[k] /\ api'[k] = api[k]
    BY <1>1, <1>2 DEF UserCreates, UserCreatesStep, UserEdits, UserEditsStep, UserDeletes,
      UserDeletesStep, UserStores, Store, OwnedSecret, centralVars, bundleVars, TypeOK, CommonTypeOK
  <2>2. \A k \in Resources : Contents(k)' \subseteq Contents(k) /\ (Carries(k)' <=> Carries(k))
    BY <2>1 DEF Contents, Carries
  <2>3. api'[m].create = api[m].create \/ (Contents(m) = {} /\ ~Carries(m))
    <3>1. CASE UserEdits(m)
      <4>1. PICK s \in Specs, p \in {"Delete", "Orphan"} :
              api' = [api EXCEPT ![m] = [api[m] EXCEPT !.spec = s, !.policy = p]]
        BY <3>1 DEF UserEdits, UserEditsStep, UserStores, Store
      <4>2. api'[m] = [api[m] EXCEPT !.spec = s, !.policy = p]
        BY <1>1, <4>1 DEF CommonTypeOK
      <4> QED
        BY <2>0, <4>2 DEF Managed
    <3>2. CASE UserCreates(m) \/ UserDeletes(m)
      <4>1. \/ ~api[m].exists \/ ~api[m].finalizer
            \/ api' = [api EXCEPT ![m] = [api[m] EXCEPT !.deleting = TRUE]]
        BY <3>2 DEF UserCreates, UserCreatesStep, UserDeletes, UserDeletesStep, UserStores, Store
      <4>2. ~api[m].exists \/ ~api[m].finalizer => api[m].create = "never"
        BY <1>1 DEF ReconcileInv, CreatedAreHeld
      <4>3. api[m].create = "never" => Contents(m) = {} /\ ~Carries(m)
        BY DEF ContentsAreOwn
      <4> QED
        BY <1>1, <2>0, <4>1, <4>2, <4>3 DEF CommonTypeOK, Managed
    <3> QED
      BY <1>2, <3>1, <3>2
  <2>4. \A k \in Resources :
          \/ api'[k].create = api[k].create /\ (Carries(k)' => Carries(k))
          \/ api'[k].create # "never"
          \/ Contents(k)' = {} /\ ~Carries(k)'
    BY <2>1, <2>2, <2>3
  <2>5. \A d \in central' :
          \/ d.id \in Nat /\ d.id >= nextId
          \/ \E c \in central : c.id = d.id /\ c.by = d.by /\ c.spec.name = d.spec.name
    BY <2>1
  <2> QED
    BY <1>1, <2>2, <2>4, <2>5, OwnStay
<1>3. CASE (\E m \in Resources : CacheSync(m)) \/ AdminActs \/ Arrive \/ Crash
  <2>1. /\ UNCHANGED <<api, secret>> /\ (pc' = pc \/ \A k \in Resources : pc'[k] = "idle")
        /\ \A k \in Resources : details'[k] \in {details[k], 0}
    BY <1>1, <1>3 DEF CacheSync, CacheSyncStep, AdminActs, AdminStep, Arrive, ArriveStep, Crash,
      CrashStep, kubeVars, workerVars, bundleVars, TypeOK
  <2>2. \A k \in Resources : Contents(k)' \subseteq Contents(k) /\ (Carries(k)' => Carries(k))
    BY <2>1 DEF Contents, Carries
  <2>3. AdminStep \/ ArriveStep \/ UNCHANGED central
    BY <1>3 DEF CacheSync, CacheSyncStep, AdminActs, Arrive, Crash, CrashStep, centralVars
  <2>4. \A d \in central' :
          \/ d.id \in Nat /\ d.id >= nextId
          \/ \E c \in central : c.id = d.id /\ c.by = d.by /\ c.spec.name = d.spec.name
    BY <1>1, <2>3, MakersStay
  <2> QED
    BY <1>1, <2>1, <2>2, <2>4, OwnStay
<1> QED
  BY <1>2, <1>3

\* Contents are own in every reachable state.
LEMMA Own == Spec => []ContentsAreOwn
<1>1. Init => ContentsAreOwn
  <2> SUFFICES ASSUME Init
               PROVE  ContentsAreOwn
    OBVIOUS
  <2>1. \A m \in Resources : details[m] = 0 /\ secret[m] = 0 /\ pc[m] = "idle"
    BY DEF Init, CommonInit
  <2>2. \A m \in Resources : Contents(m) = {} /\ ~Carries(m)
    BY <2>1 DEF Contents, Carries
  <2> QED
    BY <2>2 DEF ContentsAreOwn
<1>2. Inv /\ Inv' /\ ContentsInOrder /\ ContentsAreOwn /\ [Next]_vars => ContentsAreOwn'
  <2> SUFFICES ASSUME Inv, Inv', ContentsInOrder, ContentsAreOwn, [Next]_vars
               PROVE  ContentsAreOwn'
    OBVIOUS
  <2>1. CASE Next
    BY <2>1, WorkerOwns, OthersOwn DEF Next
  <2>2. CASE UNCHANGED vars
    BY <2>2 DEF vars, commonVars, kubeVars, workerVars, centralVars, bundleVars, ContentsAreOwn,
      Contents, Carries
  <2> QED
    BY <2>1, <2>2
<1> QED
  BY <1>1, <1>2, Invariance, Order, PTL DEF Spec

\* A secret has contents only as long as its object is there, and only those of
\* a bundle generated for it: also where others have bundles of the same name,
\* objects are renamed to them and calls are repeated, lost or late.
THEOREM SecretsAreOwned == Spec => []SecretIsOwned
<1>1. Inv /\ ContentsAreOwn => SecretIsOwned
  BY DEF Inv, TypeOK, ReconcileInv, CreatedAreHeld, ContentsAreOwn, Contents, SecretIsOwned
<1> QED
  BY <1>1, Invariance, Own, PTL

\* No two objects ever have the contents of one bundle in their secrets, be
\* they called alike, and also when the bundle is gone.
THEOREM SecretsDiffer ==
  Spec => [](\A m \in Resources : \A k \in Resources \ {m} : secret[m] # 0 => secret[k] # secret[m])
<1>1. ContentsAreOwn =>
        \A m \in Resources : \A k \in Resources \ {m} : secret[m] # 0 => secret[k] # secret[m]
  BY DEF ContentsAreOwn, Contents
<1> QED
  BY <1>1, Own, PTL

-----------------------------------------------------------------------------
(***************************************************************************)
(* What was made, and whether its contents were published.                 *)
(***************************************************************************)

\* Where nothing is late, a worker that acts on an absence is right about it.
LEMMA WorkerMissed ==
  ASSUME Inv, MissedIsMissing, NEW m \in Resources, Worker(m)
  PROVE  MissedIsMissing'
<1>1. CommonTypeOK /\ TypeOK /\ ReconcileInv
  BY DEF Inv, TypeOK
<1>2. CASE \/ Begin(m) \/ AddFinalizer(m) \/ MarkPending(m) \/ MarkOutcome(m)
           \/ RemoveFinalizer(m) \/ UpdateStatus(m)
  BY <1>1, <1>2, SharedStepMissed
  DEF Begin, AddFinalizer, MarkPending, MarkOutcome, RemoveFinalizer, UpdateStatus
<1>3. CASE Create(m) \/ Revoke(m)
  <2>1. \A k \in Resources \ {m} : NothingNewFor(k)
    <3>1. CASE Create(m)
      <4> DEFINE r == BundleRequest(m, "post", 0)
      <4>1. r \in Request /\ r.op = "post" /\ r.by = m
        BY <1>1, BundleRequestType DEF BundleRequest
      <4>2. CallSucceeds(r) \/ CallFails(r)
        BY <3>1, SilentCall DEF Create
      <4> HIDE DEF r
      <4> QED
        BY <1>1, <4>1, <4>2, CallMakesFor
    <3>2. CASE Revoke(m)
      <4> DEFINE r == BundleRequest(m, "delete", mg[m].id)
      <4>1. mg[m].id \in Nat
        BY <1>1 DEF CommonTypeOK, Managed
      <4>2. r \in Request /\ r.op = "delete"
        BY <1>1, <4>1, BundleRequestType DEF BundleRequest
      <4>3. CallSucceeds(r) \/ CallFails(r)
        BY <3>2 DEF Revoke
      <4> HIDE DEF r
      <4> QED
        BY <1>1, <4>2, <4>3, CallMakesFor
    <3> QED
      BY <1>3, <3>1, <3>2
  <2>2. /\ \A k \in Resources \ {m} : mg'[k] = mg[k] /\ pc'[k] = pc[k] /\ goal'[k] = goal[k]
        /\ ~Missed(m)'
    BY <1>1, <1>3 DEF Create, Revoke, SetReady, Goto, Missed, CommonTypeOK
  <2> QED
    BY <2>1, <2>2, MissedKeeps
<1>4. CASE ObserveMisses(m)
  <2>1. \A c \in central : c.spec.name # mg[m].spec.name
    BY <1>4 DEF ObserveMisses, getInitBundle, Named
  <2>2. /\ \A k \in Resources \ {m} : mg'[k] = mg[k] /\ pc'[k] = pc[k] /\ goal'[k] = goal[k]
        /\ Missed(m)' => mg' = mg
    BY <1>1, <1>4
    DEF ObserveMisses, AfterObserve, WaitForCreation, Finish, Goto, Missed, CommonTypeOK
  <2>3. UNCHANGED central
    BY <1>4 DEF ObserveMisses, centralVars
  <2> QED
    BY <2>1, <2>2, <2>3, UnchangedMakesNothing, MissedKeeps
<1>5. CASE Connect(m) \/ ObserveFinds(m) \/ ObserveFails(m) \/ Publish(m)
  <2>1. UNCHANGED central
    BY <1>5 DEF Connect, ObserveFinds, ObserveFails, Publish, HandlerFails, centralVars
  <2>2. /\ \A k \in Resources \ {m} : mg'[k] = mg[k] /\ pc'[k] = pc[k] /\ goal'[k] = goal[k]
        /\ ~Missed(m)'
    BY <1>1, <1>5 DEF Connect, ObserveFinds, ObserveFails, Publish, SetReady,
      HandlerFails, AfterObserve, Goto, Missed, CommonTypeOK
  <2> QED
    BY <2>1, <2>2, UnchangedMakesNothing, MissedKeeps
<1> QED
  BY <1>2, <1>3, <1>4, <1>5 DEF Worker

\* Other users make nothing for a resource, and what they do moves no worker.
LEMMA OthersMissed ==
  ASSUME Inv, LateIfAllowed, ~(AllowDelays /\ AllowFaults), MissedIsMissing,
         \/ \E m \in Resources : CacheSync(m) \/ UserCreates(m) \/ UserEdits(m) \/ UserDeletes(m)
         \/ AdminActs \/ Arrive \/ Crash
  PROVE  MissedIsMissing'
<1>1. CASE \E m \in Resources : CacheSync(m) \/ UserCreates(m) \/ UserEdits(m) \/ UserDeletes(m)
  <2>1. UNCHANGED <<pc, mg, goal, central>>
    BY <1>1 DEF CacheSync, UserCreates, UserEdits, UserDeletes, CacheSyncStep, UserCreatesStep,
      UserEditsStep, UserDeletesStep, UserStores, workerVars, centralVars
  <2> QED
    BY <2>1, UnchangedMakesNothing, MissedStays
<1>2. CASE AdminActs
  <2>1. UNCHANGED <<pc, mg, goal>>
    BY <1>2 DEF AdminActs, AdminStep, workerVars
  <2> QED
    BY <1>2, <2>1, AdminMakesFor, MissedStays DEF AdminActs, Inv, TypeOK
<1>3. CASE Arrive
  BY <1>3 DEF Arrive, ArriveStep, LateIfAllowed
<1>4. CASE Crash
  BY <1>4, CrashMissed DEF Crash
<1> QED
  BY <1>1, <1>2, <1>3, <1>4

\* So it is in every reachable state.
LEMMA Missing ==
  ASSUME ~(AllowDelays /\ AllowFaults)
  PROVE  Spec => []MissedIsMissing
<1>1. Init => MissedIsMissing
  BY DEF Init, CommonInit, MissedIsMissing, Missed
<1>2. Inv /\ LateIfAllowed /\ MissedIsMissing /\ [Next]_vars => MissedIsMissing'
  <2> SUFFICES ASSUME Inv, LateIfAllowed, MissedIsMissing, [Next]_vars
               PROVE  MissedIsMissing'
    OBVIOUS
  <2>1. CASE Next
    BY <2>1, WorkerMissed, OthersMissed DEF Next
  <2>2. CASE UNCHANGED vars
    BY <2>2, UnchangedMakesNothing, MissedStays DEF vars, commonVars, workerVars, centralVars
  <2> QED
    BY <2>1, <2>2
<1> QED
  BY <1>1, <1>2, Invariance, Lateness, PTL DEF Spec

\* As for Cluster, where no request arrives after its caller gave up: an object
\* with policy Delete is let go only when Central has no bundle left that was
\* made for it and has its name, also when the answer to Revoke was wrong.
THEOREM NothingIsLeftBehind ==
  ASSUME ~(AllowDelays /\ AllowFaults)
  PROVE  Spec => NothingLeftBehind
<1>1. ASSUME Inv, MissedIsMissing, [Next]_vars, NEW k \in Resources,
             api[k].exists, ~api'[k].exists, api[k].finalizer, api[k].policy = "Delete"
      PROVE  \A c \in central' : c.by = k => c.spec.name # api[k].spec.name
  <2>1. CommonTypeOK /\ ReconcileInv
    BY <1>1 DEF Inv, TypeOK
  <2>2. ASSUME NEW m \in Resources,
               \/ Begin(m) \/ AddFinalizer(m) \/ MarkPending(m) \/ MarkOutcome(m)
               \/ RemoveFinalizer(m) \/ UpdateStatus(m)
               \/ CacheSync(m) \/ UserCreates(m) \/ UserEdits(m) \/ UserDeletes(m)
        PROVE  \A c \in central' : c.by = k => c.spec.name # api[k].spec.name
    BY <1>1, <2>1, <2>2, OnlyMissedLeave
    DEF Begin, AddFinalizer, MarkPending, MarkOutcome, RemoveFinalizer, UpdateStatus,
        CacheSync, UserCreates, UserEdits, UserDeletes
  <2>3. ASSUME NEW m \in Resources,
               \/ Connect(m) \/ ObserveFinds(m) \/ ObserveMisses(m) \/ ObserveFails(m)
               \/ Create(m) \/ Revoke(m) \/ Publish(m)
        PROVE  UNCHANGED api
    BY <2>3 DEF Connect, ObserveFinds, ObserveMisses, ObserveFails, Create, Revoke, Publish,
      HandlerFails, kubeVars
  <2>4. AdminActs \/ Arrive \/ Crash \/ UNCHANGED vars => UNCHANGED api
    BY DEF AdminActs, AdminStep, Arrive, ArriveStep, Crash, CrashStep, vars, commonVars, kubeVars
  <2> QED
    BY <1>1, <2>2, <2>3, <2>4 DEF Next, Worker
<1>2. Inv /\ MissedIsMissing /\ [Next]_vars =>
        \A m \in Resources :
          api[m].exists /\ ~api'[m].exists /\ api[m].finalizer /\ api[m].policy = "Delete" =>
            \A c \in central' : c.by = m => c.spec.name # api[m].spec.name
  BY <1>1
<1>3. Spec => []MissedIsMissing
  BY Missing
<1> QED
  BY <1>2, <1>3, Invariance, PTL DEF Spec, NothingLeftBehind

\* A worker makes a bundle in Create only, after it has missed it.
LEMMA WorkerMakesAnew ==
  ASSUME Inv, MissedIsMissing, NEW m \in Resources, Worker(m)
  PROVE  MadeAnew
<1>1. CommonTypeOK /\ TypeOK /\ IdentifiersKeepNames
  BY DEF Inv, TypeOK
<1>2. CASE Create(m)
  <2> DEFINE r == BundleRequest(m, "post", 0)
  <2>1. r \in Request /\ r.op = "post" /\ r.by = m /\ r.spec = mg[m].spec
    BY <1>1, BundleRequestType DEF BundleRequest
  <2>2. (CallSucceeds(r) \/ CallFails(r)) /\ Missed(m)
    BY <1>2, SilentCall DEF Create, Missed
  <2> HIDE DEF r
  <2> QED
    BY <1>1, <2>1, <2>2, CallMakesAsked, MissedIsMadeAnew
<1>3. CASE Revoke(m)
  <2> DEFINE r == BundleRequest(m, "delete", mg[m].id)
  <2>1. mg[m].id \in Nat
    BY <1>1 DEF CommonTypeOK, Managed
  <2>2. r \in Request /\ r.op = "delete"
    BY <1>1, <2>1, BundleRequestType DEF BundleRequest
  <2>3. CallSucceeds(r) \/ CallFails(r)
    BY <1>3 DEF Revoke
  <2> HIDE DEF r
  <2> QED
    BY <1>1, <2>2, <2>3, CallMakesAsked, MissedIsMadeAnew
<1>4. CASE ~(Create(m) \/ Revoke(m))
  <2>1. UNCHANGED central
    BY <1>4 DEF Worker, Begin, BeginStep, Connect, ObserveFinds, ObserveMisses, ObserveFails,
      HandlerFails, AddFinalizer, AddFinalizerStep, MarkPending, MarkPendingStep, MarkOutcome,
      MarkOutcomeStep, Publish, RemoveFinalizer, RemoveFinalizerStep, UpdateStatus,
      UpdateStatusStep, centralVars
  <2> QED
    BY <1>1, <2>1, MissedIsMadeAnew
<1> QED
  BY <1>2, <1>3, <1>4

\* The same of bundles: no call makes a second one while Central has the first,
\* which nobody could tell from it in a list of names.
THEOREM NothingIsMadeTwice ==
  ASSUME ~(AllowDelays /\ AllowFaults)
  PROVE  Spec => NothingMadeTwice
<1>1. Inv /\ LateIfAllowed /\ MissedIsMissing /\ [Next]_vars => MadeAnew
  <2> SUFFICES ASSUME Inv, LateIfAllowed, MissedIsMissing, [Next]_vars
               PROVE  MadeAnew
    OBVIOUS
  <2>1. CommonTypeOK /\ IdentifiersKeepNames
    BY DEF Inv, TypeOK
  <2>2. ASSUME NEW m \in Resources, Worker(m)
        PROVE  MadeAnew
    BY <2>2, WorkerMakesAnew
  <2>3. CASE AdminActs
    BY <2>1, <2>3, AdminMakesOwn, MissedIsMadeAnew DEF AdminActs
  <2>4. CASE \/ \E m \in Resources :
                  CacheSync(m) \/ UserCreates(m) \/ UserEdits(m) \/ UserDeletes(m)
             \/ Arrive \/ Crash \/ UNCHANGED vars
    <3>1. UNCHANGED central
      BY <2>4 DEF CacheSync, UserCreates, UserEdits, UserDeletes, Arrive, Crash, vars, commonVars,
        CacheSyncStep, UserCreatesStep, UserEditsStep, UserDeletesStep, UserStores, ArriveStep,
        CrashStep, LateIfAllowed, centralVars
    <3> QED
      BY <2>1, <3>1, MissedIsMadeAnew
  <2> QED
    BY <2>2, <2>3, <2>4 DEF Next
<1>2. Inv /\ LateIfAllowed /\ MissedIsMissing /\ [Next]_vars =>
        \A d \in central' :
          d.id >= nextId /\ d.by # Admin =>
            \A c \in central : c.by = d.by => c.spec.name # d.spec.name
  BY <1>1 DEF MadeAnew
<1>3. Spec => []MissedIsMissing
  BY Missing
<1> QED
  BY <1>2, <1>3, Invariance, Lateness, PTL DEF Spec, NothingMadeTwice

\* A bundle is about to be created under the name the object has: an edit does
\* not rename it.
NameIsHeld == \A m \in Resources : pc[m] = "create" => mg[m].spec.name = api[m].spec.name

\* Of what was made for an object under its name, the object or its worker has
\* the contents, once an attempt to create is over.
ContentsAreKept ==
  \A m \in Resources, c \in central :
    api[m].exists /\ api[m].create # "never" /\ c.by = m /\ c.spec.name = api[m].spec.name
      => c.id = Published(m)

\* The contents are still kept when nothing was made for a resource, no new
\* attempt is recorded and none of its contents are dropped; and when Central has
\* nothing made for it.
LEMMA ContentsStay ==
  ASSUME ContentsAreKept,
         \A k \in Resources : api'[k].exists /\ api'[k].create # "never" =>
           \/ \A d \in central' : d.by = k => d.spec.name # api'[k].spec.name
           \/ /\ api[k].exists /\ api[k].create # "never"
              /\ api'[k].spec.name = api[k].spec.name
              /\ Published(k)' = Published(k) /\ NothingNewFor(k)
  PROVE  ContentsAreKept'
<1> SUFFICES ASSUME NEW k \in Resources, NEW d \in central',
                    api'[k].exists, api'[k].create # "never", d.by = k,
                    d.spec.name = api'[k].spec.name
             PROVE  d.id = Published(k)'
  BY DEF ContentsAreKept
<1>1. /\ api[k].exists /\ api[k].create # "never"
      /\ api'[k].spec.name = api[k].spec.name
      /\ Published(k)' = Published(k) /\ NothingNewFor(k)
  OBVIOUS
<1>2. PICK c \in central : c.id = d.id /\ c.by = k /\ c.spec.name = d.spec.name
  BY <1>1 DEF NothingNewFor
<1> QED
  BY <1>1, <1>2 DEF ContentsAreKept

\* What an attempt makes, the worker has the contents of; and there was nothing
\* of that name made for the resource before.
LEMMA CreateKeepsContents ==
  ASSUME Inv, MissedIsMissing, NameIsHeld, ContentsAreKept, ContentsInOrder, ~AllowFaults,
         NEW m \in Resources, Create(m)
  PROVE  ContentsAreKept'
<1>1. /\ TypeOK /\ CommonTypeOK /\ nextId \in Nat /\ secret[m] \in Nat /\ mg[m] \in Managed
      /\ secret[m] < nextId
  BY DEF Inv, TypeOK, CommonTypeOK, ContentsInOrder
<1>2. UNCHANGED <<api, secret>> /\ pc[m] = "create"
  BY DEF Create, kubeVars
<1>3. \A c \in central : c.by = m => c.spec.name # api[m].spec.name
  BY <1>2 DEF MissedIsMissing, Missed, NameIsHeld
<1> DEFINE r == BundleRequest(m, "post", 0)
<1>4. r \in Request /\ r.op = "post" /\ r.by = m
  BY <1>1, BundleRequestType DEF BundleRequest
<1>5. \/ (CallSucceeds(r) \/ CallSucceedsSilently(r)) /\ details' = [details EXCEPT ![m] = nextId' - 1]
      \/ CallFails(r) /\ UNCHANGED details
  BY DEF Create
<1> HIDE DEF r
<1>6. CASE (CallSucceeds(r) \/ CallSucceedsSilently(r)) /\ details' = [details EXCEPT ![m] = nextId' - 1]
  <2>1. Serve(r)
    BY <1>6 DEF CallSucceeds, CallSucceedsSilently, Fault
  <2>2. nextId' = nextId + 1
    BY <1>4, <2>1 DEF Serve, ServePost, ServePut, ServeDelete
  <2>3. /\ Published(m)' = nextId
        /\ \A k \in Resources \ {m} : Published(k)' = Published(k)
    BY <1>1, <1>2, <1>6, <2>2 DEF Published, TypeOK
  <2>4. \A k : k # m => NothingNewFor(k)
    BY <1>1, <1>4, <2>1, ServeMakesFor
  <2>5. \A d \in central' : \/ d.id = nextId
                            \/ \E c \in central : c.by = d.by /\ c.spec.name = d.spec.name
    BY <1>1, <1>4, <2>1, ServeMakesFor
  <2> SUFFICES ASSUME NEW k \in Resources, NEW d \in central',
                      api[k].exists, api[k].create # "never", d.by = k,
                      d.spec.name = api[k].spec.name
               PROVE  d.id = Published(k)'
    BY <1>2 DEF ContentsAreKept
  <2>6. CASE k = m
    BY <1>3, <2>3, <2>5, <2>6
  <2>7. CASE k # m
    <3>1. PICK c \in central : c.id = d.id /\ c.by = k /\ c.spec.name = d.spec.name
      BY <2>4, <2>7 DEF NothingNewFor
    <3> QED
      BY <2>3, <2>7, <3>1 DEF ContentsAreKept
  <2> QED
    BY <2>6, <2>7
<1>7. CASE CallFails(r) /\ UNCHANGED details
  <2>1. UNCHANGED central
    BY <1>7 DEF CallFails, Linger, Fault, centralVars
  <2> QED
    BY <1>2, <1>7, <2>1 DEF ContentsAreKept, Published
<1> QED
  BY <1>5, <1>6, <1>7

\* The worker drops no contents it has not published, when nothing fails.
LEMMA WorkerKeepsContents ==
  ASSUME Inv, MissedIsMissing, NameIsHeld, ContentsAreKept, ContentsInOrder, ~AllowFaults,
         NEW m \in Resources, Worker(m)
  PROVE  ContentsAreKept'
<1>1. /\ TypeOK /\ CommonTypeOK /\ ReconcileInv /\ api[m] \in Managed /\ mg[m] \in Managed
  BY DEF Inv, TypeOK, CommonTypeOK
<1>2. ~Fault
  BY DEF Fault
<1>3. CASE Create(m)
  BY <1>3, CreateKeepsContents
<1>4. CASE Revoke(m)
  <2> DEFINE r == BundleRequest(m, "delete", mg[m].id)
  <2>1. mg[m].id \in Nat
    BY <1>1 DEF Managed
  <2>2. r \in Request /\ r.op = "delete"
    BY <1>1, <2>1, BundleRequestType DEF BundleRequest
  <2>3. CallSucceeds(r) \/ CallFails(r)
    BY <1>4 DEF Revoke
  <2> HIDE DEF r
  <2>4. \A k : NothingNewFor(k)
    BY <1>1, <2>2, <2>3, CallMakesFor
  <2>5. UNCHANGED <<api, details, secret>>
    BY <1>4 DEF Revoke, kubeVars, bundleVars
  <2> QED
    BY <2>4, <2>5, ContentsStay DEF Published
<1>5. CASE Begin(m) \/ Connect(m) \/ ObserveFinds(m) \/ ObserveMisses(m) \/ ObserveFails(m)
  <2>1. UNCHANGED <<api, central, details, secret>>
    BY <1>5 DEF Begin, BeginStep, Connect, ObserveFinds, ObserveMisses, ObserveFails, HandlerFails,
      kubeVars, centralVars, bundleVars
  <2> QED
    BY <2>1 DEF ContentsAreKept, Published
<1>6. CASE AddFinalizer(m) \/ MarkPending(m) \/ MarkOutcome(m) \/ Publish(m) \/ RemoveFinalizer(m)
           \/ UpdateStatus(m)
  <2>1. UNCHANGED central /\ \A k : NothingNewFor(k)
    BY <1>6, UnchangedMakesNothing DEF AddFinalizer, AddFinalizerStep, MarkPending, MarkPendingStep,
      MarkOutcome, MarkOutcomeStep, Publish, RemoveFinalizer, RemoveFinalizerStep, UpdateStatus,
      UpdateStatusStep, centralVars
  <2>2. \A k \in Resources \ {m} : api'[k] = api[k] /\ Published(k)' = Published(k)
    BY <1>1, <1>6 DEF AddFinalizer, AddFinalizerStep, MarkPending, MarkPendingStep, MarkOutcome,
      MarkOutcomeStep, Publish, RemoveFinalizer, RemoveFinalizerStep, OwnedSecret, UpdateStatus,
      UpdateStatusStep, Store, kubeVars, bundleVars, Published, TypeOK, CommonTypeOK
  <2>3. api'[m].exists /\ api'[m].create # "never" =>
          \/ \A c \in central : c.by = m => c.spec.name # api'[m].spec.name
          \/ /\ api[m].exists /\ api[m].create # "never"
             /\ api'[m].spec.name = api[m].spec.name
             /\ Published(m)' = Published(m)
    <3>1. CASE AddFinalizer(m)
      <4>1. api' = api \/ api'[m] = [api[m] EXCEPT !.finalizer = TRUE]
        BY <1>1, <3>1 DEF AddFinalizer, AddFinalizerStep, Store, kubeVars, CommonTypeOK
      <4>2. Published(m)' = Published(m)
        BY <1>1, <3>1 DEF AddFinalizer, Published, TypeOK
      <4> QED
        BY <1>1, <4>1, <4>2 DEF Managed
    <3>2. CASE MarkPending(m)
      <4>1. \/ UNCHANGED <<api, details, secret>>
            \/ m \in mgCurrent /\ pc[m] = "pending" /\ api'[m] = [api[m] EXCEPT !.create = "pending"]
        BY <1>1, <3>2 DEF MarkPending, MarkPendingStep, Store, kubeVars, bundleVars, CommonTypeOK
      <4>2. CASE UNCHANGED <<api, details, secret>>
        BY <4>2 DEF Published
      <4>3. CASE m \in mgCurrent /\ pc[m] = "pending" /\ api'[m] = [api[m] EXCEPT !.create = "pending"]
        <5>1. api'[m].spec = mg[m].spec
          BY <1>1, <4>3 DEF ReconcileInv, CurrentCopies, Managed
        <5> QED
          BY <4>3, <5>1 DEF MissedIsMissing, Missed
      <4> QED
        BY <4>1, <4>2, <4>3
    <3>3. CASE MarkOutcome(m)
      <4>1. /\ api[m].exists /\ api[m].create = "pending"
            /\ details[m] # 0 => pc[m] = "succeeded"
        BY <1>1, <3>3 DEF MarkOutcome, MarkOutcomeStep, ReconcileInv, CreateIsRecoverable,
          ContentsInOrder
      <4>2. /\ api'[m] = [api[m] EXCEPT !.create = pc[m]] /\ secret' = secret
            /\ pc[m] = "succeeded" => details' = details
        BY <1>1, <1>2, <3>3 DEF MarkOutcome, MarkOutcomeStep, Store, Goto, TypeOK, CommonTypeOK
      <4>3. Published(m)' = Published(m)
        BY <1>1, <3>3, <4>1, <4>2 DEF MarkOutcome, Published, TypeOK
      <4> QED
        BY <1>1, <4>1, <4>2, <4>3 DEF Managed
    <3>4. CASE Publish(m)
      <4>1. api' = api /\ secret'[m] = Published(m) /\ details'[m] = 0
        BY <1>1, <1>2, <3>4 DEF Publish, kubeVars, TypeOK
      <4> QED
        BY <4>1 DEF Published
    <3>5. CASE RemoveFinalizer(m)
      <4>1. api' = api \/ ~api'[m].exists
        BY <1>1, <3>5 DEF RemoveFinalizer, RemoveFinalizerStep, Store, kubeVars, Blank, CommonTypeOK
      <4>2. api'[m].exists => Published(m)' = Published(m)
        BY <1>1, <3>5 DEF RemoveFinalizer, OwnedSecret, Published, TypeOK
      <4> QED
        BY <4>1, <4>2
    <3>6. CASE UpdateStatus(m)
      <4>1. api' = api \/ api'[m] = [api[m] EXCEPT !.ready = mg[m].ready, !.id = mg[m].id]
        BY <1>1, <3>6 DEF UpdateStatus, UpdateStatusStep, Store, kubeVars, CommonTypeOK
      <4>2. Published(m)' = Published(m)
        BY <3>6 DEF UpdateStatus, bundleVars, Published
      <4> QED
        BY <1>1, <4>1, <4>2 DEF Managed
    <3> QED
      BY <1>6, <3>1, <3>2, <3>3, <3>4, <3>5, <3>6
  <2> QED
    BY <2>1, <2>2, <2>3, ContentsStay
<1> QED
  BY <1>3, <1>4, <1>5, <1>6 DEF Worker

\* Neither does anything else: users name an object once, and the secret is
\* there as long as the object.
LEMMA OthersKeepContents ==
  ASSUME Inv, ContentsAreKept, LateIfAllowed, ~AllowFaults, ~AllowRename,
         \/ \E m \in Resources : CacheSync(m) \/ UserCreates(m) \/ UserEdits(m) \/ UserDeletes(m)
         \/ AdminActs \/ Arrive \/ Crash
  PROVE  ContentsAreKept'
<1>1. TypeOK /\ CommonTypeOK /\ IdentifiersKeepNames
  BY DEF Inv, TypeOK
<1>2. ASSUME NEW m \in Resources, UserCreates(m) \/ UserEdits(m) \/ UserDeletes(m)
      PROVE  ContentsAreKept'
  <2>0. api[m] \in Managed /\ Blank \in Managed
    BY <1>1, BlankType DEF CommonTypeOK
  <2>1. \A k : NothingNewFor(k)
    BY <1>2, UnchangedMakesNothing DEF UserCreates, UserCreatesStep, UserEdits, UserEditsStep,
      UserDeletes, UserDeletesStep, UserStores, centralVars
  <2>2. \A k \in Resources \ {m} : api'[k] = api[k] /\ Published(k)' = Published(k)
    BY <1>1, <1>2 DEF UserCreates, UserCreatesStep, UserEdits, UserEditsStep, UserDeletes,
      UserDeletesStep, UserStores, Store, OwnedSecret, Published, bundleVars, TypeOK, CommonTypeOK
  <2>3. api'[m].exists => Published(m)' = Published(m)
    BY <1>1, <1>2 DEF UserCreates, UserEdits, UserDeletes, OwnedSecret, Published, bundleVars, TypeOK
  <2>4. CASE UserCreates(m)
    <3>1. PICK s \in Specs, p \in {"Delete", "Orphan"} :
            api' = [api EXCEPT ![m] = [Blank EXCEPT !.exists = TRUE, !.spec = s, !.policy = p]]
      BY <2>4 DEF UserCreates, UserCreatesStep, UserStores, Store
    <3>2. api'[m].create = "never"
      BY <1>1, <2>0, <3>1 DEF Blank, CommonTypeOK
    <3> QED
      BY <2>1, <2>2, <3>2, ContentsStay
  <2>5. CASE UserEdits(m)
    <3>1. PICK s \in Specs, p \in {"Delete", "Orphan"} :
            /\ s.name = api[m].spec.name
            /\ api' = [api EXCEPT ![m] = [api[m] EXCEPT !.spec = s, !.policy = p]]
      BY <2>5 DEF UserEdits, UserEditsStep, UserStores, Store
    <3>2. api'[m].exists = api[m].exists /\ api'[m].create = api[m].create /\ api'[m].spec = s
      BY <1>1, <2>0, <3>1 DEF CommonTypeOK, Managed
    <3> QED
      BY <2>1, <2>2, <2>3, <3>1, <3>2, ContentsStay
  <2>6. CASE UserDeletes(m)
    <3>1. \/ api' = [api EXCEPT ![m] = [api[m] EXCEPT !.deleting = TRUE]]
          \/ api' = [api EXCEPT ![m] = Blank]
      BY <2>6 DEF UserDeletes, UserDeletesStep, UserStores, Store
    <3>2. ~api'[m].exists \/ (/\ api'[m].exists = api[m].exists /\ api'[m].create = api[m].create
                              /\ api'[m].spec = api[m].spec)
      BY <1>1, <2>0, <3>1 DEF CommonTypeOK, Managed, Blank
    <3> QED
      BY <2>1, <2>2, <2>3, <3>2, ContentsStay
  <2> QED
    BY <1>2, <2>4, <2>5, <2>6
<1>3. CASE \E m \in Resources : CacheSync(m)
  BY <1>3 DEF CacheSync, CacheSyncStep, centralVars, bundleVars, ContentsAreKept, Published
<1>4. CASE AdminActs
  <2>1. \A k \in Resources : NothingNewFor(k)
    BY <1>1, <1>4, AdminMakesFor DEF AdminActs
  <2>2. UNCHANGED <<api, details, secret>>
    BY <1>4 DEF AdminActs, AdminStep, kubeVars, bundleVars
  <2> QED
    BY <2>1, <2>2, ContentsStay DEF Published
<1>5. ~Arrive /\ ~Crash
  BY DEF Arrive, ArriveStep, LateIfAllowed, Crash, CrashStep, Fault
<1> QED
  BY <1>2, <1>3, <1>4, <1>5

\* The object keeps the name under which its bundle is created.
LEMMA NameKept ==
  ASSUME Inv, NameIsHeld, ~AllowRename, [Next]_vars
  PROVE  NameIsHeld'
<1>1. TypeOK /\ CommonTypeOK /\ ReconcileInv
  BY DEF Inv, TypeOK
<1>2. ASSUME NEW m \in Resources, Worker(m)
      PROVE  NameIsHeld'
  <2>1. \A k \in Resources \ {m} : api'[k] = api[k] /\ mg'[k] = mg[k] /\ pc'[k] = pc[k]
    <3>1. CASE \/ Begin(m) \/ AddFinalizer(m) \/ MarkPending(m) \/ MarkOutcome(m)
               \/ RemoveFinalizer(m) \/ UpdateStatus(m)
      BY <1>1, <3>1, SharedStepMoves DEF Begin, AddFinalizer, MarkPending, MarkOutcome,
        RemoveFinalizer, UpdateStatus, BeginStep, AddFinalizerStep, MarkPendingStep,
        MarkOutcomeStep, RemoveFinalizerStep, UpdateStatusStep, Store, kubeVars, CommonTypeOK
    <3>2. CASE \/ Connect(m) \/ ObserveFinds(m) \/ ObserveMisses(m) \/ ObserveFails(m)
               \/ Create(m) \/ Revoke(m) \/ Publish(m)
      BY <1>1, <3>2 DEF Connect, ObserveFinds, ObserveMisses, ObserveFails, Create, Revoke, Publish,
        HandlerFails, AfterObserve, WaitForCreation, Finish, SetReady, Goto, kubeVars, CommonTypeOK
    <3> QED
      BY <1>2, <3>1, <3>2 DEF Worker
  <2>2. pc'[m] = "create" => mg'[m] = api'[m]
    <3>1. CASE MarkPending(m)
      BY <1>1, <3>1 DEF MarkPending, MarkPendingStep, Goto, CommonTypeOK
    <3>2. CASE ~MarkPending(m)
      <4>1. goal[m] \in {"pending", "status", "update"}
        BY <1>1 DEF CommonTypeOK
      <4> QED
        BY <1>1, <1>2, <3>2, <4>1 DEF Worker, Begin, BeginStep, Connect, ObserveFinds, ObserveMisses,
          ObserveFails, HandlerFails, AfterObserve, WaitForCreation, AddFinalizer, AddFinalizerStep,
          Create, MarkOutcome, MarkOutcomeStep, Revoke, Publish, RemoveFinalizer,
          RemoveFinalizerStep, UpdateStatus, UpdateStatusStep, Finish, Goto, CommonTypeOK
    <3> QED
      BY <3>1, <3>2
  <2> QED
    BY <2>1, <2>2 DEF NameIsHeld
<1>3. ASSUME NEW m \in Resources, CacheSync(m) \/ UserCreates(m) \/ UserEdits(m) \/ UserDeletes(m)
      PROVE  NameIsHeld'
  <2>0. api[m] \in Managed
    BY <1>1 DEF CommonTypeOK
  <2>1. UNCHANGED <<pc, mg>> /\ \A k \in Resources \ {m} : api'[k] = api[k]
    BY <1>1, <1>3 DEF CacheSync, CacheSyncStep, UserCreates, UserCreatesStep, UserEdits,
      UserEditsStep, UserDeletes, UserDeletesStep, UserStores, Store, workerVars, CommonTypeOK
  <2>2. pc[m] = "create" => api[m].exists /\ api[m].finalizer
    BY <1>1 DEF ReconcileInv, CreateIsRecoverable
  <2>3. pc[m] = "create" => api'[m].spec.name = api[m].spec.name
    <3>1. CASE CacheSync(m)
      BY <3>1 DEF CacheSync, CacheSyncStep
    <3>2. CASE UserCreates(m)
      BY <2>2, <3>2 DEF UserCreates, UserCreatesStep
    <3>3. CASE UserEdits(m)
      <4>1. PICK s \in Specs, p \in {"Delete", "Orphan"} :
              /\ s.name = api[m].spec.name
              /\ api' = [api EXCEPT ![m] = [api[m] EXCEPT !.spec = s, !.policy = p]]
        BY <3>3 DEF UserEdits, UserEditsStep, UserStores, Store
      <4> QED
        BY <1>1, <2>0, <4>1 DEF CommonTypeOK, Managed
    <3>4. CASE UserDeletes(m)
      <4>1. pc[m] = "create" => api' = [api EXCEPT ![m] = [api[m] EXCEPT !.deleting = TRUE]]
        BY <2>2, <3>4 DEF UserDeletes, UserDeletesStep, UserStores, Store
      <4> QED
        BY <1>1, <2>0, <4>1 DEF CommonTypeOK, Managed
    <3> QED
      BY <1>3, <3>1, <3>2, <3>3, <3>4
  <2> QED
    BY <2>1, <2>3 DEF NameIsHeld
<1>4. CASE AdminActs \/ Arrive \/ UNCHANGED vars
  BY <1>4 DEF AdminActs, AdminStep, Arrive, ArriveStep, vars, commonVars, kubeVars, workerVars,
    NameIsHeld
<1>5. CASE Crash
  BY <1>5 DEF Crash, CrashStep, NameIsHeld
<1> QED
  BY <1>2, <1>3, <1>4, <1>5 DEF Next

\* Where no call, write or process is lost and objects keep their names:
\* however many resources have one name and whoever else edits, revokes and
\* creates bundles meanwhile, an object that is ready and had its bundle
\* generated itself has the contents of that bundle in its secret.
THEOREM ReadyBundlesArePublished ==
  ASSUME ~AllowFaults, ~AllowRename
  PROVE  Spec => []ReadyBundleIsPublished
<1>1. Init => NameIsHeld /\ ContentsAreKept
  BY DEF Init, CommonInit, NameIsHeld, ContentsAreKept
<1>2. /\ Inv /\ LateIfAllowed /\ MissedIsMissing /\ ContentsInOrder
      /\ NameIsHeld /\ ContentsAreKept /\ [Next]_vars
      => NameIsHeld' /\ ContentsAreKept'
  <2> SUFFICES ASSUME Inv, LateIfAllowed, MissedIsMissing, ContentsInOrder,
                      NameIsHeld, ContentsAreKept, [Next]_vars
               PROVE  NameIsHeld' /\ ContentsAreKept'
    OBVIOUS
  <2>1. NameIsHeld'
    BY NameKept
  <2>2. CASE Next
    BY <2>1, <2>2, WorkerKeepsContents, OthersKeepContents DEF Next
  <2>3. CASE UNCHANGED vars
    BY <2>1, <2>3 DEF vars, commonVars, kubeVars, centralVars, bundleVars, ContentsAreKept, Published
  <2> QED
    BY <2>2, <2>3
<1>3. ContentsInOrder /\ ContentsAreKept => ReadyBundleIsPublished
  BY DEF ContentsInOrder, ContentsAreKept, ReadyBundleIsPublished, Published
<1>4. Spec => []MissedIsMissing
  BY Missing
<1> QED
  BY <1>1, <1>2, <1>3, <1>4, Invariance, Lateness, Order, PTL DEF Spec

=============================================================================
