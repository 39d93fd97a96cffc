------------------------------ MODULE Cluster ------------------------------
(***************************************************************************)
(* The controller of Cluster managed resources                             *)
(* (pkg/controller/cluster/cluster.go): the handlers the managed-resource  *)
(* reconciler calls while it keeps a secured cluster in Central like the   *)
(* Cluster object of Kubernetes.                                           *)
(*                                                                         *)
(* A cluster in Central is found by its name, deleted by the identifier    *)
(* Observe stored in the status, and updated by reading it again and       *)
(* writing the whole of it back.  spec stands for what the managed         *)
(* resource specifies, extra for everything else a cluster has.            *)
(***************************************************************************)
EXTENDS ManagedReconciler

VARIABLE base   \* base[m]: the cluster Update read, before it writes it back

vars == <<commonVars, base>>

NoCluster == [id |-> 0, spec |-> CHOOSE s \in Specs : TRUE, extra |-> Plain, by |-> Admin]

TypeOK == CommonTypeOK /\ base \in [Resources -> External]

Init == CommonInit /\ base = [m \in Resources |-> NoCluster]

-----------------------------------------------------------------------------
(***************************************************************************)
(* Helpers of the handlers.                                                *)
(***************************************************************************)

\* Faulty: the cluster Update read is not passed on.
generateCluster_NilBase(m, op, from) ==
  [op |-> op, id |-> from.id, spec |-> mg[m].spec, extra |-> Plain, by |-> m]

\* What is sent for m: its own values on top of the cluster from, if any.
generateCluster(m, op, from) ==
  [op |-> op, id |-> from.id, spec |-> mg[m].spec, extra |-> from.extra, by |-> m]

\* Faulty: drift is not noticed.
isUpToDate_Always(m, c) == TRUE

isUpToDate(m, c) == c.spec = mg[m].spec

\* Faulty: the cluster is looked up by the identifier in the status, if any.
getCluster_ById(m) ==
  IF mg[m].id = 0 THEN Named(mg[m].spec.name) ELSE {c \in central : c.id = mg[m].id}

\* The first cluster of that name, in whatever order Central lists them.
getCluster(m) == Named(mg[m].spec.name)

\* Every handler that talks to Central ends with the error of its call.
HandlerFails(m) ==
  /\ Fault
  /\ Goto(m, "status")
  /\ UNCHANGED <<kubeVars, mg, mgCurrent, goal, centralVars, base>>

-----------------------------------------------------------------------------
(***************************************************************************)
(* The handlers.                                                           *)
(***************************************************************************)

\* Usage, ProviderConfig, credentials and the dialled connection: a client
\* or an error.
Connect(m) ==
  /\ pc[m] = "connect"
  /\ \/ /\ Goto(m, "observe")
        /\ UNCHANGED <<kubeVars, mg, mgCurrent, goal, centralVars, budget, base>>
     \/ HandlerFails(m)

ObserveFinds(m) ==
  /\ pc[m] = "observe"
  /\ \E c \in getCluster(m) :
       /\ mg' = [mg EXCEPT ![m].ready = "Available", ![m].id = c.id]
       /\ AfterObserve(m, TRUE, isUpToDate(m, c))
  /\ UNCHANGED <<kubeVars, mgCurrent, centralVars, budget, base>>

ObserveMisses(m) ==
  /\ pc[m] = "observe"
  /\ getCluster(m) = {}
  /\ \/ AfterObserve(m, FALSE, FALSE) /\ UNCHANGED <<mg, mgCurrent, budget>>
     \/ WaitForCreation(m)
  /\ UNCHANGED <<kubeVars, centralVars, base>>

\* Faulty: an error is taken for an absent cluster.
ObserveFails_Absent(m) ==
  /\ pc[m] = "observe"
  /\ Fault
  /\ AfterObserve(m, FALSE, FALSE)
  /\ UNCHANGED <<kubeVars, mg, mgCurrent, centralVars, base>>

ObserveFails(m) == pc[m] = "observe" /\ HandlerFails(m)

\* The identifier Central answers with is kept in the status in memory.
Create(m) ==
  LET r == generateCluster(m, "post", NoCluster)
  IN /\ pc[m] = "create"
     /\ \/ /\ CallSucceeds(r)
           /\ mg' = [mg EXCEPT ![m].ready = "Creating", ![m].id = nextId' - 1]
           /\ Goto(m, "succeeded")
        \/ /\ CallSucceedsSilently(r)
           /\ SetReady(m, "Creating")
           /\ Goto(m, "succeeded")
        \/ /\ CallFails(r)
           /\ SetReady(m, "Creating")
           /\ Goto(m, "failed")
     /\ UNCHANGED <<kubeVars, mgCurrent, goal, base>>

\* Faulty: a cluster that has gone is created again.
UpdateGet_Upserts(m) ==
  /\ pc[m] = "update"
  /\ \/ \E c \in getCluster(m) : base' = [base EXCEPT ![m] = c] /\ Goto(m, "put")
     \/ getCluster(m) = {} /\ Goto(m, "create") /\ UNCHANGED base
  /\ UNCHANGED <<kubeVars, mg, mgCurrent, goal, centralVars, budget>>

\* The cluster is looked up once more.  When it has gone meanwhile nothing is
\* done, and no error is returned.
UpdateGet(m) ==
  /\ pc[m] = "update"
  /\ \/ \E c \in getCluster(m) : base' = [base EXCEPT ![m] = c] /\ Goto(m, "put")
     \/ getCluster(m) = {} /\ Goto(m, "publish") /\ UNCHANGED base
  /\ UNCHANGED <<kubeVars, mg, mgCurrent, goal, centralVars, budget>>

UpdateGetFails(m) == pc[m] = "update" /\ HandlerFails(m)

\* The cluster that was read is written back with the values of m.
UpdatePut(m) ==
  LET r == generateCluster(m, "put", base[m])
  IN /\ pc[m] = "put"
     /\ \/ /\ CallSucceeds(r)
           /\ mg' = [mg EXCEPT ![m].id = r.id]
           /\ Goto(m, "publish")
        \/ /\ CallSucceedsSilently(r)
           /\ Goto(m, "publish")
           /\ UNCHANGED mg
        \/ /\ CallFails(r)
           /\ Goto(m, "status")
           /\ UNCHANGED mg
     /\ base' = [base EXCEPT ![m] = NoCluster]
     /\ UNCHANGED <<kubeVars, mgCurrent, goal>>

\* Faulty: the external name is sent where Central expects an identifier.
Delete_ByName(m) ==
  LET r == generateCluster(m, "delete", NoCluster)
  IN /\ pc[m] = "delete"
     /\ CallSucceeds(r) \/ CallFails(r)
     /\ SetReady(m, "Deleting")
     /\ Goto(m, "status")
     /\ UNCHANGED <<kubeVars, mgCurrent, goal, base>>

\* Faulty: once the request was sent the cluster is taken to be gone.
Delete_Unconfirmed(m) ==
  LET r == [generateCluster(m, "delete", NoCluster) EXCEPT !.id = mg[m].id]
  IN /\ pc[m] = "delete"
     /\ CallSucceeds(r) \/ CallFails(r)
     /\ SetReady(m, "Deleting")
     /\ Goto(m, "release")
     /\ UNCHANGED <<kubeVars, mgCurrent, goal, base>>

Delete(m) ==
  LET r == [generateCluster(m, "delete", NoCluster) EXCEPT !.id = mg[m].id]
  IN /\ pc[m] = "delete"
     /\ CallSucceeds(r) \/ CallFails(r)
     /\ SetReady(m, "Deleting")
     /\ Goto(m, "status")
     /\ UNCHANGED <<kubeVars, mgCurrent, goal, base>>

\* Create and Update return no connection details: nothing is published.
Publish(m) ==
  /\ pc[m] = "publish"
  /\ Goto(m, "status")
  /\ UNCHANGED <<kubeVars, mg, mgCurrent, goal, centralVars, budget, base>>

-----------------------------------------------------------------------------
Begin(m) == BeginStep(m) /\ UNCHANGED base
AddFinalizer(m) == AddFinalizerStep(m) /\ UNCHANGED base
MarkPending(m) == MarkPendingStep(m) /\ UNCHANGED base
MarkOutcome(m) == MarkOutcomeStep(m) /\ UNCHANGED base
RemoveFinalizer(m) == RemoveFinalizerStep(m) /\ UNCHANGED base
UpdateStatus(m) == UpdateStatusStep(m) /\ UNCHANGED base

Worker(m) ==
  \/ Begin(m)
  \/ Connect(m)
  \/ ObserveFinds(m)
  \/ ObserveMisses(m)
  \/ ObserveFails(m)
  \/ AddFinalizer(m)
  \/ MarkPending(m)
  \/ Create(m)
  \/ MarkOutcome(m)
  \/ UpdateGet(m)
  \/ UpdateGetFails(m)
  \/ UpdatePut(m)
  \/ Delete(m)
  \/ Publish(m)
  \/ RemoveFinalizer(m)
  \/ UpdateStatus(m)

CacheSync(m) == CacheSyncStep(m) /\ UNCHANGED base
UserCreates(m) == UserCreatesStep(m) /\ UNCHANGED base
UserEdits(m) == UserEditsStep(m) /\ UNCHANGED base
UserDeletes(m) == UserDeletesStep(m) /\ UNCHANGED base
AdminActs == AdminStep /\ UNCHANGED base
Arrive == ArriveStep /\ UNCHANGED base
Crash == CrashStep /\ base' = [m \in Resources |-> NoCluster]

Next ==
  \/ \E m \in Resources : Worker(m)
  \/ \E m \in Resources : CacheSync(m)
  \/ \E m \in Resources : UserCreates(m)
  \/ \E m \in Resources : UserEdits(m)
  \/ \E m \in Resources : UserDeletes(m)
  \/ AdminActs
  \/ Arrive
  \/ Crash

Spec == Init /\ [][Next]_vars

\* Nothing a user or a fault does is owed; the provider keeps reconciling
\* (poll interval, requeues and watches) and the informer keeps up.
Fairness == \A m \in Resources : WF_vars(Worker(m)) /\ WF_vars(CacheSync(m))

FairSpec == Spec /\ Fairness

-----------------------------------------------------------------------------
(***************************************************************************)
(* Safety.                                                                 *)
(***************************************************************************)

\* DeleteCluster names a cluster by the identifier in the status.  Whatever
\* was renamed, replaced or restored since it was stored, the identifier is
\* never that of a cluster of another name, nor sent unless the object was
\* seen to be deleted with policy Delete.
DeleteTargetIsOurs ==
  \A m \in Resources :
    pc[m] = "delete" =>
      /\ mg[m].deleting /\ mg[m].policy = "Delete"
      /\ \A c \in central : c.id = mg[m].id => c.spec.name = mg[m].spec.name

HandlerTargets ==
  \A m \in Resources :
    /\ pc[m] = "put" => Denotes(base[m].id, mg[m].spec.name)
    /\ pc[m] = "delete" => /\ Denotes(mg[m].id, mg[m].spec.name)
                           /\ mg[m].deleting /\ mg[m].policy = "Delete"

\* The invariant it follows from: what the worker holds is what it was told,
\* and identifiers are never reused for another name, neither by the put that
\* Update prepares nor by one that is late.
Inv ==
  /\ TypeOK
  /\ ReconcileInv
  /\ IdentifiersKeepNames
  /\ HandlerTargets

\* PutCluster gives the fields no managed resource specifies a value they
\* have or had when Update read the cluster, never one of its own.
UnmanagedFieldsKept ==
  [][\A m \in Resources : UpdatePut(m) =>
       \A c \in central, d \in central' :
         c.id = d.id => d.extra = c.extra \/ (d.id = base[m].id /\ d.extra = base[m].extra)]_vars

\* When an object with policy Delete and a finalizer goes away, no cluster
\* made for it is left.  (Not so when it was renamed, or orphaned and created
\* again, nor for a late request: NothingLeftBehind is what remains.)
NoOrphanOnRelease ==
  [][\A m \in Resources :
       api[m].exists /\ ~api'[m].exists /\ api[m].finalizer /\ api[m].policy = "Delete" =>
         ~ \E c \in central : c.by = m]_vars

-----------------------------------------------------------------------------
(***************************************************************************)
(* Liveness.                                                               *)
(***************************************************************************)
Stuck(m) == api[m].create = "pending"

\* Once users, Central's other users and faults are quiet, every object that
\* stays has a cluster with exactly its values, and its status says so; but
\* for an object whose creation was interrupted, which waits for a person.
Converges ==
  <>[](\A m \in Resources :
         api[m].exists /\ ~api[m].deleting /\ ~Stuck(m) =>
           /\ api[m].ready = "Available"
           /\ \E c \in central : c.spec = api[m].spec /\ c.id = api[m].id)

\* A deletion is carried out, unless a creation was interrupted before it.
DeletionCompletes ==
  \A m \in Resources :
    api[m].exists /\ api[m].deleting ~> ~api[m].exists \/ Stuck(m)

=============================================================================
