------------------------- MODULE ManagedReconciler -------------------------
(***************************************************************************)
(* The surroundings both controllers of the provider run in: the           *)
(* Kubernetes objects and the informer cache they are read through, the    *)
(* managed-resource reconciler that calls the provider's handlers (an      *)
(* external library: it is modelled from the calls that the Setup          *)
(* functions in pkg/controller install and the handlers expect), the       *)
(* StackRox Central service the handlers talk to, and the people who edit  *)
(* both sides.  Cluster and InitBundle extend this module with the         *)
(* handlers of their kind.                                                 *)
(*                                                                         *)
(* One worker reconciles a given managed resource at a time; different     *)
(* resources are reconciled concurrently.                                  *)
(***************************************************************************)
EXTENDS Naturals

CONSTANTS
  Resources,          \* the managed resources (Kubernetes object names)
  Specs,              \* the values of spec.forProvider, records with a name
  Extras,             \* the values of what no managed resource specifies
  Plain,              \* the one of them a new object gets
  Admin,              \* stands for every other user of Central
  RejectsDuplicates,  \* does Central refuse a second object of one name?
  AllowRename,        \* may a user edit spec.forProvider.name?
  AllowFaults,        \* may a call fail, a reply be lost, the process crash?
  AllowDelays,        \* may a request reach Central after its caller gave up?
  MaxDisruptions,     \* bound: user edits, admin edits, faults, in all
  MaxObjects          \* bound: objects made in Central, after which it refuses

ASSUME ReconcilerAssumption ==
  /\ Specs # {}
  /\ Plain \in Extras
  /\ Admin \notin Resources
  /\ MaxDisruptions \in Nat

VARIABLES
  api,           \* api[m]: the object the API server stores for m
  cache,         \* cache[m]: the copy of it the informer holds
  cacheCurrent,  \* the resources whose cached copy is the latest version
  pc,            \* pc[m]: what the worker of m does next
  mg,            \* mg[m]: the object in the memory of that worker
  mgCurrent,     \* the resources whose mg has the latest resource version
  goal,          \* goal[m]: where the worker goes after adding the finalizer
  central,       \* the objects Central stores
  wire,          \* requests whose caller gave up and that may still arrive
  nextId,        \* the identifier Central gives to the next object
  budget         \* the disruptions that may still happen

kubeVars == <<api, cache, cacheCurrent>>
workerVars == <<pc, mg, mgCurrent, goal>>
centralVars == <<central, wire, nextId>>
commonVars == <<kubeVars, workerVars, centralVars, budget>>

-----------------------------------------------------------------------------
(***************************************************************************)
(* Data.  The managed resource keeps the fields that steer a reconcile:    *)
(* create is the newest of the external-create-* annotations, ready the    *)
(* Ready condition and id status.atProvider.id (0 when there is none).     *)
(***************************************************************************)
Managed == [exists : BOOLEAN, deleting : BOOLEAN, finalizer : BOOLEAN,
            policy : {"Delete", "Orphan"}, spec : Specs,
            create : {"never", "pending", "succeeded", "failed"},
            ready : {"Unknown", "Creating", "Available", "Deleting"},
            id : Nat]

Blank == [exists |-> FALSE, deleting |-> FALSE, finalizer |-> FALSE,
          policy |-> "Delete", spec |-> CHOOSE s \in Specs : TRUE,
          create |-> "never", ready |-> "Unknown", id |-> 0]

\* An object in Central; by is who had it made, which Central does not know.
External == [id : Nat, spec : Specs, extra : Extras, by : Resources \cup {Admin}]

Request == [op : {"post", "put", "delete"}, id : Nat, spec : Specs,
            extra : Extras, by : Resources \cup {Admin}]

Phases == {"idle", "connect", "observe", "finalizer", "pending", "create",
           "succeeded", "failed", "publish", "update", "put", "delete",
           "release", "status"}

CommonTypeOK ==
  /\ api \in [Resources -> Managed]
  /\ cache \in [Resources -> Managed]
  /\ cacheCurrent \subseteq Resources
  /\ pc \in [Resources -> Phases]
  /\ mg \in [Resources -> Managed]
  /\ mgCurrent \subseteq Resources
  /\ goal \in [Resources -> {"pending", "status", "update"}]
  /\ central \subseteq External
  /\ wire \subseteq Request
  /\ nextId \in Nat
  /\ budget \in Nat

CommonInit ==
  /\ api = [m \in Resources |-> Blank]
  /\ cache = [m \in Resources |-> Blank]
  /\ cacheCurrent = Resources
  /\ pc = [m \in Resources |-> "idle"]
  /\ mg = [m \in Resources |-> Blank]
  /\ mgCurrent = {}
  /\ goal = [m \in Resources |-> "status"]
  /\ central = {}
  /\ wire = {}
  /\ nextId = 1
  /\ budget = MaxDisruptions

-----------------------------------------------------------------------------
(***************************************************************************)
(* Helpers.                                                                *)
(***************************************************************************)
Disrupt == budget > 0 /\ budget' = budget - 1

Fault == AllowFaults /\ Disrupt

Goto(m, phase) == pc' = [pc EXCEPT ![m] = phase]

\* The reconcile of m returns; the worker is free and its memory is dropped.
Finish(m) ==
  /\ Goto(m, "idle")
  /\ mg' = [mg EXCEPT ![m] = Blank]
  /\ mgCurrent' = mgCurrent \ {m}
  /\ goal' = [goal EXCEPT ![m] = "status"]

\* The API server stores o for m; a write that changes nothing makes no new
\* version.
Store(m, o) ==
  /\ api' = [api EXCEPT ![m] = o]
  /\ cacheCurrent' = IF o = api[m] THEN cacheCurrent ELSE cacheCurrent \ {m}
  /\ cache' = cache

\* A write that carries the resource version of mg[m] fails when the version
\* is not the latest, and may fail for any other reason.
WriteFails(m) ==
  \/ m \notin mgCurrent /\ UNCHANGED budget
  \/ Fault

SetReady(m, condition) == mg' = [mg EXCEPT ![m].ready = condition]

-----------------------------------------------------------------------------
(***************************************************************************)
(* Central.  A request is served at once, or refused.                      *)
(***************************************************************************)
Named(name) == {c \in central : c.spec.name = name}

Servable(r) ==
  \/ /\ r.op = "post"
     /\ nextId <= MaxObjects
     /\ RejectsDuplicates => Named(r.spec.name) = {}
  \/ r.op \in {"put", "delete"} /\ \E c \in central : c.id = r.id

ServePost(r) ==
  /\ r.op = "post"
  /\ central' = central \cup {[id |-> nextId, spec |-> r.spec, extra |-> r.extra, by |-> r.by]}
  /\ nextId' = nextId + 1

ServePut(r) ==
  /\ r.op = "put"
  /\ central' = {IF c.id = r.id THEN [c EXCEPT !.spec = r.spec, !.extra = r.extra]
                              ELSE c : c \in central}
  /\ UNCHANGED nextId

ServeDelete(r) ==
  /\ r.op = "delete"
  /\ central' = {c \in central : c.id # r.id}
  /\ UNCHANGED nextId

Serve(r) == Servable(r) /\ (ServePost(r) \/ ServePut(r) \/ ServeDelete(r))

\* How often the client sends the request of one call that gets no reply.
MaxAttempts == 3

\* The replies to some attempts of a call are lost and Central serves more
\* than one.  (Of a put or a delete, the second changes nothing.)
ServeRepeatedly(r) ==
  /\ r.op = "post" /\ ~RejectsDuplicates
  /\ \E last \in nextId + 1 .. nextId + MaxAttempts - 1 :
       /\ last <= MaxObjects
       /\ central' = central \cup {[id |-> i, spec |-> r.spec, extra |-> r.extra, by |-> r.by] :
                                     i \in nextId .. last}
       /\ nextId' = last + 1

\* The request is still under way when its caller stops waiting for it.
\* Bound: one such request at a time.
Linger(r) == AllowDelays /\ wire = {} /\ Fault /\ wire' = {r}

\* The caller gets the reply to the last attempt.  An earlier one may have
\* been served as well, or linger.
CallSucceeds(r) ==
  \/ Serve(r) /\ (Linger(r) \/ UNCHANGED <<wire, budget>>)
  \/ Fault /\ ServeRepeatedly(r) /\ UNCHANGED wire

\* The caller gets a reply without the object that was made or written.
CallSucceedsSilently(r) == Serve(r) /\ Fault /\ UNCHANGED wire

\* The caller gets an error: Central refused, the request was lost, the
\* reply was lost, or the request is late.
CallFails(r) ==
  \/ ~Servable(r) /\ UNCHANGED <<centralVars, budget>>
  \/ Fault /\ UNCHANGED centralVars
  \/ Fault /\ (Serve(r) \/ ServeRepeatedly(r)) /\ UNCHANGED wire
  \/ Linger(r) /\ UNCHANGED <<central, nextId>>

-----------------------------------------------------------------------------
(***************************************************************************)
(* The reconciler around the handlers.                                     *)
(***************************************************************************)

\* Faulty: a creation whose outcome was never recorded is attempted again.
BeginStep_IgnoresPending(m) ==
  /\ pc[m] = "idle"
  /\ cache[m].exists
  /\ mgCurrent' = IF m \in cacheCurrent THEN mgCurrent \cup {m} ELSE mgCurrent \ {m}
  /\ mg' = [mg EXCEPT ![m] = cache[m]]
  /\ Goto(m, IF cache[m].deleting /\ cache[m].policy = "Orphan" THEN "release" ELSE "connect")
  /\ UNCHANGED <<goal, kubeVars, centralVars, budget>>

\* Read the resource (from the cache) and decide whether Central is needed:
\* an orphaned deletion is released at once, and a creation whose outcome
\* was never recorded stops the reconcile.
BeginStep(m) ==
  /\ pc[m] = "idle"
  /\ cache[m].exists
  /\ mgCurrent' = IF m \in cacheCurrent THEN mgCurrent \cup {m} ELSE mgCurrent \ {m}
  /\ \/ /\ cache[m].deleting /\ cache[m].policy = "Orphan"
        /\ mg' = [mg EXCEPT ![m] = cache[m]]
        /\ Goto(m, "release")
     \/ /\ ~(cache[m].deleting /\ cache[m].policy = "Orphan")
        /\ cache[m].create = "pending"
        /\ mg' = [mg EXCEPT ![m] = [cache[m] EXCEPT !.ready = "Creating"]]
        /\ Goto(m, "status")
     \/ /\ ~(cache[m].deleting /\ cache[m].policy = "Orphan")
        /\ cache[m].create # "pending"
        /\ mg' = [mg EXCEPT ![m] = cache[m]]
        /\ Goto(m, "connect")
  /\ UNCHANGED <<goal, kubeVars, centralVars, budget>>

\* Faulty: a creation is attempted without recording it first.
AfterObserve_NoPending(m, exists, upToDate) ==
  /\ Goto(m, IF ~mg[m].deleting THEN "finalizer" ELSE IF exists THEN "delete" ELSE "release")
  /\ goal' = [goal EXCEPT ![m] = IF mg[m].deleting THEN "status"
                                 ELSE IF ~exists THEN "create"
                                 ELSE IF upToDate THEN "status" ELSE "update"]

\* Faulty: what was created once is not created again.
AfterObserve_CreatesOnce(m, exists, upToDate) ==
  IF mg[m].deleting
  THEN Goto(m, IF exists THEN "delete" ELSE "release") /\ UNCHANGED goal
  ELSE /\ Goto(m, "finalizer")
       /\ goal' = [goal EXCEPT ![m] =
                     IF ~exists /\ mg[m].create # "succeeded" THEN "pending"
                     ELSE IF ~exists \/ upToDate THEN "status" ELSE "update"]

\* What the reconciler does with the answer of Observe.
AfterObserve(m, exists, upToDate) ==
  IF mg[m].deleting
  THEN Goto(m, IF exists THEN "delete" ELSE "release") /\ UNCHANGED goal
  ELSE /\ Goto(m, "finalizer")
       /\ goal' = [goal EXCEPT ![m] = IF ~exists THEN "pending"
                                      ELSE IF upToDate THEN "status" ELSE "update"]

\* A resource created within the grace period and not seen yet is looked at
\* again later.  Each wait counts as a disruption: the period is finite.
WaitForCreation(m) ==
  /\ mg[m].create = "succeeded"
  /\ Disrupt
  /\ Finish(m)

\* Publish what Observe returned (nothing), then add the finalizer.  The
\* reply to a write replaces the object in memory, its status included.
AddFinalizerStep(m) ==
  /\ pc[m] = "finalizer"
  /\ \/ /\ mg[m].finalizer
        /\ Goto(m, goal[m])
        /\ UNCHANGED <<kubeVars, mg, budget>>
     \/ /\ ~mg[m].finalizer
        /\ m \in mgCurrent
        /\ Store(m, [api[m] EXCEPT !.finalizer = TRUE])
        /\ mg' = [mg EXCEPT ![m] = api'[m]]
        /\ Goto(m, goal[m])
        /\ UNCHANGED budget
     \/ /\ (~mg[m].finalizer /\ m \notin mgCurrent /\ UNCHANGED budget) \/ Fault
        /\ Goto(m, "status")
        /\ UNCHANGED <<kubeVars, mg>>
  /\ goal' = [goal EXCEPT ![m] = "status"]
  /\ UNCHANGED <<mgCurrent, centralVars>>

\* Record that a creation is about to be attempted, on the latest version.
MarkPendingStep(m) ==
  /\ pc[m] = "pending"
  /\ \/ /\ m \in mgCurrent
        /\ Store(m, [api[m] EXCEPT !.create = "pending"])
        /\ mg' = [mg EXCEPT ![m] = api'[m]]
        /\ Goto(m, "create")
        /\ UNCHANGED budget
     \/ /\ WriteFails(m)
        /\ SetReady(m, "Creating")
        /\ Goto(m, "status")
        /\ UNCHANGED kubeVars
  /\ UNCHANGED <<mgCurrent, goal, centralVars>>

\* Record the outcome of the creation, whatever version the object has.
MarkOutcomeStep(m) ==
  /\ pc[m] \in {"succeeded", "failed"}
  /\ \/ /\ Store(m, [api[m] EXCEPT !.create = pc[m]])
        /\ mg' = [mg EXCEPT ![m] = [api'[m] EXCEPT !.ready = "Creating"]]
        /\ mgCurrent' = mgCurrent \cup {m}
        /\ Goto(m, IF pc[m] = "succeeded" THEN "publish" ELSE "status")
        /\ UNCHANGED budget
     \/ /\ Fault
        /\ SetReady(m, "Creating")
        /\ Goto(m, "status")
        /\ UNCHANGED <<kubeVars, mgCurrent>>
  /\ UNCHANGED <<goal, centralVars>>

\* Nothing is left to delete: give up the finalizer, and the object is gone.
RemoveFinalizerStep(m) ==
  /\ pc[m] = "release"
  /\ \/ /\ m \in mgCurrent
        /\ Store(m, Blank)
        /\ Finish(m)
        /\ UNCHANGED budget
     \/ /\ WriteFails(m)
        /\ SetReady(m, "Deleting")
        /\ Goto(m, "status")
        /\ UNCHANGED <<kubeVars, mgCurrent, goal>>
  /\ UNCHANGED centralVars

\* Every other reconcile ends by writing the status it has in memory.
UpdateStatusStep(m) ==
  /\ pc[m] = "status"
  /\ \/ /\ m \in mgCurrent
        /\ Store(m, [api[m] EXCEPT !.ready = mg[m].ready, !.id = mg[m].id])
        /\ UNCHANGED budget
     \/ /\ WriteFails(m)
        /\ UNCHANGED kubeVars
  /\ Finish(m)
  /\ UNCHANGED centralVars

-----------------------------------------------------------------------------
(***************************************************************************)
(* Everyone else.                                                          *)
(***************************************************************************)
CacheSyncStep(m) ==
  /\ m \notin cacheCurrent
  /\ cache' = [cache EXCEPT ![m] = api[m]]
  /\ cacheCurrent' = cacheCurrent \cup {m}
  /\ UNCHANGED <<api, workerVars, centralVars, budget>>

UserStores(m, o) ==
  /\ o # api[m]
  /\ Store(m, o)
  /\ mgCurrent' = mgCurrent \ {m}
  /\ Disrupt
  /\ UNCHANGED <<pc, mg, goal, centralVars>>

UserCreatesStep(m) ==
  /\ ~api[m].exists
  /\ \E s \in Specs, p \in {"Delete", "Orphan"} :
       UserStores(m, [Blank EXCEPT !.exists = TRUE, !.spec = s, !.policy = p])

UserEditsStep(m) ==
  /\ api[m].exists
  /\ \E s \in Specs, p \in {"Delete", "Orphan"} :
       /\ AllowRename \/ s.name = api[m].spec.name
       /\ UserStores(m, [api[m] EXCEPT !.spec = s, !.policy = p])

\* The object stays until its finalizer is removed.
UserDeletesStep(m) ==
  /\ api[m].exists /\ ~api[m].deleting
  /\ UserStores(m, IF api[m].finalizer THEN [api[m] EXCEPT !.deleting = TRUE] ELSE Blank)

\* The provider process dies and is started again.  What its new informer
\* lists may still be behind.
CrashStep ==
  /\ Fault
  /\ pc' = [m \in Resources |-> "idle"]
  /\ mg' = [m \in Resources |-> Blank]
  /\ mgCurrent' = {}
  /\ goal' = [m \in Resources |-> "status"]
  /\ UNCHANGED <<kubeVars, centralVars>>

\* Other users create, edit and delete objects in Central; a name is never
\* edited there.
AdminRequests ==
  [op : {"post"}, id : {0}, spec : Specs, extra : {Plain}, by : {Admin}]
  \cup [op : {"put"}, id : {c.id : c \in central}, spec : Specs, extra : Extras, by : {Admin}]
  \cup {[op |-> "delete", id |-> c.id, spec |-> c.spec, extra |-> c.extra, by |-> Admin] :
           c \in central}

AdminStep ==
  /\ \E r \in AdminRequests :
       /\ r.op = "put" => \E c \in central : c.id = r.id /\ c.spec.name = r.spec.name
       /\ Serve(r)
  /\ Disrupt
  /\ UNCHANGED <<wire, kubeVars, workerVars>>

\* A late request reaches Central, or never does.
ArriveStep ==
  /\ \E r \in wire :
       /\ wire' = wire \ {r}
       /\ Serve(r) \/ UNCHANGED <<central, nextId>>
  /\ UNCHANGED <<kubeVars, workerVars, budget>>

-----------------------------------------------------------------------------
(***************************************************************************)
(* What is always true of the surroundings: the parts the invariants of    *)
(* both controllers rest on.                                               *)
(***************************************************************************)

\* The identifier i is or was that of an object called name, and never of one
\* called otherwise.
Denotes(i, name) == i < nextId /\ \A c \in central : c.id = i => c.spec.name = name

\* Two objects never share an identifier, and none comes to denote another name.
IdentifiersKeepNames ==
  /\ \A c, d \in central : c.id = d.id => c = d
  /\ \A c \in central : Denotes(c.id, c.spec.name)
  /\ \A r \in wire : r.op = "put" => Denotes(r.id, r.spec.name)

\* A copy that counts as current is one, but for the status in memory.
CurrentCopies ==
  \A m \in Resources :
    /\ m \in cacheCurrent => cache[m] = api[m]
    /\ m \in mgCurrent =>
         /\ mg[m].exists = api[m].exists
         /\ mg[m].deleting = api[m].deleting
         /\ mg[m].finalizer = api[m].finalizer
         /\ mg[m].create = api[m].create
         /\ mg[m].spec = api[m].spec
         /\ mg[m].policy = api[m].policy

\* A busy worker holds an object: with its finalizer, not deleted and with no
\* creation pending before one is attempted, deleted before it is released,
\* and not to be orphaned when its handlers are called.
Holds(m) ==
  /\ pc[m] # "idle" => mg[m].exists
  /\ pc[m] = "pending" => mg[m].finalizer
  /\ pc[m] = "release" => mg[m].deleting
  /\ pc[m] \in {"finalizer", "pending"} => ~mg[m].deleting
  /\ pc[m] \in {"connect", "observe", "finalizer", "pending"} => mg[m].create # "pending"
  /\ pc[m] \in {"connect", "observe"} /\ mg[m].deleting => mg[m].policy = "Delete"

WorkerHolds == \A m \in Resources : Holds(m)

\* Whenever a request to create may be under way or its outcome is not
\* recorded yet, the stored object has its finalizer and says that a creation
\* is pending: neither a crash nor a deletion, nor a worker with a stale copy,
\* can make the provider forget what it may have created.
CreateIsRecoverable ==
  \A m \in Resources :
    pc[m] \in {"create", "succeeded", "failed"} =>
      api[m].exists /\ api[m].finalizer /\ api[m].create = "pending"

\* What a creation was attempted for stays until the provider lets it go.
CreatedAreHeld ==
  \A m \in Resources : api[m].create # "never" => api[m].exists /\ api[m].finalizer

\* A request is late only where requests can be.
LateIfAllowed == (AllowDelays /\ AllowFaults) \/ wire = {}

\* Observe has found nothing for m, and m is about to act on that.
Missed(m) ==
  \/ pc[m] \in {"pending", "create"}
  \/ pc[m] = "finalizer" /\ goal[m] = "pending"
  \/ pc[m] = "release" /\ mg[m].policy = "Delete"

\* What Observe has not found is not there when the worker acts on it, unless
\* it was late: Central has nothing made for m under the name m was read with.
MissedIsMissing ==
  \A m \in Resources :
    Missed(m) => \A c \in central : c.by = m => c.spec.name # mg[m].spec.name

ReconcileInv == CurrentCopies /\ WorkerHolds /\ CreateIsRecoverable /\ CreatedAreHeld

-----------------------------------------------------------------------------
(***************************************************************************)
(* The promise: what Kubernetes and Central show of each resource lives as *)
(* ManagedLife says.                                                       *)
(***************************************************************************)
ObjectOf(m) ==
  IF ~api[m].exists THEN "absent" ELSE IF api[m].deleting THEN "deleting" ELSE "present"

IntentOf(m) ==
  IF api[m].create # "pending" THEN api[m].create
  ELSE IF pc[m] = "create" THEN "intended" ELSE "tried"

MadeFor(m) == {c.id : c \in {d \in central : d.by = m}}

objectView == [m \in Resources |-> ObjectOf(m)]
intentView == [m \in Resources |-> IntentOf(m)]
madeView == [m \in Resources |-> MadeFor(m)]

\* How many objects a call may make.
PerCall == IF RejectsDuplicates THEN 1 ELSE MaxAttempts

Life == INSTANCE ManagedLife
  WITH MayBeLate <- AllowDelays,
       object <- objectView, intent <- intentView, made <- madeView

\* A resource has Central make one thing for each intention on record, and
\* there is none on record while the last is open: neither a lost reply, a
\* crash, a stale copy nor a deletion meanwhile makes the provider create
\* twice, create what is being deleted, or let go what may be under way.
LivesAsPromised == Life!Spec

\* When an object with a finalizer and policy Delete goes away, Central has
\* nothing left that was made for it and has its name: the absence that lets it
\* go was seen, not guessed from a reply, and holds for the version that goes.
\* (Not so where requests may be late.)
NothingLeftBehind ==
  [][\A m \in Resources :
       api[m].exists /\ ~api'[m].exists /\ api[m].finalizer /\ api[m].policy = "Delete" =>
         \A c \in central' : c.by = m => c.spec.name # api[m].spec.name]_commonVars

\* Nothing is made for a resource while Central has something made for it under
\* the same name: neither a lost reply, a restart, an error of Observe, a stale
\* status nor a rename and back makes the provider create again what is there.
\* (Not so where requests may be late.)
NothingMadeTwice ==
  [][\A d \in central' :
       d.id >= nextId /\ d.by # Admin =>
         \A c \in central : c.by = d.by => c.spec.name # d.spec.name]_commonVars

=============================================================================
