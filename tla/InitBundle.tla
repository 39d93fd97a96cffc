----------------------------- MODULE InitBundle -----------------------------
(***************************************************************************)
(* The controller of InitBundle managed resources                          *)
(* (pkg/controller/initbundle/initbundle.go): the handlers with which the  *)
(* managed-resource reconciler has Central generate and revoke cluster     *)
(* init bundles.                                                           *)
(*                                                                         *)
(* A bundle is a secret that Central shows once, in the reply to           *)
(* GenerateInitBundle.  The worker carries it from that reply to the       *)
(* connection secret of the managed resource, past two writes to the API   *)
(* server.  A bundle has no parameters but its name.                       *)
(***************************************************************************)
EXTENDS ManagedReconciler

VARIABLES
  details,   \* details[m]: the bundle whose contents the worker holds, or 0
  secret     \* secret[m]: the bundle whose contents the secret of m has, or 0

bundleVars == <<details, secret>>
vars == <<commonVars, bundleVars>>

TypeOK ==
  /\ CommonTypeOK
  /\ details \in [Resources -> Nat]
  /\ secret \in [Resources -> Nat]

Init ==
  /\ CommonInit
  /\ details = [m \in Resources |-> 0]
  /\ secret = [m \in Resources |-> 0]

-----------------------------------------------------------------------------
(***************************************************************************)
(* Helpers of the handlers.                                                *)
(***************************************************************************)
BundleRequest(m, op, id) ==
  [op |-> op, id |-> id, spec |-> mg[m].spec, extra |-> Plain, by |-> m]

isUpToDate(m, c) == c.spec.name = mg[m].spec.name

\* Faulty: the bundle is looked up by the identifier in the status, if any.
getInitBundle_ById(m) ==
  IF mg[m].id = 0 THEN Named(mg[m].spec.name) ELSE {c \in central : c.id = mg[m].id}

\* The first bundle of that name, in whatever order Central lists them.
getInitBundle(m) == Named(mg[m].spec.name)

HandlerFails(m) ==
  /\ Fault
  /\ Goto(m, "status")
  /\ UNCHANGED <<kubeVars, mg, mgCurrent, goal, centralVars, bundleVars>>

\* Faulty: nothing held, secret emptied.
Published_Replaces(m) == details[m]

\* What the secret of m has once the worker's details are merged into it.
Published(m) == IF details[m] = 0 THEN secret[m] ELSE details[m]

\* The secret is owned by the managed resource and goes away with it.
OwnedSecret(m) == secret' = [secret EXCEPT ![m] = IF api'[m].exists THEN secret[m] ELSE 0]

-----------------------------------------------------------------------------
(***************************************************************************)
(* The handlers.                                                           *)
(***************************************************************************)

\* Usage, ProviderConfig, credentials and the dialled connection: a client
\* or an error.
Connect(m) ==
  /\ pc[m] = "connect"
  /\ \/ /\ Goto(m, "observe")
        /\ UNCHANGED <<kubeVars, mg, mgCurrent, goal, centralVars, budget, bundleVars>>
     \/ HandlerFails(m)

\* Faulty: the resource is not marked available.
ObserveFinds_NoCondition(m) ==
  /\ pc[m] = "observe"
  /\ \E c \in getInitBundle(m) :
       /\ mg' = [mg EXCEPT ![m].id = c.id]
       /\ AfterObserve(m, TRUE, isUpToDate(m, c))
  /\ UNCHANGED <<kubeVars, mgCurrent, centralVars, budget, bundleVars>>

\* The answer has no connection details: the list has no contents of bundles.
ObserveFinds(m) ==
  /\ pc[m] = "observe"
  /\ \E c \in getInitBundle(m) :
       /\ mg' = [mg EXCEPT ![m].ready = "Available", ![m].id = c.id]
       /\ AfterObserve(m, TRUE, isUpToDate(m, c))
  /\ UNCHANGED <<kubeVars, mgCurrent, centralVars, budget, bundleVars>>

ObserveMisses(m) ==
  /\ pc[m] = "observe"
  /\ getInitBundle(m) = {}
  /\ \/ AfterObserve(m, FALSE, FALSE) /\ UNCHANGED <<mg, mgCurrent, budget>>
     \/ WaitForCreation(m)
  /\ UNCHANGED <<kubeVars, centralVars, bundleVars>>

ObserveFails(m) == pc[m] = "observe" /\ HandlerFails(m)

\* Faulty: the contents of the bundle are not returned.
Create_NoDetails(m) ==
  LET r == BundleRequest(m, "post", 0)
  IN /\ pc[m] = "create"
     /\ \/ /\ CallSucceeds(r)
           /\ mg' = [mg EXCEPT ![m].ready = "Creating", ![m].id = nextId' - 1]
           /\ Goto(m, "succeeded")
        \/ /\ CallSucceedsSilently(r)
           /\ SetReady(m, "Creating")
           /\ Goto(m, "succeeded")
        \/ /\ CallFails(r)
           /\ SetReady(m, "Creating")
           /\ Goto(m, "failed")
     /\ UNCHANGED <<kubeVars, mgCurrent, goal, bundleVars>>

\* Faulty: the bundle is looked up by its name, not taken from the reply.
Create_LooksUp(m) ==
  LET r == BundleRequest(m, "post", 0)
  IN /\ pc[m] = "create"
     /\ \/ /\ CallSucceeds(r)
           /\ \E c \in {d \in central' : d.spec.name = mg[m].spec.name} :
                /\ mg' = [mg EXCEPT ![m].ready = "Creating", ![m].id = c.id]
                /\ details' = [details EXCEPT ![m] = c.id]
           /\ Goto(m, "succeeded")
        \/ /\ CallFails(r)
           /\ SetReady(m, "Creating")
           /\ Goto(m, "failed")
           /\ UNCHANGED details
     /\ UNCHANGED <<kubeVars, mgCurrent, goal, secret>>

\* The reply has the contents of the bundle and what describes it, or only the
\* former: then the identifier in the status stays as it was.
Create(m) ==
  LET r == BundleRequest(m, "post", 0)
  IN /\ pc[m] = "create"
     /\ \/ /\ CallSucceeds(r)
           /\ mg' = [mg EXCEPT ![m].ready = "Creating", ![m].id = nextId' - 1]
           /\ details' = [details EXCEPT ![m] = nextId' - 1]
           /\ Goto(m, "succeeded")
        \/ /\ CallSucceedsSilently(r)
           /\ SetReady(m, "Creating")
           /\ details' = [details EXCEPT ![m] = nextId' - 1]
           /\ Goto(m, "succeeded")
        \/ /\ CallFails(r)
           /\ SetReady(m, "Creating")
           /\ Goto(m, "failed")
           /\ UNCHANGED details
     /\ UNCHANGED <<kubeVars, mgCurrent, goal, secret>>

\* Faulty: the name is sent where Central expects identifiers.
Revoke_ByName(m) ==
  LET r == BundleRequest(m, "delete", 0)
  IN /\ pc[m] \in {"delete", "update"}
     /\ \/ CallSucceeds(r) /\ Goto(m, IF pc[m] = "update" THEN "publish" ELSE "status")
        \/ CallFails(r) /\ Goto(m, "status")
     /\ SetReady(m, "Deleting")
     /\ UNCHANGED <<kubeVars, mgCurrent, goal, bundleVars>>

\* Update revokes the bundle by calling Delete.  Its test for a resource
\* that is Creating or Deleting compares whole conditions, which have a time,
\* and never holds.  Errors in the body of Central's reply are not looked at.
Revoke(m) ==
  LET r == BundleRequest(m, "delete", mg[m].id)
  IN /\ pc[m] \in {"delete", "update"}
     /\ \/ CallSucceeds(r) /\ Goto(m, IF pc[m] = "update" THEN "publish" ELSE "status")
        \/ CallFails(r) /\ Goto(m, "status")
     /\ SetReady(m, "Deleting")
     /\ UNCHANGED <<kubeVars, mgCurrent, goal, bundleVars>>

\* Write the contents of a new bundle to the secret; nothing held, nothing
\* written.  They are dropped when that fails.
Publish(m) ==
  /\ pc[m] = "publish"
  /\ \/ /\ secret' = [secret EXCEPT ![m] = Published(m)]
        /\ UNCHANGED <<mg, budget>>
     \/ /\ Fault
        /\ SetReady(m, "Creating")
        /\ UNCHANGED secret
  /\ details' = [details EXCEPT ![m] = 0]
  /\ Goto(m, "status")
  /\ UNCHANGED <<kubeVars, mgCurrent, goal, centralVars>>

-----------------------------------------------------------------------------
Begin(m) == BeginStep(m) /\ UNCHANGED bundleVars
UpdateStatus(m) == UpdateStatusStep(m) /\ UNCHANGED bundleVars
MarkPending(m) == MarkPendingStep(m) /\ UNCHANGED bundleVars
RemoveFinalizer(m) == RemoveFinalizerStep(m) /\ OwnedSecret(m) /\ UNCHANGED details

\* What Observe returned, nothing, is published before the finalizer is added.
AddFinalizer(m) ==
  /\ AddFinalizerStep(m)
  /\ secret' = [secret EXCEPT ![m] = Published(m)]
  /\ UNCHANGED details

\* When the outcome cannot be recorded, the contents are dropped unpublished.
MarkOutcome(m) ==
  /\ MarkOutcomeStep(m)
  /\ details' = [details EXCEPT ![m] = IF pc'[m] = "publish" THEN details[m] ELSE 0]
  /\ UNCHANGED secret

Worker(m) ==
  \/ Begin(m)
  \/ Connect(m)
  \/ ObserveFinds(m)
  \/ ObserveMisses(m)
  \/ ObserveFails(m)
  \/ AddFinalizer(m)
  \/ MarkPending(m)
  \/ Create(m)
  \/ MarkOutcome(m)
  \/ Revoke(m)
  \/ Publish(m)
  \/ RemoveFinalizer(m)
  \/ UpdateStatus(m)

CacheSync(m) == CacheSyncStep(m) /\ UNCHANGED bundleVars
UserCreates(m) == UserCreatesStep(m) /\ UNCHANGED bundleVars
UserEdits(m) == UserEditsStep(m) /\ UNCHANGED bundleVars
UserDeletes(m) == UserDeletesStep(m) /\ OwnedSecret(m) /\ UNCHANGED details
AdminActs == AdminStep /\ UNCHANGED bundleVars
Arrive == ArriveStep /\ UNCHANGED bundleVars
Crash == CrashStep /\ details' = [m \in Resources |-> 0] /\ UNCHANGED secret

Next ==
  \/ \E m \in Resources : Worker(m)
  \/ \E m \in Resources : CacheSync(m)
  \/ \E m \in Resources : UserCreates(m)
  \/ \E m \in Resources : UserEdits(m)
  \/ \E m \in Resources : UserDeletes(m)
  \/ AdminActs
  \/ Arrive
  \/ Crash

Spec == Init /\ [][Next]_vars

\* As for Cluster: the provider keeps reconciling and the informer keeps up.
Fairness == \A m \in Resources : WF_vars(Worker(m)) /\ WF_vars(CacheSync(m))

FairSpec == Spec /\ Fairness

-----------------------------------------------------------------------------
(***************************************************************************)
(* Safety.                                                                 *)
(***************************************************************************)

\* A bundle in use is never revoked by an object that stays: Update would do
\* that, so it must never be reached, whatever was renamed or revoked.  And
\* the bundle that is revoked has the name of the object.
RevokesOnlyOwnOnDeletion ==
  \A m \in Resources :
    pc[m] \in {"delete", "update"} =>
      /\ mg[m].deleting /\ mg[m].policy = "Delete"
      /\ \A c \in central : c.id = mg[m].id => c.spec.name = mg[m].spec.name

\* What the worker of an object aims at: nothing to update, and a bundle of its
\* own name to revoke.
RevocationTargets ==
  \A m \in Resources :
    /\ pc[m] # "update" /\ goal[m] # "update"
    /\ pc[m] = "delete" => /\ Denotes(mg[m].id, mg[m].spec.name)
                           /\ mg[m].deleting /\ mg[m].policy = "Delete"

\* The invariant it follows from: what the worker holds is what it was told,
\* identifiers are never reused for another name, and a bundle that is found
\* is up to date, for it was found by the one thing that is compared.
Inv ==
  /\ TypeOK
  /\ ReconcileInv
  /\ IdentifiersKeepNames
  /\ RevocationTargets

\* As long as the object is there, contents once written to its secret are
\* neither cleared nor replaced by those of an older bundle: not by a
\* reconcile that creates nothing, nor by one that worked on stale data.
SecretNeverRegresses ==
  [][\A m \in Resources :
       api[m].exists /\ api'[m].exists => secret'[m] >= secret[m]]_vars

\* A secret has contents only as long as its object is there, with a creation
\* on record, and only contents that Central generated for that object: not
\* those of a bundle that someone else has under the same name.
SecretIsOwned ==
  \A m \in Resources :
    secret[m] # 0 =>
      /\ api[m].exists /\ api[m].create # "never"
      /\ \A c \in central : c.id = secret[m] => c.by = m

\* An object that is ready, and had its bundle generated itself, has the
\* contents of that very bundle in its secret.  (Not so when a reply, a write
\* or the process is lost, nor when the object is renamed back to a bundle it
\* had before.)
ReadyBundleIsPublished ==
  \A m \in Resources, c \in central :
    /\ api[m].exists /\ api[m].create # "never" /\ api[m].ready = "Available"
    /\ c.by = m /\ c.spec.name = api[m].spec.name
    /\ pc[m] = "idle"
    => secret[m] = c.id

-----------------------------------------------------------------------------
(***************************************************************************)
(* Liveness.                                                               *)
(***************************************************************************)

\* Once users, Central's other users and faults are quiet, every object that
\* stays has a bundle, and its status says which; also after the bundle was
\* revoked behind its back.  An interrupted creation waits for a person.
BundlesConverge ==
  <>[](\A m \in Resources :
         api[m].exists /\ ~api[m].deleting /\ api[m].create # "pending" =>
           /\ api[m].ready = "Available"
           /\ \E c \in central : c.spec.name = api[m].spec.name /\ c.id = api[m].id)

\* The deletion of an object is carried out: its bundle is revoked, or released
\* when it is orphaned, and the object goes; unless a creation was interrupted
\* before it.
RevocationCompletes ==
  \A m \in Resources :
    api[m].exists /\ api[m].deleting ~> ~api[m].exists \/ api[m].create = "pending"

=============================================================================
