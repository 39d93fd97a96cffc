---------------------------- MODULE ConfigUsage ----------------------------
(***************************************************************************)
(* The ProviderConfig controller (pkg/controller/config/config.go) and the *)
(* connectors whose resources it accounts for.                             *)
(*                                                                         *)
(* Connect first tracks the ProviderConfig of the resource: it applies a   *)
(* ProviderConfigUsage, owned by the resource.  The config controller      *)
(* counts the usages of a ProviderConfig, writes the count to its status,  *)
(* and keeps a finalizer on it while there are any.  The two sides share   *)
(* no lock, and both read the usages from the informer's cache.            *)
(*                                                                         *)
(* Resources and ProviderConfigs are read from caches as well.  A read of  *)
(* an old copy is here a read at an earlier time: a reconcile may rest as  *)
(* long as it likes between its steps, and the API server refuses what it  *)
(* then writes.  What the last reconcile itself wrote may not be read yet  *)
(* either (BeginStale).                                                    *)
(*                                                                         *)
(* Not every reconcile comes to Connect: one of a resource to be orphaned  *)
(* lets go of it, and one of a resource whose creation was never recorded  *)
(* as over stops (ManagedReconciler.BeginStep).                            *)
(*                                                                         *)
(* Connector gives the workers and their connections.  Here a worker       *)
(* reconciles one resource of its own; what the handlers do to Central is  *)
(* in ManagedReconciler.                                                   *)
(***************************************************************************)
EXTENDS Connector, FiniteSets

CONSTANTS
  Configs,    \* the names of ProviderConfigs
  None,       \* no ProviderConfig: there is no usage
  MaxEdits    \* bound: the writes of the users and the stale reads

ASSUME ConfigUsageAssumption ==
  /\ IsFiniteSet(Workers)
  /\ None \notin Configs
  /\ MaxEdits \in Nat

VARIABLES
  resource,   \* the resource of each worker: its state, the ProviderConfig it
              \* refers to, whether it has the finalizer of its controller, and
              \* whether it says that a creation is pending
  stage,      \* the part of Connect each worker has reached
  copy,       \* what each worker read of its resource in this reconcile
  usage,      \* the ProviderConfig in the usage of each resource, or None
  seenUsage,  \* the same in the informer's cache
  config,     \* the ProviderConfigs: state, finalizer, users in the status
  queue,      \* the ProviderConfigs the config controller has to reconcile
  task,       \* the reconcile the config controller is in
  pinned,     \* history: the resources whose usage the cache had when their
              \* ProviderConfig, with the finalizer, was deleted
  edits       \* how many writes the users made, and stale reads there were

connectorVars == vars
resourceVars == <<resource, stage, copy>>
controllerVars == <<queue, task>>
usageVars == <<usage, seenUsage, pinned>>
allVars == <<connectorVars, resourceVars, usageVars, config,
             controllerVars, edits>>

\* A resource that is deleted with the policy Orphan is orphaned.
Existence == {"absent", "present", "deleting", "orphaned"}
Stored == [state : Existence, ref : Configs, held : BOOLEAN, pending : BOOLEAN]
NoCopy == [ref |-> None, deleting |-> FALSE]
NoTask == [config |-> None, deleting |-> FALSE, users |-> 0, current |-> FALSE]
Tasks ==
  {NoTask} \cup
  [config : Configs, deleting : BOOLEAN,
   users : 0 .. Cardinality(Workers), current : BOOLEAN]

UsageTypeOK ==
  /\ TypeOK
  /\ resource \in [Workers -> Stored]
  /\ stage \in [Workers -> {"track", "dial"}]
  /\ copy \in [Workers -> [ref : Configs, deleting : BOOLEAN] \cup {NoCopy}]
  /\ \A w \in Workers : pc[w] # "idle" => copy[w] # NoCopy
  /\ usage \in [Workers -> Configs \cup {None}]
  /\ seenUsage \in [Workers -> Configs \cup {None}]
  /\ config \in [Configs -> [state : Existence, inUse : BOOLEAN,
                             users : 0 .. Cardinality(Workers)]]
  /\ queue \subseteq Configs
  /\ task \in Tasks
  /\ pinned \subseteq Workers
  /\ edits \in 0 .. MaxEdits

NewResource(c) == [state |-> "present", ref |-> c, held |-> FALSE, pending |-> FALSE]
GoneResource(c) == [state |-> "absent", ref |-> c, held |-> FALSE, pending |-> FALSE]

Absent == [state |-> "absent", inUse |-> FALSE, users |-> 0]
Fresh == [state |-> "present", inUse |-> FALSE, users |-> 0]

\* The provider starts: what users applied before is in the caches, and
\* queued.
UsageInit ==
  /\ Init
  /\ \E refs \in [Workers -> Configs] :
       resource = [w \in Workers |-> NewResource(refs[w])]
  /\ copy = [w \in Workers |-> NoCopy]
  /\ stage = [w \in Workers |-> "track"]
  /\ usage = [w \in Workers |-> None]
  /\ seenUsage = usage
  /\ config = [c \in Configs |-> Fresh]
  /\ queue = Configs
  /\ task = NoTask
  /\ pinned = {}
  /\ edits = 0

-----------------------------------------------------------------------------
(***************************************************************************)
(* Users, with kubectl.                                                    *)
(***************************************************************************)
UserWrites ==
  /\ edits < MaxEdits
  /\ edits' = edits + 1

\* A write to a ProviderConfig: its event enqueues it, and what a running
\* reconcile read is out of date.
ConfigIs(c, new) ==
  /\ config' = [config EXCEPT ![c] = new]
  /\ queue' = queue \cup {c}
  /\ task' = IF task # NoTask /\ task.config = c
               THEN [task EXCEPT !.current = FALSE]
               ELSE task

\* A new resource has a new UID, which names its usage: a worker is given one
\* only when nothing is left of its last.
UserCreatesResource(w, c) ==
  /\ UserWrites
  /\ resource[w].state = "absent"
  /\ pc[w] = "idle" /\ usage[w] = None /\ seenUsage[w] = None
  /\ resource' = [resource EXCEPT ![w] = NewResource(c)]
  /\ UNCHANGED <<connectorVars, stage, copy, usageVars, config, controllerVars>>

UserEditsReference(w, c) ==
  /\ UserWrites
  /\ resource[w].state # "absent" /\ resource[w].ref # c
  /\ resource' = [resource EXCEPT ![w].ref = c]
  /\ UNCHANGED <<connectorVars, stage, copy, usageVars, config, controllerVars>>

UserDeletesResource(w) ==
  /\ UserWrites
  /\ resource[w].state = "present"
  /\ \E state \in IF resource[w].held THEN {"deleting", "orphaned"} ELSE {"absent"} :
       resource' = [resource EXCEPT ![w].state = state]
  /\ UNCHANGED <<connectorVars, stage, copy, usageVars, config, controllerVars>>

\* The deletion policy of a resource that is being deleted.
UserEditsPolicy(w) ==
  /\ UserWrites
  /\ resource[w].state \in {"deleting", "orphaned"}
  /\ resource' = [resource EXCEPT ![w].state =
                    IF @ = "deleting" THEN "orphaned" ELSE "deleting"]
  /\ UNCHANGED <<connectorVars, stage, copy, usageVars, config, controllerVars>>

UserCreatesConfig(c) ==
  /\ UserWrites
  /\ config[c].state = "absent"
  /\ ConfigIs(c, Fresh)
  /\ UNCHANGED <<connectorVars, resourceVars, usageVars>>

UserDeletesConfig(c) ==
  /\ UserWrites
  /\ config[c].state = "present"
  /\ IF config[c].inUse
       THEN /\ ConfigIs(c, [config[c] EXCEPT !.state = "deleting"])
            /\ pinned' = pinned \cup {w \in Workers : usage[w] = c /\ seenUsage[w] = c}
       ELSE ConfigIs(c, Absent) /\ UNCHANGED pinned
  /\ UNCHANGED <<connectorVars, resourceVars, usage, seenUsage>>

-----------------------------------------------------------------------------
(***************************************************************************)
(* Kubernetes: the watches, and the garbage collector.                     *)
(***************************************************************************)
\* Faulty: the controller does not watch the usages.
SyncUsage_NotWatched(w) ==
  /\ seenUsage[w] # usage[w]
  /\ seenUsage' = [seenUsage EXCEPT ![w] = usage[w]]
  /\ UNCHANGED <<connectorVars, resourceVars, usage, pinned, config,
                 controllerVars, edits>>

\* An event of the watch on usages: it enqueues the ProviderConfig the usage
\* refers to, and for an update the one it referred to before.
SyncUsage(w) ==
  /\ seenUsage[w] # usage[w]
  /\ seenUsage' = [seenUsage EXCEPT ![w] = usage[w]]
  /\ queue' = queue \cup ({usage[w], seenUsage[w]} \ {None})
  /\ UNCHANGED <<connectorVars, resourceVars, usage, pinned, config,
                 task, edits>>

\* The owner of the usage is gone.
CollectUsage(w) ==
  /\ resource[w].state = "absent"
  /\ usage[w] # None
  /\ usage' = [usage EXCEPT ![w] = None]
  /\ pinned' = pinned \ {w}
  /\ UNCHANGED <<connectorVars, resourceVars, seenUsage, config,
                 controllerVars, edits>>

-----------------------------------------------------------------------------
(***************************************************************************)
(* A reconcile of a Cluster or an InitBundle: Connect of its connector, and *)
(* what its end does to the resource.                                      *)
(***************************************************************************)
\* A resource that is to be orphaned is let go without a connection.
Release(w) ==
  /\ pc[w] = "idle"
  /\ resource[w].state = "orphaned"
  /\ resource' = [resource EXCEPT ![w] = GoneResource(@.ref)]
  /\ UNCHANGED <<connectorVars, stage, copy, usageVars, config, controllerVars, edits>>

\* The resource is read once.  One whose creation is pending is not connected.
Begin(w) ==
  /\ Reconcile(w)
  /\ resource[w].state \in {"present", "deleting"} /\ ~resource[w].pending
  /\ copy' = [copy EXCEPT ![w] = [ref |-> resource[w].ref,
                                  deleting |-> resource[w].state = "deleting"]]
  /\ UNCHANGED <<resource, stage, usageVars, config, controllerVars, edits>>

\* The cache still has the resource as it was before the last reconcile marked
\* its creation as pending, or let it go.
BeginStale(w) ==
  /\ Reconcile(w)
  /\ resource[w].state \in {"absent", "orphaned"} \/ resource[w].pending
  /\ \E deleting \in BOOLEAN :
       copy' = [copy EXCEPT ![w] = [ref |-> resource[w].ref, deleting |-> deleting]]
  /\ UserWrites
  /\ UNCHANGED <<resource, stage, usageVars, config, controllerVars>>

\* Faulty: the usage is not updated when the reference has changed.
Track_Once(w) ==
  /\ pc[w] = "connect" /\ stage[w] = "track"
  /\ IF usage[w] = None
       THEN usage' = [usage EXCEPT ![w] = copy[w].ref] /\ pinned' = pinned \ {w}
       ELSE UNCHANGED <<usage, pinned>>
  /\ stage' = [stage EXCEPT ![w] = "dial"]
  /\ UNCHANGED <<connectorVars, resource, copy, seenUsage, config,
                 controllerVars, edits>>

\* Faulty: the error of Track is not returned.
Track_Ignored(w) ==
  /\ pc[w] = "connect" /\ stage[w] = "track"
  /\ \/ /\ seenUsage[w] = usage[w]
        /\ usage' = [usage EXCEPT ![w] = copy[w].ref]
        /\ pinned' = IF usage'[w] = usage[w] THEN pinned ELSE pinned \ {w}
     \/ UNCHANGED <<usage, pinned>>
  /\ stage' = [stage EXCEPT ![w] = "dial"]
  /\ UNCHANGED <<connectorVars, resource, copy, seenUsage, config,
                 controllerVars, edits>>

\* Track reads the usage from the cache.  If it refers to the same
\* ProviderConfig there is nothing to write; otherwise the usage is created,
\* or updated, and the API server refuses a write that rests on a stale read.
Track(w) ==
  /\ pc[w] = "connect" /\ stage[w] = "track"
  /\ \/ /\ seenUsage[w] = copy[w].ref
        /\ UNCHANGED <<usage, pinned>>
     \/ /\ seenUsage[w] # copy[w].ref
        /\ seenUsage[w] = usage[w]
        /\ usage' = [usage EXCEPT ![w] = copy[w].ref]
        /\ pinned' = pinned \ {w}
  /\ stage' = [stage EXCEPT ![w] = "dial"]
  /\ UNCHANGED <<connectorVars, resource, copy, seenUsage, config,
                 controllerVars, edits>>

\* Connect gets the ProviderConfig, deleted or not, and dials with its
\* endpoint and credentials.
Dial(w) ==
  /\ stage[w] = "dial"
  /\ config[copy[w].ref].state # "absent"
  /\ ConnectStores(w)
  /\ UNCHANGED <<resourceVars, usageVars, config, controllerVars, edits>>

\* What a reconcile read ends with it.
Forget(w) ==
  /\ copy' = [copy EXCEPT ![w] = NoCopy]
  /\ stage' = [stage EXCEPT ![w] = "track"]
  /\ UNCHANGED resource

\* Any of the three can fail, and then Connect returns the error.
Fail(w) ==
  /\ ConnectFails(w)
  /\ Forget(w)
  /\ UNCHANGED <<usageVars, config, controllerVars, edits>>

Return(w) ==
  /\ ConnectReturns(w)
  /\ UNCHANGED <<resourceVars, usageVars, config, controllerVars, edits>>

\* The API server takes a write of the resource if the copy is up to date.
CopyIsCurrent(w) ==
  /\ copy[w].ref = resource[w].ref
  /\ ~resource[w].pending
  /\ resource[w].state = IF copy[w].deleting THEN "deleting" ELSE "present"

\* The handlers end with the finalizer added, and perhaps a creation whose
\* outcome could not be recorded, with the finalizer of a deleted resource
\* removed, or with nothing written.
Handle(w) ==
  /\ HandlersReturn(w)
  /\ \/ /\ CopyIsCurrent(w) /\ ~copy[w].deleting
        /\ \E pending \in BOOLEAN :
             resource' = [resource EXCEPT ![w] = [@ EXCEPT !.held = TRUE, !.pending = pending]]
     \/ /\ CopyIsCurrent(w) /\ copy[w].deleting
        /\ resource' = [resource EXCEPT ![w] = GoneResource(@.ref)]
     \/ UNCHANGED resource
  /\ UNCHANGED <<stage, copy, usageVars, config, controllerVars, edits>>

Close(w) ==
  /\ Disconnect(w)
  /\ Forget(w)
  /\ UNCHANGED <<usageVars, config, controllerVars, edits>>

-----------------------------------------------------------------------------
(***************************************************************************)
(* A reconcile of a ProviderConfig.                                        *)
(***************************************************************************)
Users_AllButLast(c) ==
  LET n == Cardinality({w \in Workers : seenUsage[w] = c})
  IN IF n = 0 THEN 0 ELSE n - 1

\* The usages with the label of the ProviderConfig, in the cache.
Users(c) == Cardinality({w \in Workers : seenUsage[w] = c})

\* The ProviderConfig and its usages are read.  Between the two reads the
\* ProviderConfig may change: then the write is refused, here as there.
ConfigRead(c) ==
  /\ task = NoTask
  /\ c \in queue
  /\ queue' = queue \ {c}
  /\ task' = IF config[c].state = "absent"
               THEN NoTask
               ELSE [config |-> c,
                     deleting |-> config[c].state = "deleting",
                     users |-> Users(c), current |-> TRUE]
  /\ UNCHANGED <<connectorVars, resourceVars, usageVars, config, edits>>

\* A deleted ProviderConfig loses its finalizer once it has no users, and is
\* gone; while it has some, only the count is written, and nothing is
\* requeued: the watch on usages brings it back.  One that is not deleted
\* gets the finalizer and the count.
Accounted ==
  LET counted == [config[task.config] EXCEPT !.users = task.users]
  IN IF ~task.deleting THEN [counted EXCEPT !.inUse = TRUE]
     ELSE IF task.users > 0 THEN counted
     ELSE Absent

\* A write that changes nothing is none.
ConfigWrite ==
  /\ task # NoTask /\ task.current
  /\ config' = [config EXCEPT ![task.config] = Accounted]
  /\ queue' = IF config' = config THEN queue ELSE queue \cup {task.config}
  /\ task' = NoTask
  /\ UNCHANGED <<connectorVars, resourceVars, usageVars, edits>>

\* The API server refuses the write, and the reconcile is repeated.
ConfigConflicts ==
  /\ task # NoTask /\ ~task.current
  /\ queue' = queue \cup {task.config}
  /\ task' = NoTask
  /\ UNCHANGED <<connectorVars, resourceVars, usageVars, config, edits>>

-----------------------------------------------------------------------------
UserStep ==
  \/ \E w \in Workers, c \in Configs :
       UserCreatesResource(w, c) \/ UserEditsReference(w, c)
  \/ \E w \in Workers : UserDeletesResource(w) \/ UserEditsPolicy(w)
  \/ \E c \in Configs : UserCreatesConfig(c) \/ UserDeletesConfig(c)

KubernetesStep ==
  \E w \in Workers : SyncUsage(w) \/ CollectUsage(w)

WorkerStep(w) ==
  \/ Release(w) \/ Begin(w) \/ Track(w) \/ Dial(w) \/ Fail(w)
  \/ Return(w) \/ Handle(w) \/ Close(w)

ConfigStep == (\E c \in Configs : ConfigRead(c)) \/ ConfigWrite \/ ConfigConflicts

UsageNext ==
  \/ UserStep
  \/ KubernetesStep
  \/ \E w \in Workers : WorkerStep(w) \/ BeginStale(w)
  \/ ConfigStep

\* The watches deliver, the garbage collector collects, the workqueues hand
\* out what they hold, and each resource is reconciled over and over.  An
\* API server that fails a Track now and then does not fail it for ever; of a
\* resource that does not come to Connect any more this says nothing.
Fairness ==
  /\ \A w \in Workers : /\ WF_allVars(SyncUsage(w))
                        /\ WF_allVars(CollectUsage(w))
                        /\ WF_allVars(WorkerStep(w))
                        /\ SF_allVars(Track(w))
  /\ \A c \in Configs : SF_allVars(ConfigRead(c))
  /\ WF_allVars(ConfigWrite)
  /\ WF_allVars(ConfigConflicts)

UsageSpec == UsageInit /\ [][UsageNext]_allVars

FairUsageSpec == UsageSpec /\ Fairness

-----------------------------------------------------------------------------
(***************************************************************************)
(* Safety.                                                                 *)
(***************************************************************************)
\* A resource that may have something in Central (its finalizer says so) has
\* a usage: its ProviderConfig is accounted for before the first call is made
\* with its credentials, and until the resource is gone.
HeldAreTracked ==
  \A w \in Workers : resource[w].held => usage[w] # None

\* A ProviderConfig that is deleted while its controller knows of a user
\* stays until that user lets go of it, so that the user can still connect to
\* delete what it has in Central.  (A user the controller did not yet know of
\* when the usages were listed does not have this guarantee.)
KnownUsersKeepConfig ==
  \A w \in pinned : usage[w] # None /\ config[usage[w]].state # "absent"

-----------------------------------------------------------------------------
(***************************************************************************)
(* Liveness.                                                               *)
(***************************************************************************)
UsersOf(c) == {w \in Workers : usage[w] = c}

\* A deleted ProviderConfig is let go when the last usage goes: nothing
\* requeues it, the event of that usage must reach the controller.
ReleasedWhenUnused ==
  \A c \in Configs :
    config[c].state = "deleting" /\ UsersOf(c) = {}
      ~> config[c].state = "absent" \/ UsersOf(c) # {}

\* When users stop editing, the usage of every resource that is still
\* connected comes to name the ProviderConfig it refers to, and every
\* ProviderConfig shows in its status how many resources use it, those of
\* which the creation is pending and those that are gone included.
UsageSettles ==
  <>[](/\ \A w \in Workers :
             resource[w].state \in {"present", "deleting"} /\ ~resource[w].pending =>
               usage[w] = resource[w].ref
       /\ \A c \in Configs :
             config[c].state # "absent" =>
               config[c].users = Cardinality(UsersOf(c)))

=============================================================================
