---------------------------- MODULE Deployment ----------------------------
(***************************************************************************)
(* The replicas of the provider: how main (cmd/provider/main.go) starts    *)
(* each of them, and how they take turns.                                  *)
(*                                                                         *)
(* Any error ends the process, and Kubernetes starts it again from the     *)
(* top.  With --leader-election the manager runs its controllers only      *)
(* while it holds a Lease: the holder renews it, stops when it could not   *)
(* for RenewDeadline, and another replica takes the Lease over once it has *)
(* seen it unchanged for LeaseDuration.  The election is that of client-go *)
(* and external; what main sets are its two durations.                     *)
(*                                                                         *)
(* Time is counted in ticks, as ages that stop counting where they no      *)
(* longer matter, and all replicas' clocks run at one speed.  A process is *)
(* not suspended: it does stop at its deadline.                            *)
(***************************************************************************)
EXTENDS Naturals

CONSTANTS
  Replicas,
  LeaseDuration,    \* 60 seconds
  RenewDeadline,    \* 50 seconds
  Nobody,           \* the holder of a Lease whose process is gone
  MaxFailures       \* bound: processes that end, and changes of the StoreConfig

ASSUME DeploymentAssumption ==
  /\ LeaseDuration \in Nat /\ RenewDeadline \in Nat
  /\ RenewDeadline < LeaseDuration
  /\ Nobody \notin Replicas
  /\ MaxFailures \in Nat

VARIABLES
  flags,        \* the flags of the deployment: the same for every replica
  phase,        \* how far main has come in each replica
  controllers,  \* the controllers each has added to its manager
  leased,       \* whether the Lease exists
  holder,       \* its holder
  leaseAge,     \* the time since the Lease was written
  sinceRenew,   \* the time since each replica last knew it had written it
  seen,         \* whether each replica has seen the last write
  sinceSeen,    \* the time since it saw a write
  store,        \* the StoreConfig "default": absent or present
  failures      \* how many processes ended, and changes of store by users

processVars == <<phase, controllers>>
leaseVars == <<leased, holder, leaseAge, sinceRenew, seen, sinceSeen>>
deploymentVars == <<flags, processVars, leaseVars, store, failures>>

AllControllers == {"config", "cluster", "initbundle"}

Phases == {"down", "manager", "scheme", "store", "setup", "elect", "active"}

\* --leader-election and --enable-external-secret-stores, both off by default.
Flags == [leaderElection : BOOLEAN, enableStores : BOOLEAN]

DeploymentTypeOK ==
  /\ flags \in Flags
  /\ phase \in [Replicas -> Phases]
  /\ controllers \in [Replicas -> SUBSET AllControllers]
  /\ leased \in BOOLEAN
  /\ holder \in Replicas \cup {Nobody}
  /\ leaseAge \in 0 .. LeaseDuration
  /\ sinceRenew \in [Replicas -> 0 .. RenewDeadline]
  /\ seen \in [Replicas -> BOOLEAN]
  /\ sinceSeen \in [Replicas -> 0 .. LeaseDuration]
  /\ store \in {"absent", "present"}
  /\ failures \in 0 .. MaxFailures

\* The provider is installed over one that is gone, or over none.
DeploymentInit ==
  /\ flags \in Flags
  /\ phase = [r \in Replicas |-> "down"]
  /\ controllers = [r \in Replicas |-> {}]
  /\ leased \in BOOLEAN
  /\ holder = Nobody
  /\ leaseAge = 0
  /\ sinceRenew = [r \in Replicas |-> 0]
  /\ seen = [r \in Replicas |-> FALSE]
  /\ sinceSeen = [r \in Replicas |-> 0]
  /\ store \in {"absent", "present"}
  /\ failures = 0

-----------------------------------------------------------------------------
(***************************************************************************)
(* main, step by step.                                                     *)
(***************************************************************************)
Enters(r, p) ==
  /\ phase' = [phase EXCEPT ![r] = p]
  /\ UNCHANGED <<flags, controllers, leaseVars, failures>>

\* The flags are parsed, the address of the API server is found.
StartProcess(r) == phase[r] = "down" /\ Enters(r, "manager") /\ UNCHANGED store

NewManager(r) == phase[r] = "manager" /\ Enters(r, "scheme") /\ UNCHANGED store

AddToScheme(r) == phase[r] = "scheme" /\ Enters(r, "store") /\ UNCHANGED store

\* The process is gone.  It had an identity of its own: the next one does
\* not hold its Lease, and has not seen it.
Gone(r) ==
  /\ phase' = [phase EXCEPT ![r] = "down"]
  /\ controllers' = [controllers EXCEPT ![r] = {}]
  /\ holder' = IF holder = r THEN Nobody ELSE holder
  /\ sinceRenew' = [sinceRenew EXCEPT ![r] = 0]
  /\ seen' = [seen EXCEPT ![r] = FALSE]
  /\ sinceSeen' = [sinceSeen EXCEPT ![r] = 0]
  /\ UNCHANGED <<flags, leased, leaseAge, store>>

\* Faulty: that it exists already is an error.
EnsureStore_Strict(r) ==
  /\ phase[r] = "store"
  /\ IF flags.enableStores /\ store # "absent"
       THEN Gone(r) /\ UNCHANGED failures
       ELSE /\ store' = IF flags.enableStores THEN "present" ELSE store
            /\ Enters(r, "setup")

\* That it exists already is no error.
EnsureStore(r) ==
  /\ phase[r] = "store"
  /\ store' = IF flags.enableStores THEN "present" ELSE store
  /\ Enters(r, "setup")

\* The controllers are added one after the other, in this order.
NextController(r) ==
  IF "config" \notin controllers[r] THEN "config"
  ELSE IF "cluster" \notin controllers[r] THEN "cluster"
  ELSE "initbundle"

\* Faulty: Setup stops at a controller it cannot add, but returns no error.
Setup_ErrorLost(r) ==
  /\ phase[r] = "setup"
  /\ \/ /\ controllers' = [controllers EXCEPT ![r] = @ \cup {NextController(r)}]
        /\ phase' = IF controllers'[r] = AllControllers
                      THEN [phase EXCEPT ![r] = "elect"]
                      ELSE phase
     \/ phase' = [phase EXCEPT ![r] = "elect"] /\ UNCHANGED controllers
  /\ UNCHANGED <<flags, leaseVars, store, failures>>

Setup(r) ==
  /\ phase[r] = "setup"
  /\ controllers' = [controllers EXCEPT ![r] = @ \cup {NextController(r)}]
  /\ phase' = IF controllers'[r] = AllControllers
                THEN [phase EXCEPT ![r] = "elect"]
                ELSE phase
  /\ UNCHANGED <<flags, leaseVars, store, failures>>

\* Without leader election Start runs the controllers at once.
StartUnelected(r) ==
  /\ ~flags.leaderElection
  /\ phase[r] = "elect"
  /\ Enters(r, "active")
  /\ UNCHANGED store

\* FatalIfError at any of the calls, a signal, a crash.
Exit(r) ==
  /\ phase[r] # "down"
  /\ failures < MaxFailures
  /\ failures' = failures + 1
  /\ Gone(r)

-----------------------------------------------------------------------------
(***************************************************************************)
(* The election.                                                           *)
(***************************************************************************)
\* The Lease is written: its record is new to all others.
WriteLease(r) ==
  /\ leased' = TRUE /\ holder' = r
  /\ leaseAge' = 0
  /\ seen' = [q \in Replicas |-> q = r]
  /\ sinceSeen' = [sinceSeen EXCEPT ![r] = 0]

\* Each replica that waits reads the Lease again and again.
See(r) ==
  /\ flags.leaderElection
  /\ phase[r] = "elect"
  /\ ~seen[r]
  /\ seen' = [seen EXCEPT ![r] = TRUE]
  /\ sinceSeen' = [sinceSeen EXCEPT ![r] = 0]
  /\ UNCHANGED <<flags, processVars, leased, holder, leaseAge, sinceRenew,
                 store, failures>>

\* There is no Lease, it has the replica's own name, or its record did not
\* change for LeaseDuration.  Of two that try at once the API server takes
\* one.
MayTake(r) ==
  /\ flags.leaderElection
  /\ phase[r] = "elect"
  /\ ~leased \/ holder = r \/ (seen[r] /\ sinceSeen[r] = LeaseDuration)

Acquire(r) ==
  /\ MayTake(r)
  /\ WriteLease(r)
  /\ sinceRenew' = [sinceRenew EXCEPT ![r] = 0]
  /\ phase' = [phase EXCEPT ![r] = "active"]
  /\ UNCHANGED <<flags, controllers, store, failures>>

\* The Lease is written, and the reply is lost.
AcquireUnanswered(r) ==
  /\ MayTake(r)
  /\ WriteLease(r)
  /\ UNCHANGED <<flags, processVars, sinceRenew, store, failures>>

\* The holder writes the Lease again, and may not get the reply.
Renew(r) ==
  /\ flags.leaderElection
  /\ phase[r] = "active" /\ holder = r
  /\ WriteLease(r)
  /\ sinceRenew' \in {sinceRenew, [sinceRenew EXCEPT ![r] = 0]}
  /\ UNCHANGED <<flags, processVars, store, failures>>

\* Faulty: the process goes on as if it still led.
LoseLease_GoesOn(r) ==
  /\ flags.leaderElection
  /\ phase[r] = "active"
  /\ sinceRenew[r] = RenewDeadline
  /\ sinceRenew' = [sinceRenew EXCEPT ![r] = 0]
  /\ UNCHANGED <<flags, processVars, leased, holder, leaseAge, seen, sinceSeen,
                 store, failures>>

\* The holder could not renew: Start returns an error and the process ends.
LoseLease(r) ==
  /\ flags.leaderElection
  /\ phase[r] = "active"
  /\ sinceRenew[r] = RenewDeadline
  /\ Gone(r)
  /\ UNCHANGED failures

Older(age, limit) == IF age < limit THEN age + 1 ELSE age

\* Faulty: a process that has reached its deadline need not stop.
Tick_PastDeadline ==
  /\ flags.leaderElection
  /\ leaseAge' = Older(leaseAge, LeaseDuration)
  /\ sinceRenew' = [r \in Replicas |->
                      IF phase[r] = "active" THEN sinceRenew[r] + 1 ELSE 0]
  /\ sinceSeen' = [r \in Replicas |->
                     IF seen[r] THEN Older(sinceSeen[r], LeaseDuration) ELSE 0]
  /\ UNCHANGED <<flags, processVars, leased, holder, seen, store, failures>>

\* Time passes, but a process that has reached its deadline stops first.
Tick ==
  /\ flags.leaderElection
  /\ \A r \in Replicas : phase[r] = "active" => sinceRenew[r] < RenewDeadline
  /\ leaseAge' = Older(leaseAge, LeaseDuration)
  /\ sinceRenew' = [r \in Replicas |->
                      IF phase[r] = "active" THEN sinceRenew[r] + 1 ELSE 0]
  /\ sinceSeen' = [r \in Replicas |->
                     IF seen[r] THEN Older(sinceSeen[r], LeaseDuration) ELSE 0]
  /\ UNCHANGED <<flags, processVars, leased, holder, seen, store, failures>>

\* A user creates or deletes the StoreConfig.
UserChangesStore ==
  /\ failures < MaxFailures
  /\ failures' = failures + 1
  /\ store' \in {"absent", "present"} \ {store}
  /\ UNCHANGED <<flags, processVars, leaseVars>>

Boot(r) ==
  \/ StartProcess(r) \/ NewManager(r) \/ AddToScheme(r) \/ EnsureStore(r)
  \/ Setup(r) \/ StartUnelected(r)

DeploymentNext ==
  \/ Tick
  \/ UserChangesStore
  \/ \E r \in Replicas :
       \/ Boot(r) \/ Exit(r) \/ See(r) \/ Acquire(r) \/ AcquireUnanswered(r)
       \/ Renew(r) \/ LoseLease(r)

DeploymentSpec == DeploymentInit /\ [][DeploymentNext]_deploymentVars

\* Kubernetes starts what ended, main goes on, the election polls, and time
\* passes.  Renewals may fail for ever; writing the Lease anew may not.
FairDeploymentSpec ==
  /\ DeploymentSpec
  /\ WF_deploymentVars(Tick)
  /\ \A r \in Replicas :
       /\ WF_deploymentVars(Boot(r))
       /\ WF_deploymentVars(See(r))
       /\ SF_deploymentVars(Acquire(r))
       /\ WF_deploymentVars(LoseLease(r))

-----------------------------------------------------------------------------
(***************************************************************************)
(* Safety.                                                                 *)
(***************************************************************************)
\* With leader election no two replicas reconcile at once: one has stopped
\* before another can take the Lease over, whatever renewals are lost and
\* whoever restarts.  ManagedReconciler relies on it: it has one worker for
\* each resource.
OneActiveReplica ==
  flags.leaderElection =>
    \A q, r \in Replicas : phase[q] = "active" /\ phase[r] = "active" => q = r

\* A replica that reconciles anything runs all of its controllers: it never
\* comes up with some of them missing.
AllOrNothing ==
  \A r \in Replicas : phase[r] = "active" => controllers[r] = AllControllers

(***************************************************************************)
(* Liveness.                                                               *)
(***************************************************************************)
\* However many leaders fail, and whoever made the default StoreConfig before,
\* some replica comes to reconcile.
SomeoneLeads == []<>(\E r \in Replicas : phase[r] = "active")

=============================================================================
