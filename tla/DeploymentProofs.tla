-------------------------- MODULE DeploymentProofs --------------------------
(***************************************************************************)
(* Proofs about Deployment, for any number of replicas and any durations   *)
(* of which the deadline is the shorter.                                   *)
(***************************************************************************)
EXTENDS Deployment, TLAPS

\* What any step of main does that does not touch the Lease.
LEMMA BootKeepsLease ==
  ASSUME NEW r \in Replicas, Boot(r)
  PROVE  UNCHANGED <<flags, leased, holder, leaseAge, sinceRenew, seen, sinceSeen>>
BY DEF Boot, StartProcess, NewManager, AddToScheme, EnsureStore, Setup, StartUnelected,
   Enters, leaseVars

LEMMA BootTypes ==
  ASSUME DeploymentTypeOK, NEW r \in Replicas, Boot(r)
  PROVE  DeploymentTypeOK'
<1>1. phase' \in [Replicas -> Phases]
  BY DEF Boot, StartProcess, NewManager, AddToScheme, EnsureStore, Setup, StartUnelected,
     Enters, DeploymentTypeOK, Phases
<1>2. controllers' \in [Replicas -> SUBSET AllControllers]
  <2>1. CASE Setup(r)
    BY <2>1 DEF Setup, NextController, AllControllers, DeploymentTypeOK
  <2>2. CASE ~Setup(r)
    BY <2>2 DEF Boot, StartProcess, NewManager, AddToScheme, EnsureStore, StartUnelected,
       Enters, DeploymentTypeOK
  <2> QED
    BY <2>1, <2>2
<1>3. store' \in {"absent", "present"} /\ failures' = failures
  BY DEF Boot, StartProcess, NewManager, AddToScheme, EnsureStore, Setup, StartUnelected,
     Enters, DeploymentTypeOK
<1> QED
  BY <1>1, <1>2, <1>3, BootKeepsLease DEF DeploymentTypeOK

LEMMA GoneTypes ==
  ASSUME DeploymentTypeOK, NEW r \in Replicas, Gone(r), failures' \in 0 .. MaxFailures
  PROVE  DeploymentTypeOK'
BY DeploymentAssumption DEF Gone, DeploymentTypeOK, Phases

\* Every reachable state is well typed.
THEOREM DeploymentTyping == DeploymentSpec => []DeploymentTypeOK
<1> USE DeploymentAssumption
<1>1. DeploymentInit => DeploymentTypeOK
  BY DEF DeploymentInit, DeploymentTypeOK, Phases
<1>2. DeploymentTypeOK /\ [DeploymentNext]_deploymentVars => DeploymentTypeOK'
  <2> SUFFICES ASSUME DeploymentTypeOK, [DeploymentNext]_deploymentVars
               PROVE  DeploymentTypeOK'
    OBVIOUS
  <2>1. CASE Tick
    BY <2>1 DEF Tick, Older, DeploymentTypeOK, processVars
  <2>2. CASE UserChangesStore
    BY <2>2 DEF UserChangesStore, DeploymentTypeOK, processVars, leaseVars
  <2>3. ASSUME NEW r \in Replicas, Exit(r) PROVE DeploymentTypeOK'
    BY <2>3, GoneTypes DEF Exit, DeploymentTypeOK
  <2>4. ASSUME NEW r \in Replicas, LoseLease(r) PROVE DeploymentTypeOK'
    BY <2>4, GoneTypes DEF LoseLease, DeploymentTypeOK
  <2>5. ASSUME NEW r \in Replicas, See(r) PROVE DeploymentTypeOK'
    BY <2>5 DEF See, DeploymentTypeOK, processVars
  <2>6. ASSUME NEW r \in Replicas, Acquire(r) \/ AcquireUnanswered(r) \/ Renew(r)
        PROVE  DeploymentTypeOK'
    <3>1. WriteLease(r) /\ UNCHANGED <<flags, controllers, store, failures>>
      BY <2>6 DEF Acquire, AcquireUnanswered, Renew, processVars
    <3>2. /\ leased' \in BOOLEAN /\ holder' \in Replicas /\ leaseAge' \in 0 .. LeaseDuration
          /\ seen' \in [Replicas -> BOOLEAN]
          /\ sinceSeen' \in [Replicas -> 0 .. LeaseDuration]
      BY <3>1 DEF WriteLease, DeploymentTypeOK
    <3>3. phase' \in [Replicas -> Phases]
      BY <2>6 DEF Acquire, AcquireUnanswered, Renew, processVars, DeploymentTypeOK, Phases
    <3>4. sinceRenew' \in [Replicas -> 0 .. RenewDeadline]
      BY <2>6 DEF Acquire, AcquireUnanswered, Renew, DeploymentTypeOK
    <3> QED
      BY <3>1, <3>2, <3>3, <3>4 DEF DeploymentTypeOK
  <2>7. CASE UNCHANGED deploymentVars
    BY <2>7 DEF deploymentVars, processVars, leaseVars, DeploymentTypeOK
  <2> QED
    BY <2>1, <2>2, <2>3, <2>4, <2>5, <2>6, <2>7, BootTypes DEF DeploymentNext
<1> QED
  BY <1>1, <1>2, PTL DEF DeploymentSpec

-----------------------------------------------------------------------------
\* An active replica holds the Lease, and knows of no younger write to it
\* than there was; no replica has seen its record for longer than it is old.
LeaseInv ==
  flags.leaderElection =>
    \A r \in Replicas :
      /\ phase[r] = "active" =>
           leased /\ holder = r /\ leaseAge <= sinceRenew[r]
      /\ leased /\ seen[r] => sinceSeen[r] <= leaseAge

\* A replica that may take the Lease finds no other active: the deadline of
\* the last holder is over.
LEMMA NoneIsActive ==
  ASSUME DeploymentTypeOK, LeaseInv, NEW r \in Replicas, MayTake(r)
  PROVE  \A q \in Replicas : phase[q] # "active"
<1> SUFFICES ASSUME NEW q \in Replicas, phase[q] = "active" PROVE FALSE
  OBVIOUS
<1>1. flags.leaderElection
  BY DEF MayTake
<1>2. leased /\ holder = q /\ leaseAge <= sinceRenew[q]
  BY <1>1 DEF LeaseInv
<1>3. q # r
  BY DEF MayTake
<1>4. seen[r] /\ sinceSeen[r] = LeaseDuration
  BY <1>2, <1>3 DEF MayTake
<1>5. LeaseDuration <= leaseAge
  BY <1>1, <1>2, <1>4 DEF LeaseInv
<1> QED
  BY <1>2, <1>5, DeploymentAssumption DEF DeploymentTypeOK

LEMMA LeaseInductive ==
  ASSUME DeploymentTypeOK, LeaseInv, [DeploymentNext]_deploymentVars
  PROVE  LeaseInv'
<1> USE DeploymentAssumption
<1>1. CASE Tick
  BY <1>1 DEF Tick, Older, LeaseInv, DeploymentTypeOK, processVars
<1>2. CASE UserChangesStore
  BY <1>2 DEF UserChangesStore, LeaseInv, processVars, leaseVars
<1>3. ASSUME NEW r \in Replicas, Boot(r) PROVE LeaseInv'
  <2>1. flags.leaderElection => \A q \in Replicas : phase'[q] = "active" => phase[q] = "active"
    BY <1>3 DEF Boot, StartProcess, NewManager, AddToScheme, EnsureStore, Setup,
       StartUnelected, Enters, DeploymentTypeOK
  <2> QED
    BY <1>3, <2>1, BootKeepsLease DEF LeaseInv
<1>4. ASSUME NEW r \in Replicas, Gone(r) PROVE LeaseInv'
  <2>1. \A q \in Replicas : phase'[q] = "active" => q # r /\ phase[q] = "active"
    BY <1>4 DEF Gone, DeploymentTypeOK
  <2>2. \A q \in Replicas : holder = q /\ q # r => holder' = q
    BY <1>4 DEF Gone
  <2>3. /\ UNCHANGED <<flags, leased, leaseAge>>
        /\ ~seen'[r]
        /\ \A q \in Replicas \ {r} : /\ sinceRenew'[q] = sinceRenew[q]
                                     /\ seen'[q] = seen[q]
                                     /\ sinceSeen'[q] = sinceSeen[q]
    BY <1>4 DEF Gone, DeploymentTypeOK
  <2> QED
    BY <2>1, <2>2, <2>3 DEF LeaseInv
<1>5. ASSUME NEW r \in Replicas, See(r) PROVE LeaseInv'
  BY <1>5 DEF See, LeaseInv, DeploymentTypeOK, processVars
<1>6. ASSUME NEW r \in Replicas, WriteLease(r) PROVE
        /\ leased' /\ holder' = r /\ leaseAge' = 0
        /\ \A q \in Replicas : seen'[q] => sinceSeen'[q] <= leaseAge'
  <2>1. \A q \in Replicas : seen'[q] => q = r
    BY <1>6 DEF WriteLease
  <2>2. sinceSeen'[r] = 0 /\ leaseAge' = 0
    BY <1>6 DEF WriteLease, DeploymentTypeOK
  <2> QED
    BY <1>6, <2>1, <2>2 DEF WriteLease
<1>7. ASSUME NEW r \in Replicas, Acquire(r) PROVE LeaseInv'
  <2>1. \A q \in Replicas : phase'[q] = "active" => q = r
    BY <1>7, NoneIsActive DEF Acquire, DeploymentTypeOK
  <2>2. sinceRenew'[r] = 0
    BY <1>7 DEF Acquire, DeploymentTypeOK
  <2> QED
    BY <1>6, <1>7, <2>1, <2>2 DEF Acquire, LeaseInv
<1>8. ASSUME NEW r \in Replicas, AcquireUnanswered(r) PROVE LeaseInv'
  BY <1>6, <1>8, NoneIsActive DEF AcquireUnanswered, LeaseInv, processVars
<1>9. ASSUME NEW r \in Replicas, Renew(r) PROVE LeaseInv'
  <2>1. \A q \in Replicas : phase[q] = "active" => q = r
    BY <1>9 DEF Renew, LeaseInv
  <2>2. sinceRenew'[r] \in Nat
    BY <1>9 DEF Renew, DeploymentTypeOK
  <2> QED
    BY <1>6, <1>9, <2>1, <2>2 DEF Renew, LeaseInv, processVars
<1>10. CASE UNCHANGED deploymentVars
  BY <1>10 DEF deploymentVars, processVars, leaseVars, LeaseInv
<1> QED
  BY <1>1, <1>2, <1>3, <1>4, <1>5, <1>7, <1>8, <1>9, <1>10
     DEF DeploymentNext, Exit, LoseLease

\* With leader election no two replicas are ever active at once, however
\* many there are and whatever they lose, because the deadline is shorter than
\* the duration of the Lease.
THEOREM OneIsActive == DeploymentSpec => []OneActiveReplica
<1>1. DeploymentInit => LeaseInv
  BY DeploymentAssumption DEF DeploymentInit, LeaseInv
<1>2. LeaseInv => OneActiveReplica
  BY DEF LeaseInv, OneActiveReplica
<1> QED
  BY <1>1, <1>2, LeaseInductive, DeploymentTyping, PTL DEF DeploymentSpec

-----------------------------------------------------------------------------
\* A replica past Setup has all controllers.
SetUpInv == \A r \in Replicas : phase[r] \in {"elect", "active"} => controllers[r] = AllControllers

\* No error of a Setup function, and no end of a process between two of them,
\* makes a replica reconcile with some of its controllers only.
THEOREM SetUpIsComplete == DeploymentSpec => []AllOrNothing
<1>1. DeploymentInit => SetUpInv
  BY DEF DeploymentInit, SetUpInv
<1>2. DeploymentTypeOK /\ SetUpInv /\ [DeploymentNext]_deploymentVars => SetUpInv'
  <2> SUFFICES ASSUME DeploymentTypeOK, SetUpInv, [DeploymentNext]_deploymentVars
               PROVE  SetUpInv'
    OBVIOUS
  <2>1. ASSUME NEW r \in Replicas, Setup(r) PROVE SetUpInv'
    <3>1. /\ phase[r] = "setup"
          /\ controllers' = [controllers EXCEPT ![r] = @ \cup {NextController(r)}]
          /\ phase' = IF controllers'[r] = AllControllers
                        THEN [phase EXCEPT ![r] = "elect"] ELSE phase
      BY <2>1 DEF Setup
    <3>2. \A q \in Replicas \ {r} : controllers'[q] = controllers[q] /\ phase'[q] = phase[q]
      BY <3>1 DEF DeploymentTypeOK
    <3>3. phase'[r] \in {"elect", "active"} => controllers'[r] = AllControllers
      BY <3>1
    <3> QED
      BY <3>2, <3>3 DEF SetUpInv
  <2>2. ASSUME NEW r \in Replicas,
               StartProcess(r) \/ NewManager(r) \/ AddToScheme(r) \/ EnsureStore(r)
                 \/ StartUnelected(r)
        PROVE  SetUpInv'
    BY <2>2 DEF StartProcess, NewManager, AddToScheme, EnsureStore, StartUnelected,
       Enters, SetUpInv, DeploymentTypeOK
  <2>3. ASSUME NEW r \in Replicas, Gone(r) PROVE SetUpInv'
    BY <2>3 DEF Gone, SetUpInv, DeploymentTypeOK
  <2>4. ASSUME NEW r \in Replicas,
               See(r) \/ Acquire(r) \/ AcquireUnanswered(r) \/ Renew(r)
        PROVE  SetUpInv'
    BY <2>4 DEF See, Acquire, AcquireUnanswered, Renew, MayTake, SetUpInv,
       DeploymentTypeOK, processVars
  <2>5. CASE Tick \/ UserChangesStore \/ UNCHANGED deploymentVars
    BY <2>5 DEF Tick, UserChangesStore, deploymentVars, processVars, SetUpInv
  <2> QED
    BY <2>1, <2>2, <2>3, <2>4, <2>5 DEF DeploymentNext, Boot, Exit, LoseLease
<1>3. SetUpInv => AllOrNothing
  BY DEF SetUpInv, AllOrNothing
<1> QED
  BY <1>1, <1>2, <1>3, DeploymentTyping, PTL DEF DeploymentSpec

=============================================================================
