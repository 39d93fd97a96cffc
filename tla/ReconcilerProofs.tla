-------------------------- MODULE ReconcilerProofs --------------------------
(***************************************************************************)
(* What the steps shared by both controllers do, for every value of the    *)
(* constants: they keep the types, the names and the invariant of the      *)
(* reconciler, make nothing unasked, and are steps of ManagedLife or none. *)
(* The proofs about Cluster and InitBundle add their handlers.             *)
(***************************************************************************)
EXTENDS ManagedReconciler, TLAPS

\* The object the reconciler starts from is well formed.
LEMMA BlankType == Blank \in Managed
<1>1. (CHOOSE s \in Specs : TRUE) \in Specs
  BY ReconcilerAssumption
<1> QED
  BY <1>1 DEF Blank, Managed

\* A change of one steering field leaves an object well formed.
LEMMA ManagedUpdates ==
  ASSUME NEW o \in Managed
  PROVE  /\ \A x \in {"Unknown", "Creating", "Available", "Deleting"} :
              [o EXCEPT !.ready = x] \in Managed
         /\ \A x \in {"never", "pending", "succeeded", "failed"} :
              [o EXCEPT !.create = x] \in Managed
         /\ \A x \in BOOLEAN :
              [o EXCEPT !.finalizer = x] \in Managed /\ [o EXCEPT !.deleting = x] \in Managed
         /\ \A x \in {"Unknown", "Creating", "Available", "Deleting"}, i \in Nat :
              [o EXCEPT !.ready = x, !.id = i] \in Managed
         /\ \A i \in Nat : [o EXCEPT !.id = i] \in Managed
         /\ \A s \in Specs, p \in {"Delete", "Orphan"} :
              [o EXCEPT !.spec = s, !.policy = p] \in Managed
  BY DEF Managed

\* Before anything has happened every variable has its type.
LEMMA CommonInitType == CommonInit => CommonTypeOK
  BY BlankType, ReconcilerAssumption DEF CommonInit, CommonTypeOK, Phases

\* A disruption is taken from the budget.
LEMMA DisruptType ==
  ASSUME budget \in Nat, Disrupt
  PROVE  budget' \in Nat
  BY DEF Disrupt

\* Whatever request it serves, Central keeps well-formed objects.
LEMMA ServeType ==
  ASSUME CommonTypeOK, NEW r \in Request, Serve(r)
  PROVE  central' \subseteq External /\ nextId' \in Nat
<1>1. CASE ServePost(r)
  <2>1. [id |-> nextId, spec |-> r.spec, extra |-> r.extra, by |-> r.by] \in External
    BY DEF CommonTypeOK, Request, External
  <2> QED
    BY <1>1, <2>1 DEF ServePost, CommonTypeOK
<1>2. CASE ServePut(r)
  <2>1. \A c \in External : [c EXCEPT !.spec = r.spec, !.extra = r.extra] \in External
    BY DEF Request, External
  <2> QED
    BY <1>2, <2>1 DEF ServePut, CommonTypeOK
<1>3. CASE ServeDelete(r)
  BY <1>3 DEF ServeDelete, CommonTypeOK
<1> QED
  BY <1>1, <1>2, <1>3 DEF Serve

\* So it does when it serves every attempt.
LEMMA ServeRepeatedlyType ==
  ASSUME CommonTypeOK, NEW r \in Request, ServeRepeatedly(r)
  PROVE  central' \subseteq External /\ nextId' \in Nat
<1>1. nextId \in Nat /\ MaxAttempts \in Nat
  BY DEF CommonTypeOK, MaxAttempts
<1>2. PICK last \in nextId + 1 .. nextId + MaxAttempts - 1 :
        /\ central' = central \cup {[id |-> i, spec |-> r.spec, extra |-> r.extra, by |-> r.by] :
                                     i \in nextId .. last}
        /\ nextId' = last + 1
  BY DEF ServeRepeatedly
<1>3. last \in Nat
  BY <1>1
<1>4. \A i \in nextId .. last :
        [id |-> i, spec |-> r.spec, extra |-> r.extra, by |-> r.by] \in External
  BY <1>1, <1>3 DEF Request, External
<1> QED
  BY <1>2, <1>3, <1>4 DEF CommonTypeOK

\* What a call made last has a number.
LEMMA NewestType ==
  ASSUME CommonTypeOK, NEW r \in Request, r.op = "post",
         CallSucceeds(r) \/ CallSucceedsSilently(r)
  PROVE  nextId' - 1 \in Nat
<1>1. nextId \in Nat
  BY DEF CommonTypeOK
<1>2. CASE Serve(r)
  BY <1>1, <1>2 DEF Serve, ServePost, ServePut, ServeDelete
<1>3. CASE ServeRepeatedly(r)
  BY <1>1, <1>3 DEF ServeRepeatedly, MaxAttempts
<1> QED
  BY <1>2, <1>3 DEF CallSucceeds, CallSucceedsSilently

\* To Central, a reply without its object is as good as a lost one.
LEMMA SilentCall ==
  ASSUME NEW r, CallSucceedsSilently(r)
  PROVE  CallFails(r)
  BY DEF CallSucceedsSilently, CallFails

\* A request that outlives its caller is a request on the wire.
LEMMA LingerType ==
  ASSUME CommonTypeOK, NEW r \in Request, Linger(r)
  PROVE  wire' \subseteq Request /\ budget' \in Nat
  BY DisruptType DEF Linger, Fault, CommonTypeOK

\* However a call ends, Central, the wire and the budget stay well formed.
LEMMA CallType ==
  ASSUME CommonTypeOK, NEW r \in Request, CallSucceeds(r) \/ CallFails(r)
  PROVE  central' \subseteq External /\ wire' \subseteq Request /\ nextId' \in Nat /\ budget' \in Nat
<1>1. CASE CallSucceeds(r)
  BY <1>1, ServeType, ServeRepeatedlyType, LingerType, DisruptType
  DEF CallSucceeds, Fault, CommonTypeOK
<1>2. CASE CallFails(r)
  BY <1>2, ServeType, ServeRepeatedlyType, LingerType, DisruptType
  DEF CallFails, Fault, centralVars, CommonTypeOK
<1> QED
  BY <1>1, <1>2

-----------------------------------------------------------------------------
(***************************************************************************)
(* The steps of a worker.                                                  *)
(***************************************************************************)

\* The start of a reconcile keeps the types.
LEMMA BeginType ==
  ASSUME CommonTypeOK, NEW m \in Resources, BeginStep(m)
  PROVE  CommonTypeOK'
<1>0. cache[m] \in Managed
  BY DEF CommonTypeOK
<1>1. [cache[m] EXCEPT !.ready = "Creating"] \in Managed
  BY <1>0, ManagedUpdates
<1>2. mg' \in [Resources -> Managed]
  BY <1>0, <1>1 DEF BeginStep, CommonTypeOK
<1>3. pc' \in [Resources -> Phases] /\ mgCurrent' \subseteq Resources
  BY DEF BeginStep, Goto, Phases, CommonTypeOK
<1> QED
  BY <1>2, <1>3 DEF BeginStep, CommonTypeOK, kubeVars, centralVars

\* What follows Observe is a phase and a goal there is.
LEMMA AfterObserveType ==
  ASSUME CommonTypeOK, NEW m \in Resources, NEW e \in BOOLEAN, NEW u \in BOOLEAN,
         AfterObserve(m, e, u)
  PROVE  /\ pc' \in [Resources -> Phases]
         /\ goal' \in [Resources -> {"pending", "status", "update"}]
  BY DEF AfterObserve, Goto, Phases, CommonTypeOK

\* The end of a reconcile keeps the types of what the worker holds.
LEMMA FinishType ==
  ASSUME CommonTypeOK, NEW m \in Resources, Finish(m)
  PROVE  /\ pc' \in [Resources -> Phases]
         /\ mg' \in [Resources -> Managed]
         /\ mgCurrent' \subseteq Resources
         /\ goal' \in [Resources -> {"pending", "status", "update"}]
  BY BlankType DEF Finish, Goto, Phases, CommonTypeOK

\* A write keeps the types of what the API server and the informer hold.
LEMMA StoreType ==
  ASSUME CommonTypeOK, NEW m \in Resources, NEW o \in Managed, Store(m, o)
  PROVE  /\ api' \in [Resources -> Managed] /\ api'[m] = o
         /\ cache' \in [Resources -> Managed]
         /\ cacheCurrent' \subseteq Resources
  BY DEF Store, CommonTypeOK

\* Adding the finalizer keeps the types.
LEMMA AddFinalizerType ==
  ASSUME CommonTypeOK, NEW m \in Resources, AddFinalizerStep(m)
  PROVE  CommonTypeOK'
<1>1. /\ goal[m] \in Phases
      /\ [api[m] EXCEPT !.finalizer = TRUE] \in Managed
  BY ManagedUpdates DEF CommonTypeOK, Phases
<1>2. goal' \in [Resources -> {"pending", "status", "update"}]
  BY DEF AddFinalizerStep, CommonTypeOK
<1>3. pc' \in [Resources -> Phases] /\ budget' \in Nat
  BY <1>1, DisruptType DEF AddFinalizerStep, Goto, Fault, Phases, CommonTypeOK
<1>4. /\ api' \in [Resources -> Managed] /\ cache' \in [Resources -> Managed]
      /\ cacheCurrent' \subseteq Resources /\ mg' \in [Resources -> Managed]
  BY <1>1, StoreType DEF AddFinalizerStep, kubeVars, CommonTypeOK
<1> QED
  BY <1>2, <1>3, <1>4 DEF AddFinalizerStep, centralVars, CommonTypeOK

\* Recording that a creation is attempted keeps the types.
LEMMA MarkPendingType ==
  ASSUME CommonTypeOK, NEW m \in Resources, MarkPendingStep(m)
  PROVE  CommonTypeOK'
<1>1. /\ [api[m] EXCEPT !.create = "pending"] \in Managed
      /\ [mg[m] EXCEPT !.ready = "Creating"] \in Managed
  BY ManagedUpdates DEF CommonTypeOK
<1>2. pc' \in [Resources -> Phases] /\ budget' \in Nat
  BY DisruptType DEF MarkPendingStep, WriteFails, Goto, Fault, Phases, CommonTypeOK
<1>3. /\ api' \in [Resources -> Managed] /\ cache' \in [Resources -> Managed]
      /\ cacheCurrent' \subseteq Resources /\ mg' \in [Resources -> Managed]
  BY <1>1, StoreType DEF MarkPendingStep, SetReady, kubeVars, CommonTypeOK
<1> QED
  BY <1>2, <1>3 DEF MarkPendingStep, centralVars, CommonTypeOK

\* Recording the outcome of a creation keeps the types.
LEMMA MarkOutcomeType ==
  ASSUME CommonTypeOK, NEW m \in Resources, MarkOutcomeStep(m)
  PROVE  CommonTypeOK'
<1>1. /\ [api[m] EXCEPT !.create = pc[m]] \in Managed
      /\ [[api[m] EXCEPT !.create = pc[m]] EXCEPT !.ready = "Creating"] \in Managed
      /\ [mg[m] EXCEPT !.ready = "Creating"] \in Managed
  BY ManagedUpdates DEF MarkOutcomeStep, CommonTypeOK
<1>2. pc' \in [Resources -> Phases] /\ budget' \in Nat /\ mgCurrent' \subseteq Resources
  BY DisruptType DEF MarkOutcomeStep, Goto, Fault, Phases, CommonTypeOK
<1>3. /\ api' \in [Resources -> Managed] /\ cache' \in [Resources -> Managed]
      /\ cacheCurrent' \subseteq Resources /\ mg' \in [Resources -> Managed]
  <2>1. CASE Store(m, [api[m] EXCEPT !.create = pc[m]])
    <3>1. /\ api' \in [Resources -> Managed] /\ cache' \in [Resources -> Managed]
          /\ cacheCurrent' \subseteq Resources
          /\ api'[m] = [api[m] EXCEPT !.create = pc[m]]
      BY <1>1, <2>1, StoreType
    <3> QED
      BY <1>1, <3>1 DEF MarkOutcomeStep, SetReady, CommonTypeOK
  <2>2. CASE ~Store(m, [api[m] EXCEPT !.create = pc[m]])
    BY <1>1, <2>2 DEF MarkOutcomeStep, SetReady, kubeVars, CommonTypeOK
  <2> QED
    BY <2>1, <2>2 DEF MarkOutcomeStep
<1> QED
  BY <1>2, <1>3 DEF MarkOutcomeStep, centralVars, CommonTypeOK

\* Giving up the finalizer keeps the types.
LEMMA RemoveFinalizerType ==
  ASSUME CommonTypeOK, NEW m \in Resources, RemoveFinalizerStep(m)
  PROVE  CommonTypeOK'
<1>1. [mg[m] EXCEPT !.ready = "Deleting"] \in Managed
  BY ManagedUpdates DEF CommonTypeOK
<1>2. /\ pc' \in [Resources -> Phases] /\ budget' \in Nat /\ mgCurrent' \subseteq Resources
      /\ mg' \in [Resources -> Managed]
      /\ goal' \in [Resources -> {"pending", "status", "update"}]
  BY <1>1, FinishType, DisruptType
     DEF RemoveFinalizerStep, WriteFails, SetReady, Goto, Fault, Phases, CommonTypeOK
<1>3. /\ api' \in [Resources -> Managed] /\ cache' \in [Resources -> Managed]
      /\ cacheCurrent' \subseteq Resources
  BY BlankType, StoreType DEF RemoveFinalizerStep, kubeVars, CommonTypeOK
<1> QED
  BY <1>2, <1>3 DEF RemoveFinalizerStep, centralVars, CommonTypeOK

\* Writing the status keeps the types.
LEMMA UpdateStatusType ==
  ASSUME CommonTypeOK, NEW m \in Resources, UpdateStatusStep(m)
  PROVE  CommonTypeOK'
<1>1. [api[m] EXCEPT !.ready = mg[m].ready, !.id = mg[m].id] \in Managed
  <2>1. /\ api[m] \in Managed
        /\ mg[m].ready \in {"Unknown", "Creating", "Available", "Deleting"}
        /\ mg[m].id \in Nat
    BY DEF CommonTypeOK, Managed
  <2> QED
    BY <2>1, ManagedUpdates
<1>2. budget' \in Nat
  BY DisruptType DEF UpdateStatusStep, WriteFails, Fault, CommonTypeOK
<1>3. /\ api' \in [Resources -> Managed] /\ cache' \in [Resources -> Managed]
      /\ cacheCurrent' \subseteq Resources
  BY <1>1, StoreType DEF UpdateStatusStep, kubeVars, CommonTypeOK
<1> QED
  BY <1>2, <1>3, FinishType DEF UpdateStatusStep, centralVars, CommonTypeOK

-----------------------------------------------------------------------------
(***************************************************************************)
(* The steps of everyone else.                                             *)
(***************************************************************************)

\* The informer catching up keeps the types.
LEMMA CacheSyncType ==
  ASSUME CommonTypeOK, NEW m \in Resources, CacheSyncStep(m)
  PROVE  CommonTypeOK'
  BY DEF CacheSyncStep, workerVars, centralVars, CommonTypeOK

\* Whatever well-formed object a user stores, the types are kept.
LEMMA UserStoresType ==
  ASSUME CommonTypeOK, NEW m \in Resources, NEW o \in Managed, UserStores(m, o)
  PROVE  CommonTypeOK'
  BY StoreType, DisruptType DEF UserStores, centralVars, CommonTypeOK

\* A new, an edited and a deleted object keep the types.
LEMMA UserType ==
  ASSUME CommonTypeOK, NEW m \in Resources,
         UserCreatesStep(m) \/ UserEditsStep(m) \/ UserDeletesStep(m)
  PROVE  CommonTypeOK'
<1>1. api[m] \in Managed
  BY DEF CommonTypeOK
<1>2. CASE UserCreatesStep(m)
  <2>1. \A s \in Specs, p \in {"Delete", "Orphan"} :
          [Blank EXCEPT !.exists = TRUE, !.spec = s, !.policy = p] \in Managed
    BY BlankType DEF Managed
  <2> QED
    BY <1>2, <2>1, UserStoresType DEF UserCreatesStep
<1>3. CASE UserEditsStep(m)
  <2>1. \A s \in Specs, p \in {"Delete", "Orphan"} :
          [api[m] EXCEPT !.spec = s, !.policy = p] \in Managed
    BY <1>1, ManagedUpdates
  <2> QED
    BY <1>3, <2>1, UserStoresType DEF UserEditsStep
<1>4. CASE UserDeletesStep(m)
  <2>1. [api[m] EXCEPT !.deleting = TRUE] \in Managed
    BY <1>1, ManagedUpdates
  <2> QED
    BY <1>4, <2>1, BlankType, UserStoresType DEF UserDeletesStep
<1> QED
  BY <1>2, <1>3, <1>4

\* A restart keeps the types.
LEMMA CrashType ==
  ASSUME CommonTypeOK, CrashStep
  PROVE  CommonTypeOK'
  BY BlankType, DisruptType DEF CrashStep, Fault, Phases, kubeVars, centralVars, CommonTypeOK

\* What other users of Central ask for is a request.
LEMMA AdminRequestsType ==
  ASSUME CommonTypeOK
  PROVE  AdminRequests \subseteq Request
<1>1. [op : {"post"}, id : {0}, spec : Specs, extra : {Plain}, by : {Admin}] \subseteq Request
  BY ReconcilerAssumption DEF Request
<1>2. \A c \in central : c.id \in Nat /\ c.spec \in Specs /\ c.extra \in Extras
  BY DEF CommonTypeOK, External
<1>3. [op : {"put"}, id : {c.id : c \in central}, spec : Specs, extra : Extras, by : {Admin}]
        \subseteq Request
  BY <1>2 DEF Request
<1>4. {[op |-> "delete", id |-> c.id, spec |-> c.spec, extra |-> c.extra, by |-> Admin] :
         c \in central} \subseteq Request
  BY <1>2 DEF Request
<1> QED
  BY <1>1, <1>3, <1>4 DEF AdminRequests

\* Other users of Central keep the types.
LEMMA AdminType ==
  ASSUME CommonTypeOK, AdminStep
  PROVE  CommonTypeOK'
<1>1. PICK r \in AdminRequests : Serve(r)
  BY DEF AdminStep
<1>2. r \in Request
  BY AdminRequestsType
<1>3. central' \subseteq External /\ nextId' \in Nat
  BY <1>1, <1>2, ServeType
<1> QED
  BY <1>3, DisruptType DEF AdminStep, kubeVars, workerVars, CommonTypeOK

\* A late request keeps the types.
LEMMA ArriveType ==
  ASSUME CommonTypeOK, ArriveStep
  PROVE  CommonTypeOK'
<1>1. PICK r \in wire : /\ wire' = wire \ {r}
                        /\ Serve(r) \/ UNCHANGED <<central, nextId>>
  BY DEF ArriveStep
<1>2. r \in Request
  BY DEF CommonTypeOK
<1>3. central' \subseteq External /\ nextId' \in Nat
  <2>1. CASE Serve(r)
    BY <1>2, <2>1, ServeType
  <2>2. CASE UNCHANGED <<central, nextId>>
    BY <2>2 DEF CommonTypeOK
  <2> QED
    BY <1>1, <2>1, <2>2
<1>4. wire' \subseteq Request
  <2>1. wire' = wire \ {r}
    BY <1>1
  <2>2. wire \subseteq Request
    BY DEF CommonTypeOK
  <2> QED
    BY <2>1, <2>2
<1> QED
  BY <1>3, <1>4 DEF ArriveStep, kubeVars, workerVars, CommonTypeOK

-----------------------------------------------------------------------------
(***************************************************************************)
(* Identifiers are unique and keep the name they once denote.              *)
(***************************************************************************)

\* Serving a request that fits, Central lets no identifier change its name.
LEMMA ServeKeepsNames ==
  ASSUME CommonTypeOK, IdentifiersKeepNames, NEW r \in Request, Serve(r),
         r.op = "put" => Denotes(r.id, r.spec.name)
  PROVE  /\ \A c \in central' : c.id < nextId' /\ \A d \in central' : d.id = c.id => d = c
         /\ \A i \in Nat : \A n : Denotes(i, n) => Denotes(i, n)'
<1> USE DEF Denotes
<1>1. nextId \in Nat /\ central \subseteq External /\ r.id \in Nat
  BY DEF CommonTypeOK, Request
<1>2. \A c \in External : c.id \in Nat
  BY DEF External
<1>3. \A c \in central : c.id < nextId /\ \A d \in central : d.id = c.id => d = c
  BY DEF IdentifiersKeepNames
<1>4. CASE ServePost(r)
  BY <1>1, <1>2, <1>3, <1>4 DEF ServePost
<1>5. CASE ServePut(r)
  <2> DEFINE edited(c) == IF c.id = r.id THEN [c EXCEPT !.spec = r.spec, !.extra = r.extra] ELSE c
  <2>1. \A c \in central : c.id = r.id => c.spec.name = r.spec.name
    BY <1>5 DEF ServePut
  <2>2. \A d \in central' :
          \E c \in central : d = edited(c) /\ d.id = c.id /\ d.spec.name = c.spec.name
    <3> SUFFICES ASSUME NEW d \in central'
                 PROVE  \E c \in central : d = edited(c) /\ d.id = c.id /\ d.spec.name = c.spec.name
      OBVIOUS
    <3>1. PICK c \in central :
            d = edited(c)
      BY <1>5 DEF ServePut
    <3>2. c \in External
      BY <1>1
    <3>3. d.id = c.id /\ (c.id = r.id => d.spec = r.spec) /\ (c.id # r.id => d = c)
      BY <3>1, <3>2 DEF External
    <3> QED
      BY <2>1, <3>1, <3>3
  <2>3. nextId' = nextId
    BY <1>5 DEF ServePut
  <2> HIDE DEF edited
  <2> QED
    BY <1>1, <1>3, <2>2, <2>3
<1>6. CASE ServeDelete(r)
  BY <1>1, <1>3, <1>6 DEF ServeDelete
<1> QED
  BY <1>4, <1>5, <1>6 DEF Serve

\* What it makes of the attempts of one call has new identifiers.
LEMMA ServeRepeatedlyKeepsNames ==
  ASSUME CommonTypeOK, IdentifiersKeepNames, NEW r \in Request, ServeRepeatedly(r)
  PROVE  /\ \A c \in central' : c.id < nextId' /\ \A d \in central' : d.id = c.id => d = c
         /\ \A i \in Nat : \A n : Denotes(i, n) => Denotes(i, n)'
<1>1. nextId \in Nat /\ MaxAttempts \in Nat /\ \A c \in central : c.id \in Nat
  BY DEF CommonTypeOK, External, MaxAttempts
<1>2. PICK last \in nextId + 1 .. nextId + MaxAttempts - 1 :
        /\ central' = central \cup {[id |-> i, spec |-> r.spec, extra |-> r.extra, by |-> r.by] :
                                     i \in nextId .. last}
        /\ nextId' = last + 1
  BY DEF ServeRepeatedly
<1>3. \A c \in central : c.id < nextId /\ \A d \in central : d.id = c.id => d = c
  BY DEF IdentifiersKeepNames, Denotes
<1>4. \A c \in central' :
        c \in central \/ (c.id \in nextId .. last /\ c.spec = r.spec)
  BY <1>2
<1>5. last \in Nat /\ nextId <= last
  BY <1>1, <1>2
<1> QED
  BY <1>1, <1>2, <1>3, <1>4, <1>5 DEF Denotes

\* However a call ends, no identifier changes its name, nor may a late request
\* make it.
LEMMA CallKeepsNames ==
  ASSUME CommonTypeOK, IdentifiersKeepNames, NEW r \in Request,
         CallSucceeds(r) \/ CallFails(r),
         r.op = "put" => Denotes(r.id, r.spec.name)
  PROVE  /\ IdentifiersKeepNames'
         /\ \A i \in Nat : \A n : Denotes(i, n) => Denotes(i, n)'
<1>1. Serve(r) \/ ServeRepeatedly(r) \/ UNCHANGED <<central, nextId>>
  BY DEF CallSucceeds, CallFails, centralVars
<1>2. wire' \subseteq wire \cup {r}
  BY DEF CallSucceeds, CallFails, Linger, centralVars
<1>3. /\ \A c \in central' : c.id < nextId' /\ \A d \in central' : d.id = c.id => d = c
      /\ \A i \in Nat : \A n : Denotes(i, n) => Denotes(i, n)'
  <2>1. CASE Serve(r)
    BY <2>1, ServeKeepsNames
  <2>2. CASE UNCHANGED <<central, nextId>>
    BY <2>2 DEF IdentifiersKeepNames, Denotes
  <2>3. CASE ServeRepeatedly(r)
    BY <2>3, ServeRepeatedlyKeepsNames
  <2> QED
    BY <1>1, <2>1, <2>2, <2>3
<1>4. \A q \in wire' : q.op = "put" => Denotes(q.id, q.spec.name)'
  <2>1. \A q \in wire' : q \in Request /\ (q.op = "put" => Denotes(q.id, q.spec.name))
    BY <1>2 DEF IdentifiersKeepNames, CommonTypeOK
  <2>2. \A q \in Request : q.id \in Nat
    BY DEF Request
  <2> QED
    BY <1>3, <2>1, <2>2
<1> QED
  BY <1>3, <1>4 DEF IdentifiersKeepNames, Denotes

\* Other users of Central do not rename what they edit.
LEMMA AdminKeepsNames ==
  ASSUME CommonTypeOK, IdentifiersKeepNames, AdminStep
  PROVE  /\ IdentifiersKeepNames'
         /\ \A i \in Nat : \A n : Denotes(i, n) => Denotes(i, n)'
<1>1. PICK r \in AdminRequests :
        /\ r.op = "put" => \E c \in central : c.id = r.id /\ c.spec.name = r.spec.name
        /\ Serve(r)
  BY DEF AdminStep
<1>2. r \in Request
  BY AdminRequestsType
<1>3. r.op = "put" => Denotes(r.id, r.spec.name)
  BY <1>1 DEF IdentifiersKeepNames, Denotes
<1>4. /\ \A c \in central' : c.id < nextId' /\ \A d \in central' : d.id = c.id => d = c
      /\ \A i \in Nat : \A n : Denotes(i, n) => Denotes(i, n)'
  BY <1>1, <1>2, <1>3, ServeKeepsNames
<1>5. \A q \in wire' : q.op = "put" => Denotes(q.id, q.spec.name)'
  <2>1. wire' = wire /\ \A q \in wire : q.id \in Nat
    BY DEF AdminStep, CommonTypeOK, Request
  <2> QED
    BY <1>4, <2>1 DEF IdentifiersKeepNames
<1> QED
  BY <1>4, <1>5 DEF IdentifiersKeepNames, Denotes

\* A late request names what it was sent for.
LEMMA ArriveKeepsNames ==
  ASSUME CommonTypeOK, IdentifiersKeepNames, ArriveStep
  PROVE  /\ IdentifiersKeepNames'
         /\ \A i \in Nat : \A n : Denotes(i, n) => Denotes(i, n)'
<1>1. PICK r \in wire : wire' = wire \ {r} /\ (Serve(r) \/ UNCHANGED <<central, nextId>>)
  BY DEF ArriveStep
<1>2. r \in Request /\ (r.op = "put" => Denotes(r.id, r.spec.name))
  BY DEF CommonTypeOK, IdentifiersKeepNames
<1>3. /\ \A c \in central' : c.id < nextId' /\ \A d \in central' : d.id = c.id => d = c
      /\ \A i \in Nat : \A n : Denotes(i, n) => Denotes(i, n)'
  <2>1. CASE Serve(r)
    BY <1>2, <2>1, ServeKeepsNames
  <2>2. CASE UNCHANGED <<central, nextId>>
    BY <2>2 DEF IdentifiersKeepNames, Denotes
  <2> QED
    BY <1>1, <2>1, <2>2
<1>4. \A q \in wire' : q.op = "put" => Denotes(q.id, q.spec.name)'
  <2>1. wire' \subseteq wire
    BY <1>1
  <2>2. \A q \in wire : q.id \in Nat
    BY DEF CommonTypeOK, Request
  <2> QED
    BY <1>3, <2>1, <2>2 DEF IdentifiersKeepNames
<1> QED
  BY <1>3, <1>4 DEF IdentifiersKeepNames, Denotes

-----------------------------------------------------------------------------
(***************************************************************************)
(* The invariant of the reconciler.                                        *)
(***************************************************************************)

\* It holds before anything has happened.
LEMMA ReconcileInit == CommonInit => ReconcileInv
  BY DEF CommonInit, Blank, ReconcileInv, CurrentCopies, WorkerHolds, Holds, CreateIsRecoverable,
         CreatedAreHeld

\* The start of a reconcile keeps it.
LEMMA BeginKeeps ==
  ASSUME CommonTypeOK, ReconcileInv, NEW m \in Resources, BeginStep(m)
  PROVE  ReconcileInv'
<1>1. /\ cache[m] \in Managed
      /\ mg'[m] = cache[m] \/ mg'[m] = [cache[m] EXCEPT !.ready = "Creating"]
      /\ pc'[m] \in {"release", "status", "connect"}
      /\ cache[m].exists
      /\ pc'[m] = "connect" => ~(cache[m].deleting /\ cache[m].policy = "Orphan")
      /\ pc'[m] = "connect" => cache[m].create # "pending"
      /\ pc'[m] = "release" => cache[m].deleting
      /\ m \in mgCurrent' <=> m \in cacheCurrent
  BY DEF BeginStep, Goto, CommonTypeOK
<1>2. \A k \in Resources \ {m} : mg'[k] = mg[k] /\ pc'[k] = pc[k] /\ (k \in mgCurrent' <=> k \in mgCurrent)
  BY DEF BeginStep, Goto, CommonTypeOK
<1>3. /\ mg'[m].exists = cache[m].exists /\ mg'[m].finalizer = cache[m].finalizer
      /\ mg'[m].create = cache[m].create /\ mg'[m].deleting = cache[m].deleting
      /\ mg'[m].policy = cache[m].policy /\ mg'[m].policy \in {"Delete", "Orphan"}
      /\ mg'[m].spec = cache[m].spec
  BY <1>1 DEF Managed
<1>4. UNCHANGED <<api, cache, cacheCurrent>>
  BY DEF BeginStep, kubeVars
<1>5. CurrentCopies'
  <2>1. \A k \in Resources : k \in cacheCurrent' => cache'[k] = api'[k]
    BY <1>4 DEF ReconcileInv, CurrentCopies
  <2>2. m \in mgCurrent' => cache[m] = api'[m]
    BY <1>1, <1>4 DEF ReconcileInv, CurrentCopies
  <2>3. \A k \in Resources \ {m} : k \in mgCurrent' =>
          /\ mg'[k].exists = api'[k].exists /\ mg'[k].finalizer = api'[k].finalizer
          /\ mg'[k].create = api'[k].create /\ mg'[k].deleting = api'[k].deleting
          /\ mg'[k].spec = api'[k].spec /\ mg'[k].policy = api'[k].policy
    BY <1>2, <1>4 DEF ReconcileInv, CurrentCopies
  <2> QED
    BY <1>3, <2>1, <2>2, <2>3 DEF CurrentCopies
<1>6. WorkerHolds'
  <2>1. Holds(m)'
    BY <1>1, <1>3 DEF Holds
  <2>2. ASSUME NEW k \in Resources \ {m}
        PROVE  Holds(k)'
    BY <1>2, <2>2 DEF ReconcileInv, WorkerHolds, Holds
  <2> QED
    BY <2>1, <2>2 DEF WorkerHolds
<1>7. CreateIsRecoverable'
  BY <1>1, <1>2, <1>4 DEF ReconcileInv, CreateIsRecoverable
<1>8. CreatedAreHeld'
  BY <1>4 DEF ReconcileInv, CreatedAreHeld
<1> QED
  BY <1>5, <1>6, <1>7, <1>8 DEF ReconcileInv

\* A handler keeps it that touches no Kubernetes object, changes at most the
\* status and the phase of its own worker, and creates only when told to.
LEMMA HandlerKeeps ==
  ASSUME ReconcileInv, NEW m \in Resources,
         UNCHANGED <<api, cache, cacheCurrent>>,
         mgCurrent' \subseteq mgCurrent,
         pc[m] # "idle",
         \A k \in Resources \ {m} : mg'[k] = mg[k] /\ pc'[k] = pc[k],
         pc'[m] = "idle" \/ (/\ mg'[m].exists = mg[m].exists
                            /\ mg'[m].finalizer = mg[m].finalizer
                            /\ mg'[m].create = mg[m].create
                            /\ mg'[m].deleting = mg[m].deleting
                            /\ mg'[m].policy = mg[m].policy
                            /\ mg'[m].spec = mg[m].spec),
         pc'[m] = "idle" => m \notin mgCurrent',
         pc'[m] # "pending",
         pc'[m] = "finalizer" => pc[m] = "observe" /\ ~mg[m].deleting,
         pc'[m] = "release" => mg[m].deleting,
         pc'[m] \in {"connect", "observe"} => pc[m] \in {"connect", "observe"},
         pc'[m] \in {"create", "succeeded", "failed"} => pc[m] \in {"create", "succeeded", "failed"}
  PROVE  ReconcileInv'
<1>1. CurrentCopies'
  BY DEF ReconcileInv, CurrentCopies
<1>2. WorkerHolds'
  BY DEF ReconcileInv, WorkerHolds, Holds
<1>3. CreateIsRecoverable'
  BY DEF ReconcileInv, CreateIsRecoverable
<1>4. CreatedAreHeld'
  BY DEF ReconcileInv, CreatedAreHeld
<1> QED
  BY <1>1, <1>2, <1>3, <1>4 DEF ReconcileInv

\* Adding the finalizer keeps it: the creation that may follow has one.
LEMMA AddFinalizerKeeps ==
  ASSUME CommonTypeOK, ReconcileInv, NEW m \in Resources, AddFinalizerStep(m)
  PROVE  ReconcileInv'
<1> DEFINE o == [api[m] EXCEPT !.finalizer = TRUE]
<1>1. /\ goal[m] \in {"pending", "status", "update"} /\ mgCurrent' = mgCurrent
      /\ pc[m] = "finalizer" /\ pc'[m] \in {goal[m], "status"}
      /\ \A k \in Resources \ {m} : mg'[k] = mg[k] /\ pc'[k] = pc[k]
  BY DEF AddFinalizerStep, Goto, CommonTypeOK
<1>2. CASE Store(m, o) /\ m \in mgCurrent /\ mg' = [mg EXCEPT ![m] = api'[m]]
  <2>1. api[m] \in Managed
    BY DEF CommonTypeOK
  <2>2. o.exists = api[m].exists /\ o.create = api[m].create /\ o.finalizer
       /\ o.deleting = api[m].deleting
    BY <2>1 DEF Managed
  <2>3. /\ api'[m] = o /\ mg'[m] = o
        /\ \A k \in Resources \ {m} : api'[k] = api[k]
    BY <1>2 DEF Store, CommonTypeOK
  <2>4. \A k \in Resources : k \in cacheCurrent' => cache'[k] = api'[k]
    BY <1>2, <2>3 DEF Store, ReconcileInv, CurrentCopies
  <2>5. CurrentCopies'
    BY <1>1, <2>3, <2>4 DEF ReconcileInv, CurrentCopies
  <2>6. /\ mg'[m].exists /\ mg'[m].deleting = mg[m].deleting
        /\ mg'[m].create = mg[m].create
    BY <1>1, <1>2, <2>2, <2>3 DEF ReconcileInv, CurrentCopies, WorkerHolds, Holds
  <2>7. WorkerHolds'
    <3>1. Holds(m)'
      BY <1>1, <2>2, <2>3, <2>6 DEF ReconcileInv, WorkerHolds, Holds
    <3>2. ASSUME NEW k \in Resources \ {m}
          PROVE  Holds(k)'
      BY <1>1, <3>2 DEF ReconcileInv, WorkerHolds, Holds
    <3> QED
      BY <3>1, <3>2 DEF WorkerHolds
  <2>8. CreateIsRecoverable'
    BY <1>1, <2>2, <2>3 DEF ReconcileInv, CreateIsRecoverable
  <2>9. CreatedAreHeld'
    BY <2>2, <2>3 DEF ReconcileInv, CreatedAreHeld
  <2> QED
    BY <2>5, <2>7, <2>8, <2>9 DEF ReconcileInv
<1>3. CASE UNCHANGED <<kubeVars, mg>> /\ (mg[m].finalizer \/ pc'[m] = "status")
  <2>1. CurrentCopies'
    BY <1>1, <1>3 DEF kubeVars, ReconcileInv, CurrentCopies
  <2>2. WorkerHolds'
    BY <1>1, <1>3 DEF ReconcileInv, WorkerHolds, Holds
  <2>3. CreateIsRecoverable'
    BY <1>1, <1>3 DEF kubeVars, ReconcileInv, CreateIsRecoverable
  <2>4. CreatedAreHeld'
    BY <1>3 DEF kubeVars, ReconcileInv, CreatedAreHeld
  <2> QED
    BY <2>1, <2>2, <2>3, <2>4 DEF ReconcileInv
<1>4. pc' = [pc EXCEPT ![m] = "status"] => pc'[m] = "status"
  BY DEF CommonTypeOK
<1> QED
  BY <1>2, <1>3, <1>4 DEF AddFinalizerStep, Goto

\* Recording the attempt keeps it: only the latest version, which has the
\* finalizer, is marked.
LEMMA MarkPendingKeeps ==
  ASSUME CommonTypeOK, ReconcileInv, NEW m \in Resources, MarkPendingStep(m)
  PROVE  ReconcileInv'
<1> DEFINE o == [api[m] EXCEPT !.create = "pending"]
<1>1. /\ pc[m] = "pending" /\ pc'[m] \in {"create", "status"} /\ mgCurrent' = mgCurrent
      /\ \A k \in Resources \ {m} : mg'[k] = mg[k] /\ pc'[k] = pc[k]
  BY DEF MarkPendingStep, SetReady, Goto, CommonTypeOK
<1>2. CASE Store(m, o) /\ m \in mgCurrent /\ mg' = [mg EXCEPT ![m] = api'[m]]
  <2>1. api[m] \in Managed
    BY DEF CommonTypeOK
  <2>2. o.exists = api[m].exists /\ o.create = "pending" /\ o.finalizer = api[m].finalizer
       /\ o.deleting = api[m].deleting
    BY <2>1 DEF Managed
  <2>3. /\ api'[m] = o /\ mg'[m] = o
        /\ \A k \in Resources \ {m} : api'[k] = api[k]
    BY <1>2 DEF Store, CommonTypeOK
  <2>4. \A k \in Resources : k \in cacheCurrent' => cache'[k] = api'[k]
    BY <1>2, <2>3 DEF Store, ReconcileInv, CurrentCopies
  <2>5. CurrentCopies'
    BY <1>1, <2>3, <2>4 DEF ReconcileInv, CurrentCopies
  <2>6. o.exists /\ o.finalizer
    BY <1>1, <1>2, <2>2 DEF ReconcileInv, CurrentCopies, WorkerHolds, Holds
  <2>7. WorkerHolds'
    BY <1>1, <2>2, <2>3, <2>6 DEF ReconcileInv, WorkerHolds, Holds
  <2>8. CreateIsRecoverable'
    BY <1>1, <2>2, <2>3, <2>6 DEF ReconcileInv, CreateIsRecoverable
  <2>9. CreatedAreHeld'
    BY <2>3, <2>6 DEF ReconcileInv, CreatedAreHeld
  <2> QED
    BY <2>5, <2>7, <2>8, <2>9 DEF ReconcileInv
<1>3. CASE UNCHANGED kubeVars /\ SetReady(m, "Creating") /\ Goto(m, "status")
  <2>1. mg[m] \in Managed
    BY DEF CommonTypeOK
  <2>2. mg'[m] = [mg[m] EXCEPT !.ready = "Creating"] /\ pc'[m] = "status"
    BY <1>3 DEF SetReady, Goto, CommonTypeOK
  <2>3. /\ mg'[m].exists = mg[m].exists /\ mg'[m].finalizer = mg[m].finalizer
        /\ mg'[m].create = mg[m].create /\ mg'[m].deleting = mg[m].deleting
        /\ mg'[m].policy = mg[m].policy /\ mg'[m].spec = mg[m].spec
    BY <2>1, <2>2 DEF Managed
  <2> QED
    BY <1>1, <1>3, <2>2, <2>3, HandlerKeeps DEF kubeVars
<1> QED
  BY <1>2, <1>3 DEF MarkPendingStep

\* Recording the outcome keeps it.
LEMMA MarkOutcomeKeeps ==
  ASSUME CommonTypeOK, ReconcileInv, NEW m \in Resources, MarkOutcomeStep(m)
  PROVE  ReconcileInv'
<1> DEFINE o == [api[m] EXCEPT !.create = pc[m]]
<1>1. pc[m] \in {"succeeded", "failed"}
  BY DEF MarkOutcomeStep
<1>2. CASE /\ Store(m, o)
           /\ mg' = [mg EXCEPT ![m] = [api'[m] EXCEPT !.ready = "Creating"]]
           /\ mgCurrent' = mgCurrent \cup {m}
           /\ Goto(m, IF pc[m] = "succeeded" THEN "publish" ELSE "status")
  <2>1. api[m] \in Managed /\ o \in Managed
    BY <1>1, ManagedUpdates DEF CommonTypeOK
  <2>2. /\ api'[m] = o /\ mg'[m] = [o EXCEPT !.ready = "Creating"]
        /\ pc'[m] \in {"publish", "status"}
        /\ \A k \in Resources \ {m} : api'[k] = api[k] /\ mg'[k] = mg[k] /\ pc'[k] = pc[k]
    BY <1>2 DEF Store, Goto, CommonTypeOK
  <2>3. /\ o.exists = api[m].exists /\ mg'[m].exists = o.exists
        /\ mg'[m].finalizer = o.finalizer /\ mg'[m].create = o.create
        /\ mg'[m].deleting = o.deleting /\ o.finalizer = api[m].finalizer
        /\ mg'[m].spec = o.spec /\ mg'[m].policy = o.policy
    BY <2>1, <2>2 DEF Managed
  <2>4. \A k \in Resources : k \in cacheCurrent' => cache'[k] = api'[k]
    BY <1>2, <2>2 DEF Store, ReconcileInv, CurrentCopies
  <2>5. CurrentCopies'
    <3>1. /\ mg'[m].exists = api'[m].exists /\ mg'[m].finalizer = api'[m].finalizer
          /\ mg'[m].create = api'[m].create /\ mg'[m].deleting = api'[m].deleting
          /\ mg'[m].spec = api'[m].spec /\ mg'[m].policy = api'[m].policy
      BY <2>2, <2>3
    <3>2. \A k \in Resources \ {m} :
            /\ k \in mgCurrent' => k \in mgCurrent
            /\ api'[k] = api[k] /\ mg'[k] = mg[k]
      BY <1>2, <2>2
    <3>3. \A k \in Resources \ {m} : k \in mgCurrent' =>
            /\ mg'[k].exists = api'[k].exists /\ mg'[k].finalizer = api'[k].finalizer
            /\ mg'[k].create = api'[k].create /\ mg'[k].deleting = api'[k].deleting
            /\ mg'[k].spec = api'[k].spec /\ mg'[k].policy = api'[k].policy
      BY <3>2 DEF ReconcileInv, CurrentCopies
    <3> QED
      BY <2>4, <3>1, <3>3 DEF CurrentCopies
  <2>6. mg'[m].exists
    BY <1>1, <2>3 DEF ReconcileInv, CreateIsRecoverable
  <2>7. WorkerHolds'
    <3>1. Holds(m)'
      BY <2>2, <2>6 DEF Holds
    <3>2. ASSUME NEW k \in Resources \ {m}
          PROVE  Holds(k)'
      BY <2>2, <3>2 DEF ReconcileInv, WorkerHolds, Holds
    <3> QED
      BY <3>1, <3>2 DEF WorkerHolds
  <2>8. CreateIsRecoverable'
    BY <2>2 DEF ReconcileInv, CreateIsRecoverable
  <2>9. CreatedAreHeld'
    BY <1>1, <2>2, <2>3 DEF ReconcileInv, CreateIsRecoverable, CreatedAreHeld
  <2> QED
    BY <2>5, <2>7, <2>8, <2>9 DEF ReconcileInv
<1>3. CASE UNCHANGED <<kubeVars, mgCurrent>> /\ SetReady(m, "Creating") /\ Goto(m, "status")
  <2>1. mg[m] \in Managed
    BY DEF CommonTypeOK
  <2>2. /\ mg'[m] = [mg[m] EXCEPT !.ready = "Creating"] /\ pc'[m] = "status"
        /\ \A k \in Resources \ {m} : mg'[k] = mg[k] /\ pc'[k] = pc[k]
    BY <1>3 DEF SetReady, Goto, CommonTypeOK
  <2>3. /\ mg'[m].exists = mg[m].exists /\ mg'[m].finalizer = mg[m].finalizer
        /\ mg'[m].create = mg[m].create /\ mg'[m].deleting = mg[m].deleting
        /\ mg'[m].policy = mg[m].policy /\ mg'[m].spec = mg[m].spec
    BY <2>1, <2>2 DEF Managed
  <2> QED
    BY <1>1, <1>3, <2>2, <2>3, HandlerKeeps DEF kubeVars
<1> QED
  BY <1>2, <1>3 DEF MarkOutcomeStep

\* The end of a reconcile, whatever it stores for its own object, keeps it.
LEMMA FinishKeeps ==
  ASSUME CommonTypeOK, ReconcileInv, NEW m \in Resources, Finish(m),
         \/ UNCHANGED kubeVars
         \/ \E o \in Managed : Store(m, o) /\ (o.create # "never" => o.exists /\ o.finalizer),
         pc[m] \in {"release", "status"}
  PROVE  ReconcileInv'
<1>1. /\ pc'[m] = "idle" /\ mgCurrent' = mgCurrent \ {m}
      /\ \A k \in Resources \ {m} : mg'[k] = mg[k] /\ pc'[k] = pc[k]
  BY DEF Finish, Goto, CommonTypeOK
<1>2. /\ \A k \in Resources \ {m} : api'[k] = api[k]
      /\ \A k \in Resources : k \in cacheCurrent' => cache'[k] = api'[k]
  BY DEF Store, kubeVars, ReconcileInv, CurrentCopies, CommonTypeOK
<1>3. CurrentCopies'
  BY <1>1, <1>2 DEF ReconcileInv, CurrentCopies
<1>4. WorkerHolds'
  BY <1>1 DEF ReconcileInv, WorkerHolds, Holds
<1>5. CreateIsRecoverable'
  BY <1>1, <1>2 DEF ReconcileInv, CreateIsRecoverable
<1>6. CreatedAreHeld'
  BY <1>2 DEF Store, kubeVars, ReconcileInv, CreatedAreHeld, CommonTypeOK
<1> QED
  BY <1>3, <1>4, <1>5, <1>6 DEF ReconcileInv

\* Giving up the finalizer keeps it.
LEMMA RemoveFinalizerKeeps ==
  ASSUME CommonTypeOK, ReconcileInv, NEW m \in Resources, RemoveFinalizerStep(m)
  PROVE  ReconcileInv'
<1>1. pc[m] = "release"
  BY DEF RemoveFinalizerStep
<1>2. CASE Store(m, Blank) /\ Finish(m)
  <2>1. Blank.create = "never"
    BY DEF Blank
  <2> QED
    BY <1>1, <1>2, <2>1, BlankType, FinishKeeps
<1>3. CASE UNCHANGED <<kubeVars, mgCurrent>> /\ SetReady(m, "Deleting") /\ Goto(m, "status")
  <2>1. mg[m] \in Managed
    BY DEF CommonTypeOK
  <2>2. /\ mg'[m] = [mg[m] EXCEPT !.ready = "Deleting"] /\ pc'[m] = "status"
        /\ \A k \in Resources \ {m} : mg'[k] = mg[k] /\ pc'[k] = pc[k]
    BY <1>3 DEF SetReady, Goto, CommonTypeOK
  <2>3. /\ mg'[m].exists = mg[m].exists /\ mg'[m].finalizer = mg[m].finalizer
        /\ mg'[m].create = mg[m].create /\ mg'[m].deleting = mg[m].deleting
        /\ mg'[m].policy = mg[m].policy /\ mg'[m].spec = mg[m].spec
    BY <2>1, <2>2 DEF Managed
  <2> QED
    BY <1>1, <1>3, <2>2, <2>3, HandlerKeeps DEF kubeVars
<1> QED
  BY <1>2, <1>3 DEF RemoveFinalizerStep

\* Writing the status keeps it.
LEMMA UpdateStatusKeeps ==
  ASSUME CommonTypeOK, ReconcileInv, NEW m \in Resources, UpdateStatusStep(m)
  PROVE  ReconcileInv'
<1> DEFINE o == [api[m] EXCEPT !.ready = mg[m].ready, !.id = mg[m].id]
<1>1. o \in Managed
  <2>1. /\ api[m] \in Managed
        /\ mg[m].ready \in {"Unknown", "Creating", "Available", "Deleting"}
        /\ mg[m].id \in Nat
    BY DEF CommonTypeOK, Managed
  <2> QED
    BY <2>1, ManagedUpdates
<1>2. pc[m] = "status" /\ Finish(m) /\ (UNCHANGED kubeVars \/ Store(m, o))
  BY DEF UpdateStatusStep
<1>3. /\ o.create = api[m].create /\ o.finalizer = api[m].finalizer
      /\ o.exists = api[m].exists
  BY DEF CommonTypeOK, Managed
<1>4. o.create # "never" => o.exists /\ o.finalizer
  BY <1>3 DEF ReconcileInv, CreatedAreHeld
<1> QED
  BY <1>1, <1>2, <1>4, FinishKeeps

\* The informer catching up keeps it.
LEMMA CacheSyncKeeps ==
  ASSUME CommonTypeOK, ReconcileInv, NEW m \in Resources, CacheSyncStep(m)
  PROVE  ReconcileInv'
<1>1. UNCHANGED <<api, pc, mg, mgCurrent>>
  BY DEF CacheSyncStep, workerVars
<1>2. \A k \in Resources : k \in cacheCurrent' => cache'[k] = api'[k]
  BY DEF CacheSyncStep, ReconcileInv, CurrentCopies, CommonTypeOK
<1> QED
  BY <1>1, <1>2 DEF ReconcileInv, CurrentCopies, WorkerHolds, Holds, CreateIsRecoverable, CreatedAreHeld

\* What a user stores makes the worker's copy old; it keeps the invariant when
\* it takes no finalizer from an object and its creation annotations stay.
LEMMA UserStoresKeeps ==
  ASSUME CommonTypeOK, ReconcileInv, NEW m \in Resources, NEW o \in Managed, UserStores(m, o),
         api[m].exists /\ api[m].finalizer =>
           o.exists /\ o.finalizer /\ o.create = api[m].create,
         o.create # "never" => o.exists /\ o.finalizer
  PROVE  ReconcileInv'
<1>1. /\ UNCHANGED <<pc, mg>> /\ mgCurrent' = mgCurrent \ {m} /\ api'[m] = o
      /\ \A k \in Resources \ {m} : api'[k] = api[k]
  BY DEF UserStores, Store, CommonTypeOK
<1>2. \A k \in Resources : k \in cacheCurrent' => cache'[k] = api'[k]
  BY <1>1 DEF UserStores, Store, ReconcileInv, CurrentCopies
<1>3. CurrentCopies'
  BY <1>1, <1>2 DEF ReconcileInv, CurrentCopies
<1>4. WorkerHolds'
  BY <1>1 DEF ReconcileInv, WorkerHolds, Holds
<1>5. CreateIsRecoverable'
  BY <1>1 DEF ReconcileInv, CreateIsRecoverable
<1>6. CreatedAreHeld'
  BY <1>1 DEF ReconcileInv, CreatedAreHeld
<1> QED
  BY <1>3, <1>4, <1>5, <1>6 DEF ReconcileInv

\* Users keep it.
LEMMA UserKeeps ==
  ASSUME CommonTypeOK, ReconcileInv, NEW m \in Resources,
         UserCreatesStep(m) \/ UserEditsStep(m) \/ UserDeletesStep(m)
  PROVE  ReconcileInv'
<1>1. api[m] \in Managed
  BY DEF CommonTypeOK
<1>2. CASE UserCreatesStep(m)
  <2>1. \A s \in Specs, p \in {"Delete", "Orphan"} :
          /\ [Blank EXCEPT !.exists = TRUE, !.spec = s, !.policy = p] \in Managed
          /\ [Blank EXCEPT !.exists = TRUE, !.spec = s, !.policy = p].create = "never"
    BY BlankType DEF Managed, Blank
  <2>2. ~api[m].exists
    BY <1>2 DEF UserCreatesStep
  <2> QED
    BY <1>2, <2>1, <2>2, UserStoresKeeps DEF UserCreatesStep
<1>3. CASE UserEditsStep(m)
  <2>1. \A s \in Specs, p \in {"Delete", "Orphan"} :
          /\ [api[m] EXCEPT !.spec = s, !.policy = p].exists = api[m].exists
          /\ [api[m] EXCEPT !.spec = s, !.policy = p].finalizer = api[m].finalizer
          /\ [api[m] EXCEPT !.spec = s, !.policy = p].create = api[m].create
    BY <1>1 DEF Managed
  <2>2. \A s \in Specs, p \in {"Delete", "Orphan"} :
          [api[m] EXCEPT !.spec = s, !.policy = p] \in Managed
    BY <1>1, ManagedUpdates
  <2> QED
    BY <1>3, <2>1, <2>2, UserStoresKeeps DEF UserEditsStep, ReconcileInv, CreatedAreHeld
<1>4. CASE UserDeletesStep(m)
  <2> DEFINE o == [api[m] EXCEPT !.deleting = TRUE]
  <2>1. /\ o.exists = api[m].exists /\ o.finalizer = api[m].finalizer
        /\ o.create = api[m].create
    BY <1>1 DEF Managed
  <2>2. o \in Managed
    BY <1>1, ManagedUpdates
  <2>3. CASE api[m].finalizer
    BY <1>4, <2>1, <2>2, <2>3, UserStoresKeeps DEF UserDeletesStep
  <2>4. CASE ~api[m].finalizer
    <3>1. Blank.create = "never"
      BY DEF Blank
    <3> QED
      BY <1>4, <2>4, <3>1, BlankType, UserStoresKeeps DEF UserDeletesStep
  <2> QED
    BY <2>3, <2>4
<1> QED
  BY <1>2, <1>3, <1>4

\* A restart keeps it.
LEMMA CrashKeeps ==
  ASSUME CommonTypeOK, ReconcileInv, CrashStep
  PROVE  ReconcileInv'
  BY DEF CrashStep, kubeVars, ReconcileInv, CurrentCopies, WorkerHolds, Holds, CreateIsRecoverable,
         CreatedAreHeld

\* What happens in Central alone keeps it.
LEMMA ElsewhereKeeps ==
  ASSUME ReconcileInv, UNCHANGED <<kubeVars, workerVars>>
  PROVE  ReconcileInv'
  BY DEF kubeVars, workerVars, ReconcileInv, CurrentCopies, WorkerHolds, Holds, CreateIsRecoverable,
         CreatedAreHeld

\* A step away from Central changes no name.
LEMMA ElsewhereKeepsNames ==
  ASSUME IdentifiersKeepNames, UNCHANGED centralVars
  PROVE  /\ IdentifiersKeepNames'
         /\ \A i \in Nat : \A n : Denotes(i, n) => Denotes(i, n)'
  BY DEF centralVars, IdentifiersKeepNames, Denotes

\* What the reconciler itself does to its worker: only that worker moves, and
\* not to a handler that writes to Central by identifier.
LEMMA SharedStepMoves ==
  ASSUME CommonTypeOK, NEW m \in Resources,
         \/ BeginStep(m) \/ AddFinalizerStep(m) \/ MarkPendingStep(m) \/ MarkOutcomeStep(m)
         \/ RemoveFinalizerStep(m) \/ UpdateStatusStep(m)
  PROVE  /\ UNCHANGED centralVars
         /\ pc'[m] \notin {"put", "delete"}
         /\ \A k \in Resources \ {m} : mg'[k] = mg[k] /\ pc'[k] = pc[k]
<1>1. CASE BeginStep(m)
  BY <1>1 DEF BeginStep, Goto, CommonTypeOK
<1>2. CASE AddFinalizerStep(m)
  <2>1. goal[m] \in {"pending", "status", "update"}
    BY DEF CommonTypeOK
  <2> QED
    BY <1>2, <2>1 DEF AddFinalizerStep, Goto, CommonTypeOK
<1>3. CASE MarkPendingStep(m)
  BY <1>3 DEF MarkPendingStep, SetReady, Goto, CommonTypeOK
<1>4. CASE MarkOutcomeStep(m)
  BY <1>4 DEF MarkOutcomeStep, SetReady, Goto, CommonTypeOK
<1>5. CASE RemoveFinalizerStep(m)
  BY <1>5 DEF RemoveFinalizerStep, Finish, SetReady, Goto, CommonTypeOK
<1>6. CASE UpdateStatusStep(m)
  BY <1>6 DEF UpdateStatusStep, Finish, Goto, CommonTypeOK
<1> QED
  BY <1>1, <1>2, <1>3, <1>4, <1>5, <1>6

\* None of them decides on an update: they drop what Observe decided or follow
\* it.
LEMMA SharedStepGoals ==
  ASSUME CommonTypeOK, NEW m \in Resources,
         \/ BeginStep(m) \/ AddFinalizerStep(m) \/ MarkPendingStep(m) \/ MarkOutcomeStep(m)
         \/ RemoveFinalizerStep(m) \/ UpdateStatusStep(m)
  PROVE  /\ \A k \in Resources : goal'[k] \in {goal[k], "status"}
         /\ pc'[m] = "update" => goal[m] = "update"
<1>1. CASE BeginStep(m)
  BY <1>1 DEF BeginStep, Goto, CommonTypeOK
<1>2. CASE AddFinalizerStep(m)
  BY <1>2 DEF AddFinalizerStep, Goto, CommonTypeOK
<1>3. CASE MarkPendingStep(m)
  BY <1>3 DEF MarkPendingStep, Goto, CommonTypeOK
<1>4. CASE MarkOutcomeStep(m)
  BY <1>4 DEF MarkOutcomeStep, Goto, CommonTypeOK
<1>5. CASE RemoveFinalizerStep(m)
  BY <1>5 DEF RemoveFinalizerStep, Finish, Goto, CommonTypeOK
<1>6. CASE UpdateStatusStep(m)
  BY <1>6 DEF UpdateStatusStep, Finish, Goto, CommonTypeOK
<1> QED
  BY <1>1, <1>2, <1>3, <1>4, <1>5, <1>6

-----------------------------------------------------------------------------
(***************************************************************************)
(* What the handlers do to the memory of their worker.                     *)
(***************************************************************************)

\* The worker of m holds the same object but for its status; so do the others.
SameButStatus(m) ==
  /\ mg'[m].exists = mg[m].exists /\ mg'[m].finalizer = mg[m].finalizer
  /\ mg'[m].create = mg[m].create /\ mg'[m].deleting = mg[m].deleting
  /\ mg'[m].policy = mg[m].policy /\ mg'[m].spec = mg[m].spec
  /\ \A k \in Resources \ {m} : mg'[k] = mg[k]

\* Nothing is written to it.
LEMMA MemoryUnchanged ==
  ASSUME NEW m \in Resources, mg' = mg
  PROVE  SameButStatus(m)
  BY DEF SameButStatus

\* A condition is set.
LEMMA MemoryReady ==
  ASSUME CommonTypeOK, NEW m \in Resources, NEW x, mg' = [mg EXCEPT ![m].ready = x]
  PROVE  SameButStatus(m)
<1>1. mg \in [Resources -> Managed] /\ mg[m] \in Managed
  BY DEF CommonTypeOK
<1>2. mg'[m] = [mg[m] EXCEPT !.ready = x]
  BY <1>1
<1> QED
  BY <1>1, <1>2 DEF SameButStatus, Managed

\* The observation is stored.
LEMMA MemoryId ==
  ASSUME CommonTypeOK, NEW m \in Resources, NEW i, mg' = [mg EXCEPT ![m].id = i]
  PROVE  SameButStatus(m)
<1>1. mg \in [Resources -> Managed] /\ mg[m] \in Managed
  BY DEF CommonTypeOK
<1>2. mg'[m] = [mg[m] EXCEPT !.id = i]
  BY <1>1
<1> QED
  BY <1>1, <1>2 DEF SameButStatus, Managed

\* Both happen.
LEMMA MemoryStatus ==
  ASSUME CommonTypeOK, NEW m \in Resources, NEW x, NEW i,
         mg' = [mg EXCEPT ![m].ready = x, ![m].id = i]
  PROVE  SameButStatus(m)
<1>1. mg \in [Resources -> Managed] /\ mg[m] \in Managed
  BY DEF CommonTypeOK
<1>2. mg'[m] = [mg[m] EXCEPT !.ready = x, !.id = i]
  BY <1>1
<1> QED
  BY <1>1, <1>2 DEF SameButStatus, Managed

\* A handler that changes at most the status and the phase of its worker, and
\* creates only when told to, keeps the invariant of the reconciler.
LEMMA StatusOnly ==
  ASSUME CommonTypeOK, ReconcileInv, NEW m \in Resources, SameButStatus(m),
         UNCHANGED kubeVars, UNCHANGED mgCurrent,
         pc[m] # "idle", NEW phase, pc' = [pc EXCEPT ![m] = phase],
         phase \notin {"idle", "pending", "create"},
         phase \in {"connect", "observe"} => pc[m] = "connect",
         phase = "finalizer" => pc[m] = "observe" /\ ~mg[m].deleting,
         phase = "release" => mg[m].deleting,
         phase \in {"succeeded", "failed"} => pc[m] = "create"
  PROVE  /\ ReconcileInv'
         /\ pc'[m] = phase
         /\ \A k \in Resources \ {m} : mg'[k] = mg[k] /\ pc'[k] = pc[k]
<1>1. pc'[m] = phase /\ \A k \in Resources \ {m} : mg'[k] = mg[k] /\ pc'[k] = pc[k]
  BY DEF CommonTypeOK, SameButStatus
<1> QED
  BY <1>1, HandlerKeeps DEF kubeVars, SameButStatus

-----------------------------------------------------------------------------
(***************************************************************************)
(* What Central makes, and for whom.                                       *)
(***************************************************************************)

\* Everything Central has for k it had before, under that name.
NothingNewFor(k) ==
  \A d \in central' : d.by = k =>
    \E c \in central : c.id = d.id /\ c.by = k /\ c.spec.name = d.spec.name

\* A step that leaves Central alone makes nothing.
LEMMA UnchangedMakesNothing ==
  ASSUME UNCHANGED central
  PROVE  \A k : NothingNewFor(k)
  BY DEF NothingNewFor

\* What Central serves once it makes for the one who asks, with a new
\* identifier and the name that was asked for.
LEMMA ServeMakesFor ==
  ASSUME CommonTypeOK, NEW r \in Request, Serve(r),
         r.op = "put" => Denotes(r.id, r.spec.name)
  PROVE  /\ \A k : r.op # "post" \/ k # r.by => NothingNewFor(k)
         /\ \A d \in central' :
              \/ \E c \in central : c.id = d.id /\ c.by = d.by /\ c.spec.name = d.spec.name
              \/ r.op = "post" /\ d.id = nextId /\ nextId' = nextId + 1 /\ d.by = r.by
<1> DEFINE Had(d) == \E c \in central : c.id = d.id /\ c.by = d.by /\ c.spec.name = d.spec.name
           edited(c) == IF c.id = r.id THEN [c EXCEPT !.spec = r.spec, !.extra = r.extra] ELSE c
<1>1. \A d \in central' : \/ Had(d)
                          \/ r.op = "post" /\ d.id = nextId /\ nextId' = nextId + 1 /\ d.by = r.by
  <2>1. CASE ServePost(r)
    BY <2>1 DEF ServePost
  <2>2. CASE ServePut(r)
    <3> SUFFICES ASSUME NEW d \in central'
                 PROVE  Had(d)
      OBVIOUS
    <3>1. PICK c \in central : d = edited(c)
      BY <2>2 DEF ServePut
    <3>2. c \in External
      BY DEF CommonTypeOK
    <3>3. d.id = c.id /\ d.by = c.by /\ (c.id = r.id => d.spec = r.spec) /\ (c.id # r.id => d = c)
      BY <3>1, <3>2 DEF External
    <3>4. c.id = r.id => c.spec.name = r.spec.name
      BY <2>2 DEF ServePut, Denotes
    <3> QED
      BY <3>3, <3>4
  <2>3. CASE ServeDelete(r)
    BY <2>3 DEF ServeDelete
  <2> QED
    BY <2>1, <2>2, <2>3 DEF Serve
<1> QED
  BY <1>1 DEF NothingNewFor

\* So it does when it serves every attempt of a call.
LEMMA ServeRepeatedlyMakesFor ==
  ASSUME NEW r \in Request, ServeRepeatedly(r)
  PROVE  r.op = "post" /\ \A k : k # r.by => NothingNewFor(k)
<1>1. PICK last \in nextId + 1 .. nextId + MaxAttempts - 1 :
        central' = central \cup {[id |-> i, spec |-> r.spec, extra |-> r.extra, by |-> r.by] :
                                 i \in nextId .. last}
  BY DEF ServeRepeatedly
<1>2. \A d \in central' : d \in central \/ d.by = r.by
  BY <1>1
<1> QED
  BY <1>2 DEF ServeRepeatedly, NothingNewFor

\* However a call ends, it makes something for its caller alone, and only if it
\* asks for that.
LEMMA CallMakesFor ==
  ASSUME CommonTypeOK, NEW r \in Request, CallSucceeds(r) \/ CallFails(r),
         r.op = "put" => Denotes(r.id, r.spec.name)
  PROVE  \A k : r.op # "post" \/ k # r.by => NothingNewFor(k)
<1>1. Serve(r) \/ ServeRepeatedly(r) \/ UNCHANGED central
  BY DEF CallSucceeds, CallFails, centralVars
<1> QED
  BY <1>1, ServeMakesFor, ServeRepeatedlyMakesFor, UnchangedMakesNothing

\* Other users of Central make nothing for a resource.
LEMMA AdminMakesFor ==
  ASSUME CommonTypeOK, IdentifiersKeepNames, AdminStep
  PROVE  \A k \in Resources : NothingNewFor(k)
<1>1. PICK r \in AdminRequests :
        /\ r.op = "put" => \E c \in central : c.id = r.id /\ c.spec.name = r.spec.name
        /\ Serve(r)
  BY DEF AdminStep
<1>2. r \in Request /\ r.by = Admin
  BY AdminRequestsType DEF AdminRequests
<1>3. r.op = "put" => Denotes(r.id, r.spec.name)
  BY <1>1 DEF IdentifiersKeepNames, Denotes
<1> QED
  BY <1>1, <1>2, <1>3, ServeMakesFor, ReconcilerAssumption

\* Whatever reaches Central: what it has is new, or was there before, under the
\* same identifier and name and made for the same one.
LEMMA MakersStay ==
  ASSUME CommonTypeOK, IdentifiersKeepNames,
         \/ \E r \in Request : /\ CallSucceeds(r) \/ CallFails(r)
                               /\ r.op = "put" => Denotes(r.id, r.spec.name)
         \/ AdminStep \/ ArriveStep \/ UNCHANGED central
  PROVE  \A d \in central' :
           \/ d.id \in Nat /\ d.id >= nextId
           \/ \E c \in central : c.id = d.id /\ c.by = d.by /\ c.spec.name = d.spec.name
<1>0. nextId \in Nat
  BY DEF CommonTypeOK
<1> DEFINE Known(d) ==
             \/ d.id \in Nat /\ d.id >= nextId
             \/ \E c \in central : c.id = d.id /\ c.by = d.by /\ c.spec.name = d.spec.name
<1> SUFFICES \A d \in central' : Known(d)
  OBVIOUS
<1>1. ASSUME NEW r \in Request, Serve(r), r.op = "put" => Denotes(r.id, r.spec.name)
      PROVE  \A d \in central' : Known(d)
  BY <1>0, <1>1, ServeMakesFor
<1>2. ASSUME NEW r, ServeRepeatedly(r)
      PROVE  \A d \in central' : Known(d)
  <2>1. PICK last \in nextId + 1 .. nextId + MaxAttempts - 1 :
          central' = central \cup {[id |-> i, spec |-> r.spec, extra |-> r.extra, by |-> r.by] :
                                   i \in nextId .. last}
    BY <1>2 DEF ServeRepeatedly
  <2>2. \A d \in central' : d \in central \/ d.id \in nextId .. last
    BY <2>1
  <2> QED
    BY <1>0, <2>2
<1>3. UNCHANGED central => \A d \in central' : Known(d)
  OBVIOUS
<1> HIDE DEF Known
<1>4. CASE \E r \in Request : /\ CallSucceeds(r) \/ CallFails(r)
                              /\ r.op = "put" => Denotes(r.id, r.spec.name)
  <2>1. PICK r \in Request : /\ CallSucceeds(r) \/ CallFails(r)
                             /\ r.op = "put" => Denotes(r.id, r.spec.name)
    BY <1>4
  <2>2. Serve(r) \/ ServeRepeatedly(r) \/ UNCHANGED central
    BY <2>1 DEF CallSucceeds, CallFails, centralVars
  <2> QED
    BY <1>1, <1>2, <1>3, <2>1, <2>2
<1>5. CASE AdminStep
  <2>1. PICK r \in AdminRequests :
          /\ r.op = "put" => \E c \in central : c.id = r.id /\ c.spec.name = r.spec.name
          /\ Serve(r)
    BY <1>5 DEF AdminStep
  <2>2. r \in Request
    BY AdminRequestsType
  <2>3. r.op = "put" => Denotes(r.id, r.spec.name)
    BY <2>1 DEF IdentifiersKeepNames, Denotes
  <2> QED
    BY <1>1, <2>1, <2>2, <2>3
<1>6. CASE ArriveStep
  <2>1. PICK r \in wire : Serve(r) \/ UNCHANGED <<central, nextId>>
    BY <1>6 DEF ArriveStep
  <2>2. r \in Request /\ (r.op = "put" => Denotes(r.id, r.spec.name))
    BY DEF CommonTypeOK, IdentifiersKeepNames
  <2> QED
    BY <1>1, <1>3, <2>1, <2>2
<1> QED
  BY <1>3, <1>4, <1>5, <1>6

\* A put or a delete that Central serves once more, for another attempt of the
\* same call, changes nothing: only what a repeated post comes to has to be
\* modelled.
THEOREM RepeatsChangeNothing ==
  ASSUME CommonTypeOK, NEW r \in Request, ServePut(r) \/ ServeDelete(r)
  PROVE  /\ UNCHANGED nextId
         /\ r.op = "put" =>
              {IF c.id = r.id THEN [c EXCEPT !.spec = r.spec, !.extra = r.extra] ELSE c :
                 c \in central'} = central'
         /\ r.op = "delete" => {c \in central' : c.id # r.id} = central'
<1> DEFINE edited(c) == IF c.id = r.id THEN [c EXCEPT !.spec = r.spec, !.extra = r.extra] ELSE c
<1>1. CASE ServePut(r)
  <2>1. \A c \in central' : edited(c) = c
    <3> SUFFICES ASSUME NEW c \in central'
                 PROVE  edited(c) = c
      OBVIOUS
    <3>1. PICK b \in central : c = edited(b)
      BY <1>1 DEF ServePut
    <3>2. b \in External
      BY DEF CommonTypeOK
    <3>3. CASE b.id = r.id
      BY <3>1, <3>2, <3>3 DEF External
    <3>4. CASE b.id # r.id
      BY <3>1, <3>4
    <3> QED
      BY <3>3, <3>4
  <2> HIDE DEF edited
  <2>2. {edited(c) : c \in central'} = central'
    BY <2>1
  <2>3. r.op = "put" /\ UNCHANGED nextId
    BY <1>1 DEF ServePut
  <2> QED
    BY <2>2, <2>3 DEF edited
<1>2. CASE ServeDelete(r)
  BY <1>2 DEF ServeDelete
<1> QED
  BY <1>1, <1>2

\* A put writes to one object and leaves the others as they are.
LEMMA PutEditsOne ==
  ASSUME CommonTypeOK, IdentifiersKeepNames, NEW r \in Request, r.op = "put",
         CallSucceeds(r) \/ CallFails(r),
         NEW c \in central, NEW d \in central', c.id = d.id
  PROVE  d = c \/ (d.id = r.id /\ d.spec = r.spec /\ d.extra = r.extra)
<1> DEFINE edited(e) == IF e.id = r.id THEN [e EXCEPT !.spec = r.spec, !.extra = r.extra] ELSE e
<1>1. ServePut(r) \/ UNCHANGED central
  BY DEF CallSucceeds, CallFails, Serve, ServeRepeatedly, ServePost, ServeDelete, centralVars
<1>2. \A a, b \in central : a.id = b.id => a = b
  BY DEF IdentifiersKeepNames
<1>3. CASE ServePut(r)
  <2>1. PICK e \in central : d = edited(e)
    BY <1>3 DEF ServePut
  <2>2. e \in External
    BY DEF CommonTypeOK
  <2>3. d.id = e.id /\ (e.id = r.id => d.spec = r.spec /\ d.extra = r.extra) /\ (e.id # r.id => d = e)
    BY <2>1, <2>2 DEF External
  <2> QED
    BY <1>2, <2>3
<1>4. CASE UNCHANGED central
  BY <1>2, <1>4
<1> QED
  BY <1>1, <1>3, <1>4

-----------------------------------------------------------------------------
(***************************************************************************)
(* What Observe has missed stays missing until the worker has acted on it. *)
(***************************************************************************)

\* What the other workers have missed is missing, unless something is made for
\* them; and of this worker, when it has missed nothing or just looked.
LEMMA MissedKeeps ==
  ASSUME MissedIsMissing, NEW m \in Resources,
         \A k \in Resources \ {m} : /\ mg'[k] = mg[k] /\ pc'[k] = pc[k] /\ goal'[k] = goal[k]
                                    /\ NothingNewFor(k),
         Missed(m)' => \A c \in central' : c.by = m => c.spec.name # mg'[m].spec.name
  PROVE  MissedIsMissing'
<1> SUFFICES ASSUME NEW k \in Resources \ {m}, Missed(k)', NEW c \in central', c.by = k
             PROVE  c.spec.name # mg'[k].spec.name
  BY DEF MissedIsMissing
<1>1. Missed(k)
  BY DEF Missed
<1>2. PICK d \in central : d.by = k /\ d.spec.name = c.spec.name
  BY DEF NothingNewFor
<1> QED
  BY <1>1, <1>2 DEF MissedIsMissing

\* It is missing as well when no worker moves.
LEMMA MissedStays ==
  ASSUME MissedIsMissing, UNCHANGED <<pc, mg, goal>>, \A k \in Resources : NothingNewFor(k)
  PROVE  MissedIsMissing'
  BY DEF MissedIsMissing, Missed, NothingNewFor

\* The reconciler's own steps pass on what Observe has missed, under the same
\* name: the finalizer and the record are written to the version that was read.
LEMMA SharedStepMissed ==
  ASSUME CommonTypeOK, ReconcileInv, MissedIsMissing, NEW m \in Resources,
         \/ BeginStep(m) \/ AddFinalizerStep(m) \/ MarkPendingStep(m) \/ MarkOutcomeStep(m)
         \/ RemoveFinalizerStep(m) \/ UpdateStatusStep(m)
  PROVE  MissedIsMissing'
<1>1. /\ UNCHANGED central
      /\ \A k \in Resources \ {m} : mg'[k] = mg[k] /\ pc'[k] = pc[k]
  BY SharedStepMoves DEF centralVars
<1>2. \A k \in Resources \ {m} : goal'[k] = goal[k]
  BY DEF BeginStep, AddFinalizerStep, MarkPendingStep, MarkOutcomeStep, RemoveFinalizerStep,
         UpdateStatusStep, Finish, CommonTypeOK
<1>3. Missed(m)' => Missed(m) /\ mg'[m].spec = mg[m].spec
  <2>0. api[m] \in Managed /\ mg[m] \in Managed
    BY DEF CommonTypeOK
  <2>1. CASE BeginStep(m)
    BY <2>1 DEF BeginStep, Goto, Missed, CommonTypeOK
  <2>2. CASE AddFinalizerStep(m)
    <3>1. /\ pc[m] = "finalizer" /\ pc'[m] \in {goal[m], "status"}
          /\ goal[m] \in {"pending", "status", "update"}
      BY <2>2 DEF AddFinalizerStep, Goto, CommonTypeOK
    <3>2. mg' = mg \/ (m \in mgCurrent /\ mg'[m].spec = api[m].spec)
      BY <2>0, <2>2 DEF AddFinalizerStep, Store, Managed, CommonTypeOK
    <3> QED
      BY <3>1, <3>2 DEF Missed, ReconcileInv, CurrentCopies
  <2>3. CASE MarkPendingStep(m)
    <3>1. pc[m] = "pending" /\ pc'[m] \in {"create", "status"}
      BY <2>3 DEF MarkPendingStep, Goto, CommonTypeOK
    <3>2. pc'[m] = "create" => m \in mgCurrent /\ mg'[m].spec = api[m].spec
      BY <2>0, <2>3 DEF MarkPendingStep, Store, Goto, Managed, CommonTypeOK
    <3> QED
      BY <3>1, <3>2 DEF Missed, ReconcileInv, CurrentCopies
  <2>4. CASE MarkOutcomeStep(m)
    BY <2>4 DEF MarkOutcomeStep, Goto, Missed, CommonTypeOK
  <2>5. CASE RemoveFinalizerStep(m)
    BY <2>5 DEF RemoveFinalizerStep, Finish, Goto, Missed, CommonTypeOK
  <2>6. CASE UpdateStatusStep(m)
    BY <2>6 DEF UpdateStatusStep, Finish, Goto, Missed, CommonTypeOK
  <2> QED
    BY <2>1, <2>2, <2>3, <2>4, <2>5, <2>6
<1>4. \A k : NothingNewFor(k)
  BY <1>1, UnchangedMakesNothing
<1> QED
  BY <1>1, <1>2, <1>3, <1>4, MissedKeeps DEF MissedIsMissing

\* A restart forgets what was missed.
LEMMA CrashMissed ==
  ASSUME CrashStep
  PROVE  MissedIsMissing'
  BY DEF CrashStep, MissedIsMissing, Missed

\* What lets an object go that has a finalizer is a worker that missed, in the
\* version that goes, everything made for it.
LEMMA OnlyMissedLeave ==
  ASSUME CommonTypeOK, ReconcileInv, MissedIsMissing, NEW m \in Resources,
         \/ BeginStep(m) \/ AddFinalizerStep(m) \/ MarkPendingStep(m) \/ MarkOutcomeStep(m)
         \/ RemoveFinalizerStep(m) \/ UpdateStatusStep(m) \/ CacheSyncStep(m)
         \/ UserCreatesStep(m) \/ UserEditsStep(m) \/ UserDeletesStep(m),
         NEW k \in Resources, api[k].exists, ~api'[k].exists, api[k].finalizer,
         api[k].policy = "Delete"
  PROVE  \A c \in central' : c.by = k => c.spec.name # api[k].spec.name
<1>0. api[m] \in Managed
  BY DEF CommonTypeOK
<1>1. CASE RemoveFinalizerStep(m)
  <2>1. k = m /\ m \in mgCurrent /\ pc[m] = "release" /\ UNCHANGED central
    BY <1>1 DEF RemoveFinalizerStep, Store, kubeVars, centralVars, CommonTypeOK
  <2>2. mg[m].policy = "Delete" /\ mg[m].spec = api[m].spec
    BY <2>1 DEF ReconcileInv, CurrentCopies
  <2> QED
    BY <2>1, <2>2 DEF MissedIsMissing, Missed
<1>2. CASE UserDeletesStep(m)
  BY <1>0, <1>2 DEF UserDeletesStep, UserStores, Store, Managed, CommonTypeOK
<1>3. CASE ~RemoveFinalizerStep(m) /\ ~UserDeletesStep(m)
  <2>1. ASSUME NEW o, Store(m, o), o.exists = api[m].exists
        PROVE  api'[k].exists
    BY <2>1 DEF Store, CommonTypeOK
  <2>2. CASE UNCHANGED api
    BY <2>2
  <2>3. CASE UserCreatesStep(m)
    BY <2>3, BlankType DEF UserCreatesStep, UserStores, Store, Managed, CommonTypeOK
  <2>4. CASE UserEditsStep(m)
    <3>1. PICK s \in Specs, p \in {"Delete", "Orphan"} :
            Store(m, [api[m] EXCEPT !.spec = s, !.policy = p])
      BY <2>4 DEF UserEditsStep, UserStores
    <3>2. [api[m] EXCEPT !.spec = s, !.policy = p].exists = api[m].exists
      BY <1>0 DEF Managed
    <3> QED
      BY <2>1, <3>1, <3>2
  <2>5. /\ [api[m] EXCEPT !.finalizer = TRUE].exists = api[m].exists
        /\ [api[m] EXCEPT !.create = "pending"].exists = api[m].exists
        /\ [api[m] EXCEPT !.create = pc[m]].exists = api[m].exists
        /\ [api[m] EXCEPT !.ready = mg[m].ready, !.id = mg[m].id].exists = api[m].exists
    BY <1>0 DEF Managed
  <2>6. \/ UNCHANGED api
        \/ Store(m, [api[m] EXCEPT !.finalizer = TRUE])
        \/ Store(m, [api[m] EXCEPT !.create = "pending"])
        \/ Store(m, [api[m] EXCEPT !.create = pc[m]])
        \/ Store(m, [api[m] EXCEPT !.ready = mg[m].ready, !.id = mg[m].id])
        \/ UserCreatesStep(m) \/ UserEditsStep(m)
    BY <1>3 DEF BeginStep, CacheSyncStep, AddFinalizerStep, MarkPendingStep, MarkOutcomeStep,
      UpdateStatusStep, kubeVars
  <2> QED
    BY <2>1, <2>2, <2>3, <2>4, <2>5, <2>6
<1> QED
  BY <1>1, <1>2, <1>3

\* What a call makes has its caller and what was asked for.
LEMMA CallMakesAsked ==
  ASSUME CommonTypeOK, NEW r \in Request, CallSucceeds(r) \/ CallFails(r),
         r.op = "put" => Denotes(r.id, r.spec.name)
  PROVE  \A d \in central' :
           \/ \E c \in central : c.id = d.id /\ c.by = d.by /\ c.spec.name = d.spec.name
           \/ r.op = "post" /\ d.by = r.by /\ d.spec = r.spec
<1>1. CASE ServePost(r)
  BY <1>1 DEF ServePost
<1>2. CASE Serve(r) /\ r.op # "post"
  BY <1>2, ServeMakesFor
<1>3. CASE ServeRepeatedly(r)
  <2>1. PICK last \in nextId + 1 .. nextId + MaxAttempts - 1 :
          central' = central \cup {[id |-> i, spec |-> r.spec, extra |-> r.extra, by |-> r.by] :
                                   i \in nextId .. last}
    BY <1>3 DEF ServeRepeatedly
  <2>2. \A d \in central' : d \in central \/ (d.spec = r.spec /\ d.by = r.by)
    BY <2>1
  <2> QED
    BY <1>3, <2>2 DEF ServeRepeatedly
<1>4. CASE UNCHANGED central
  BY <1>4
<1> QED
  BY <1>1, <1>2, <1>3, <1>4
  DEF CallSucceeds, CallFails, Serve, ServePut, ServeDelete, centralVars

\* What others do in Central makes nothing that is not theirs.
LEMMA AdminMakesOwn ==
  ASSUME CommonTypeOK, IdentifiersKeepNames, AdminStep
  PROVE  \A d \in central' :
           \/ \E c \in central : c.id = d.id /\ c.by = d.by /\ c.spec.name = d.spec.name
           \/ d.by = Admin
<1>1. PICK r \in AdminRequests :
        /\ r.op = "put" => \E c \in central : c.id = r.id /\ c.spec.name = r.spec.name
        /\ Serve(r)
  BY DEF AdminStep
<1>2. r \in Request /\ r.by = Admin
  BY AdminRequestsType DEF AdminRequests
<1>3. r.op = "put" => Denotes(r.id, r.spec.name)
  BY <1>1 DEF IdentifiersKeepNames, Denotes
<1> QED
  BY <1>1, <1>2, <1>3, ServeMakesFor

\* What a step makes for a resource was not there under that name.
MadeAnew ==
  \A d \in central' :
    d.id >= nextId /\ d.by # Admin => \A c \in central : c.by = d.by => c.spec.name # d.spec.name

\* So it is when a step makes things for resources only under the names their
\* workers have missed.
LEMMA MissedIsMadeAnew ==
  ASSUME CommonTypeOK, IdentifiersKeepNames, MissedIsMissing,
         \A d \in central' :
           \/ \E c \in central : c.id = d.id /\ c.by = d.by /\ c.spec.name = d.spec.name
           \/ d.by = Admin
           \/ d.by \in Resources /\ Missed(d.by) /\ d.spec.name = mg[d.by].spec.name
  PROVE  MadeAnew
<1> SUFFICES ASSUME NEW d \in central', d.id >= nextId, d.by # Admin,
                    NEW c \in central, c.by = d.by
             PROVE  c.spec.name # d.spec.name
  BY DEF MadeAnew
<1>1. \A b \in central : b.id \in Nat /\ nextId \in Nat /\ b.id < nextId
  BY DEF CommonTypeOK, External, IdentifiersKeepNames, Denotes
<1>2. ~ \E b \in central : b.id = d.id
  BY <1>1
<1>3. Missed(c.by) /\ d.spec.name = mg[c.by].spec.name /\ c.by \in Resources
  BY <1>2
<1> QED
  BY <1>3 DEF MissedIsMissing

-----------------------------------------------------------------------------
(***************************************************************************)
(* Each step the controllers share, and each answer of Central, is a step  *)
(* of ManagedLife or none.                                                 *)
(***************************************************************************)

\* A step that shows neither in Kubernetes nor in Central is none.
LEMMA Stutters ==
  ASSUME UNCHANGED <<objectView, intentView, madeView>>
  PROVE  [Life!Next]_Life!vars
  BY DEF Life!vars

\* Of a step about m, the other resources show nothing.
LEMMA ViewsOfOne ==
  ASSUME NEW m \in Resources,
         \A k \in Resources \ {m} : api'[k] = api[k] /\ pc'[k] = pc[k]
  PROVE  /\ objectView' = [objectView EXCEPT ![m] = ObjectOf(m)']
         /\ intentView' = [intentView EXCEPT ![m] = IntentOf(m)']
  BY DEF objectView, intentView, ObjectOf, IntentOf

\* What was made is seen in Central alone.
LEMMA ViewOfCentral ==
  ASSUME UNCHANGED central
  PROVE  UNCHANGED madeView
  BY DEF madeView, MadeFor

\* A step about m that shows nothing of m either is none.
LEMMA QuietStep ==
  ASSUME NEW m \in Resources,
         \A k \in Resources \ {m} : api'[k] = api[k] /\ pc'[k] = pc[k],
         ObjectOf(m)' = ObjectOf(m), IntentOf(m)' = IntentOf(m), UNCHANGED central
  PROVE  [Life!Next]_Life!vars
<1>1. UNCHANGED <<objectView, intentView>>
  BY ViewsOfOne DEF objectView, intentView
<1> QED
  BY <1>1, ViewOfCentral, Stutters

-----------------------------------------------------------------------------
(***************************************************************************)
(* The reconciler's own steps.                                             *)
(***************************************************************************)

\* No reconcile creates at its start, nor does what it reads show.
LEMMA BeginLives ==
  ASSUME CommonTypeOK, NEW m \in Resources, BeginStep(m)
  PROVE  [Life!Next]_Life!vars
<1>1. /\ UNCHANGED <<api, central>> /\ pc[m] # "create" /\ pc'[m] # "create"
      /\ \A k \in Resources \ {m} : pc'[k] = pc[k]
  BY DEF BeginStep, Goto, kubeVars, centralVars, CommonTypeOK
<1> QED
  BY <1>1, QuietStep DEF ObjectOf, IntentOf

\* The finalizer does not show.
LEMMA AddFinalizerLives ==
  ASSUME CommonTypeOK, NEW m \in Resources, AddFinalizerStep(m)
  PROVE  [Life!Next]_Life!vars
<1>1. /\ UNCHANGED central /\ pc[m] # "create" /\ pc'[m] # "create"
      /\ \A k \in Resources \ {m} : pc'[k] = pc[k]
  BY DEF AddFinalizerStep, Goto, centralVars, CommonTypeOK
<1>2. \/ api' = api
      \/ Store(m, [api[m] EXCEPT !.finalizer = TRUE])
  BY DEF AddFinalizerStep, kubeVars
<1> DEFINE o == [api[m] EXCEPT !.finalizer = TRUE]
<1>3. /\ \A k \in Resources \ {m} : api'[k] = api[k]
      /\ api'[m] = api[m] \/ api'[m] = o
  BY <1>2 DEF Store, CommonTypeOK
<1>4. /\ o.exists = api[m].exists /\ o.deleting = api[m].deleting
      /\ o.create = api[m].create
  <2>1. api[m] \in Managed
    BY DEF CommonTypeOK
  <2> QED
    BY <2>1 DEF Managed
<1> HIDE DEF o
<1>5. /\ api'[m].exists = api[m].exists /\ api'[m].deleting = api[m].deleting
      /\ api'[m].create = api[m].create
  BY <1>3, <1>4
<1> QED
  BY <1>1, <1>3, <1>5, QuietStep DEF ObjectOf, IntentOf

\* An intention is recorded for a resource that is there and not deleted, and
\* none is open.
LEMMA MarkPendingLives ==
  ASSUME CommonTypeOK, ReconcileInv, NEW m \in Resources, MarkPendingStep(m)
  PROVE  [Life!Next]_Life!vars
<1> DEFINE o == [api[m] EXCEPT !.create = "pending"]
<1>1. /\ UNCHANGED central /\ pc[m] = "pending"
      /\ \A k \in Resources \ {m} : pc'[k] = pc[k]
  BY DEF MarkPendingStep, Goto, centralVars, CommonTypeOK
<1>2. CASE m \in mgCurrent /\ Store(m, o) /\ Goto(m, "create")
  <2>1. /\ \A k \in Resources \ {m} : api'[k] = api[k]
        /\ api'[m] = o /\ pc'[m] = "create"
        /\ o.exists = api[m].exists /\ o.deleting = api[m].deleting /\ o.create = "pending"
    BY <1>2 DEF Store, Goto, Managed, CommonTypeOK
  <2>2. api[m].exists /\ ~api[m].deleting /\ api[m].create # "pending"
    BY <1>1, <1>2 DEF ReconcileInv, CurrentCopies, WorkerHolds, Holds
  <2>3. api[m].create \in {"never", "succeeded", "failed"}
    BY <2>2 DEF Managed, CommonTypeOK
  <2>4. /\ ObjectOf(m) = "present" /\ ObjectOf(m)' = "present"
        /\ IntentOf(m) = api[m].create /\ IntentOf(m)' = "intended"
    BY <2>1, <2>2 DEF ObjectOf, IntentOf
  <2>5. /\ objectView' = objectView /\ intentView' = [intentView EXCEPT ![m] = "intended"]
        /\ madeView' = madeView
    <3>1. /\ objectView' = [objectView EXCEPT ![m] = "present"]
          /\ intentView' = [intentView EXCEPT ![m] = "intended"]
      BY <1>1, <2>1, <2>4, ViewsOfOne
    <3>2. objectView[m] = "present" /\ objectView = [k \in Resources |-> objectView[k]]
      BY <2>4 DEF objectView
    <3> QED
      BY <1>1, <3>1, <3>2, ViewOfCentral
  <2>6. objectView[m] = "present" /\ intentView[m] \in {"never", "succeeded", "failed"}
    BY <2>3, <2>4 DEF objectView, intentView
  <2>7. Life!Intend(m)
    BY <2>5, <2>6 DEF Life!Intend, Life!Record
  <2> QED
    BY <2>7 DEF Life!Next
<1>3. CASE UNCHANGED kubeVars /\ Goto(m, "status")
  <2>1. UNCHANGED api /\ pc'[m] = "status"
    BY <1>3 DEF Goto, kubeVars, CommonTypeOK
  <2> QED
    BY <1>1, <2>1, QuietStep DEF ObjectOf, IntentOf
<1> QED
  BY <1>2, <1>3 DEF MarkPendingStep

\* The outcome of what was tried is recorded.
LEMMA MarkOutcomeLives ==
  ASSUME CommonTypeOK, ReconcileInv, NEW m \in Resources, MarkOutcomeStep(m)
  PROVE  [Life!Next]_Life!vars
<1> DEFINE o == [api[m] EXCEPT !.create = pc[m]]
<1>1. /\ UNCHANGED central /\ pc[m] \in {"succeeded", "failed"} /\ pc'[m] # "create"
      /\ \A k \in Resources \ {m} : pc'[k] = pc[k]
      /\ api[m].create = "pending"
  BY DEF MarkOutcomeStep, Goto, centralVars, CommonTypeOK, ReconcileInv, CreateIsRecoverable
<1>2. CASE Store(m, o)
  <2>1. /\ \A k \in Resources \ {m} : api'[k] = api[k]
        /\ api'[m] = o /\ o.exists = api[m].exists /\ o.deleting = api[m].deleting
        /\ o.create = pc[m]
    BY <1>2 DEF Store, Managed, CommonTypeOK
  <2>2. ObjectOf(m)' = ObjectOf(m) /\ IntentOf(m) = "tried" /\ IntentOf(m)' = pc[m]
    BY <1>1, <2>1 DEF ObjectOf, IntentOf
  <2>3. /\ objectView' = objectView /\ intentView' = [intentView EXCEPT ![m] = pc[m]]
        /\ madeView' = madeView /\ intentView[m] = "tried"
    BY <1>1, <2>1, <2>2, ViewsOfOne, ViewOfCentral DEF objectView, intentView
  <2>4. Life!Conclude(m)
    BY <1>1, <2>3 DEF Life!Conclude, Life!Record
  <2> QED
    BY <2>4 DEF Life!Next
<1>3. CASE UNCHANGED kubeVars
  BY <1>1, <1>3, QuietStep DEF ObjectOf, IntentOf, kubeVars
<1> QED
  BY <1>2, <1>3 DEF MarkOutcomeStep

\* A resource that is let go is one that is deleted, with no call under way.
LEMMA RemoveFinalizerLives ==
  ASSUME CommonTypeOK, ReconcileInv, NEW m \in Resources, RemoveFinalizerStep(m)
  PROVE  [Life!Next]_Life!vars
<1>1. /\ UNCHANGED central /\ pc[m] = "release" /\ pc'[m] # "create"
      /\ \A k \in Resources \ {m} : pc'[k] = pc[k]
  BY DEF RemoveFinalizerStep, Finish, Goto, centralVars, CommonTypeOK
<1>2. CASE m \in mgCurrent /\ Store(m, Blank)
  <2>1. /\ \A k \in Resources \ {m} : api'[k] = api[k]
        /\ ~api'[m].exists /\ api'[m].create = "never"
    BY <1>2 DEF Store, Blank, CommonTypeOK
  <2>2. api[m].exists /\ api[m].deleting
    BY <1>1, <1>2 DEF ReconcileInv, CurrentCopies, WorkerHolds, Holds
  <2>3. IntentOf(m) \in {"never", "tried", "succeeded", "failed"}
    BY <1>1 DEF IntentOf, Managed, CommonTypeOK
  <2>4. ObjectOf(m) = "deleting" /\ ObjectOf(m)' = "absent" /\ IntentOf(m)' = "never"
    BY <2>1, <2>2 DEF ObjectOf, IntentOf
  <2>5. /\ objectView' = [objectView EXCEPT ![m] = "absent"]
        /\ intentView' = [intentView EXCEPT ![m] = "never"]
        /\ madeView' = madeView
        /\ objectView[m] = "deleting"
        /\ intentView[m] \in {"never", "tried", "succeeded", "failed"}
    BY <1>1, <2>1, <2>3, <2>4, ViewsOfOne, ViewOfCentral DEF objectView, intentView
  <2>6. Life!Vanish(m)
    BY <2>5 DEF Life!Vanish, Life!Become, Life!Record
  <2> QED
    BY <2>6 DEF Life!Next
<1>3. CASE UNCHANGED kubeVars
  BY <1>1, <1>3, QuietStep DEF ObjectOf, IntentOf, kubeVars
<1> QED
  BY <1>2, <1>3 DEF RemoveFinalizerStep

\* The status does not show.
LEMMA UpdateStatusLives ==
  ASSUME CommonTypeOK, NEW m \in Resources, UpdateStatusStep(m)
  PROVE  [Life!Next]_Life!vars
<1>1. /\ UNCHANGED central /\ pc[m] # "create" /\ pc'[m] # "create"
      /\ \A k \in Resources \ {m} : pc'[k] = pc[k]
  BY DEF UpdateStatusStep, Finish, Goto, centralVars, CommonTypeOK
<1>2. \/ api' = api
      \/ Store(m, [api[m] EXCEPT !.ready = mg[m].ready, !.id = mg[m].id])
  BY DEF UpdateStatusStep, kubeVars
<1> DEFINE o == [api[m] EXCEPT !.ready = mg[m].ready, !.id = mg[m].id]
<1>3. /\ \A k \in Resources \ {m} : api'[k] = api[k]
      /\ api'[m] = api[m] \/ api'[m] = o
  BY <1>2 DEF Store, CommonTypeOK
<1>4. /\ o.exists = api[m].exists /\ o.deleting = api[m].deleting
      /\ o.create = api[m].create
  <2>1. api[m] \in Managed
    BY DEF CommonTypeOK
  <2> QED
    BY <2>1 DEF Managed
<1> HIDE DEF o
<1>5. /\ api'[m].exists = api[m].exists /\ api'[m].deleting = api[m].deleting
      /\ api'[m].create = api[m].create
  BY <1>3, <1>4
<1> QED
  BY <1>1, <1>3, <1>5, QuietStep DEF ObjectOf, IntentOf

-----------------------------------------------------------------------------
(***************************************************************************)
(* The steps of everyone else in Kubernetes.                               *)
(***************************************************************************)

\* The cache does not show.
LEMMA CacheSyncLives ==
  ASSUME NEW m \in Resources, CacheSyncStep(m)
  PROVE  [Life!Next]_Life!vars
  BY QuietStep DEF CacheSyncStep, workerVars, centralVars, ObjectOf, IntentOf

\* A new resource appears.
LEMMA UserCreatesLives ==
  ASSUME CommonTypeOK, ReconcileInv, NEW m \in Resources, UserCreatesStep(m)
  PROVE  [Life!Next]_Life!vars
<1>1. PICK s \in Specs, p \in {"Delete", "Orphan"} :
        UserStores(m, [Blank EXCEPT !.exists = TRUE, !.spec = s, !.policy = p])
  BY DEF UserCreatesStep
<1>2. /\ UNCHANGED <<pc, central>> /\ \A k \in Resources \ {m} : api'[k] = api[k]
      /\ api'[m].exists /\ ~api'[m].deleting /\ api'[m].create = "never"
  BY <1>1 DEF UserStores, Store, Blank, centralVars, CommonTypeOK
<1>3. ~api[m].exists /\ api[m].create = "never"
  BY DEF UserCreatesStep, ReconcileInv, CreatedAreHeld
<1>4. /\ ObjectOf(m) = "absent" /\ ObjectOf(m)' = "present"
      /\ IntentOf(m)' = IntentOf(m)
  BY <1>2, <1>3 DEF ObjectOf, IntentOf
<1>5. /\ objectView' = [objectView EXCEPT ![m] = "present"] /\ objectView[m] = "absent"
      /\ intentView' = intentView /\ madeView' = madeView
  BY <1>2, <1>4, ViewsOfOne, ViewOfCentral DEF objectView, intentView
<1>6. Life!Appear(m)
  BY <1>5 DEF Life!Appear, Life!Become
<1> QED
  BY <1>6 DEF Life!Next

\* What it specifies does not show.
LEMMA UserEditsLives ==
  ASSUME CommonTypeOK, NEW m \in Resources, UserEditsStep(m)
  PROVE  [Life!Next]_Life!vars
<1>1. PICK s \in Specs, p \in {"Delete", "Orphan"} :
        UserStores(m, [api[m] EXCEPT !.spec = s, !.policy = p])
  BY DEF UserEditsStep
<1>2. /\ UNCHANGED <<pc, central>> /\ \A k \in Resources \ {m} : api'[k] = api[k]
      /\ api'[m].exists = api[m].exists /\ api'[m].deleting = api[m].deleting
      /\ api'[m].create = api[m].create
  BY <1>1 DEF UserStores, Store, Managed, centralVars, CommonTypeOK
<1> QED
  BY <1>2, QuietStep DEF ObjectOf, IntentOf

\* A deleted resource stays if anything was ever created for it.
LEMMA UserDeletesLives ==
  ASSUME CommonTypeOK, ReconcileInv, NEW m \in Resources, UserDeletesStep(m)
  PROVE  [Life!Next]_Life!vars
<1>1. /\ UNCHANGED <<pc, central>> /\ \A k \in Resources \ {m} : api'[k] = api[k]
      /\ api[m].exists /\ ~api[m].deleting /\ api[m] \in Managed
      /\ api'[m] = IF api[m].finalizer THEN [api[m] EXCEPT !.deleting = TRUE] ELSE Blank
  BY DEF UserDeletesStep, UserStores, Store, centralVars, CommonTypeOK
<1>2. ObjectOf(m) = "present" /\ objectView[m] = "present" /\ madeView' = madeView
  BY <1>1, ViewOfCentral DEF ObjectOf, objectView
<1>3. CASE api[m].finalizer
  <2>1. api'[m].exists /\ api'[m].deleting /\ api'[m].create = api[m].create
    BY <1>1, <1>3 DEF Managed
  <2>2. ObjectOf(m)' = "deleting" /\ IntentOf(m)' = IntentOf(m)
    BY <1>1, <2>1 DEF ObjectOf, IntentOf
  <2>3. /\ objectView' = [objectView EXCEPT ![m] = "deleting"]
        /\ intentView' = intentView
    BY <1>1, <2>2, ViewsOfOne DEF intentView
  <2>4. Life!Withdraw(m)
    BY <1>2, <2>3 DEF Life!Withdraw, Life!Become
  <2> QED
    BY <2>4 DEF Life!Next
<1>4. CASE ~api[m].finalizer
  <2>1. api[m].create = "never" /\ ~api'[m].exists /\ api'[m].create = "never"
    BY <1>1, <1>4 DEF Blank, ReconcileInv, CreatedAreHeld
  <2>2. ObjectOf(m)' = "absent" /\ IntentOf(m) = "never" /\ IntentOf(m)' = "never"
    BY <2>1 DEF ObjectOf, IntentOf
  <2>3. /\ objectView' = [objectView EXCEPT ![m] = "absent"]
        /\ intentView' = intentView /\ intentView[m] = "never"
    BY <1>1, <2>2, ViewsOfOne DEF intentView
  <2>4. Life!Withdraw(m)
    BY <1>2, <2>3 DEF Life!Withdraw, Life!Become
  <2> QED
    BY <2>4 DEF Life!Next
<1> QED
  BY <1>3, <1>4

\* The end of the process interrupts every creation.
LEMMA CrashLives ==
  ASSUME CommonTypeOK, CrashStep
  PROVE  [Life!Next]_Life!vars
<1>1. UNCHANGED <<api, central>> /\ \A k \in Resources : pc'[k] = "idle"
  BY DEF CrashStep, kubeVars, centralVars
<1>2. /\ objectView' = objectView /\ madeView' = madeView
      /\ intentView' = [m \in Resources |-> IF intentView[m] = "intended" THEN "tried"
                                            ELSE intentView[m]]
  <2>1. \A k \in Resources :
          IntentOf(k)' = IF IntentOf(k) = "intended" THEN "tried" ELSE IntentOf(k)
    <3>1. \A k \in Resources : api[k].create \in {"never", "pending", "succeeded", "failed"}
      BY DEF CommonTypeOK, Managed
    <3> QED
      BY <1>1, <3>1 DEF IntentOf
  <2> QED
    BY <1>1, <2>1, ViewOfCentral DEF objectView, intentView, ObjectOf
<1> QED
  BY <1>2 DEF Life!Next, Life!Die

-----------------------------------------------------------------------------
(***************************************************************************)
(* Central.                                                                *)
(***************************************************************************)

\* A post that is served makes one object.
LEMMA PostMakes ==
  ASSUME NEW r \in Request, ServePost(r)
  PROVE  \A k \in Resources : MadeFor(k)' = IF k = r.by THEN MadeFor(k) \cup {nextId} ELSE MadeFor(k)
<1> DEFINE new == [id |-> nextId, spec |-> r.spec, extra |-> r.extra, by |-> r.by]
<1>1. central' = central \cup {new} /\ new.id = nextId /\ new.by = r.by
  BY DEF ServePost
<1> SUFFICES ASSUME NEW k \in Resources
             PROVE  MadeFor(k)' = IF k = r.by THEN MadeFor(k) \cup {nextId} ELSE MadeFor(k)
  OBVIOUS
<1> HIDE DEF new
<1>2. {d \in central' : d.by = k} = {d \in central : d.by = k} \cup {d \in {new} : d.by = k}
  BY <1>1
<1>3. CASE k = r.by
  BY <1>1, <1>2, <1>3 DEF MadeFor
<1>4. CASE k # r.by
  <2>1. {d \in central' : d.by = k} = {d \in central : d.by = k}
    BY <1>1, <1>2, <1>4
  <2> QED
    BY <1>4, <2>1 DEF MadeFor
<1> QED
  BY <1>3, <1>4

\* What Central makes for a request that is served once.
LEMMA ServeMakes ==
  ASSUME CommonTypeOK, NEW r \in Request, Serve(r)
  PROVE  \/ /\ r.op = "post"
            /\ madeView' = [k \in Resources |-> IF k = r.by THEN madeView[k] \cup {nextId}
                                                         ELSE madeView[k]]
         \/ \A k \in Resources : madeView'[k] \subseteq madeView[k]
<1>1. CASE ServePost(r)
  <2>1. \A k \in Resources : MadeFor(k)' = IF k = r.by THEN MadeFor(k) \cup {nextId} ELSE MadeFor(k)
    BY <1>1, PostMakes
  <2> QED
    BY <1>1, <2>1 DEF ServePost, madeView
<1>2. CASE ServePut(r)
  <2>1. \A c \in External :
          /\ [c EXCEPT !.spec = r.spec, !.extra = r.extra].id = c.id
          /\ [c EXCEPT !.spec = r.spec, !.extra = r.extra].by = c.by
    BY DEF External
  <2>2. \A d \in central' : \E c \in central : d.id = c.id /\ d.by = c.by
    <3>1. \A d \in central' : \E c \in central :
            d = IF c.id = r.id THEN [c EXCEPT !.spec = r.spec, !.extra = r.extra] ELSE c
      BY <1>2 DEF ServePut
    <3>2. central \subseteq External
      BY DEF CommonTypeOK
    <3> SUFFICES ASSUME NEW d \in central'
                 PROVE  \E c \in central : d.id = c.id /\ d.by = c.by
      OBVIOUS
    <3>3. PICK c \in central :
            d = IF c.id = r.id THEN [c EXCEPT !.spec = r.spec, !.extra = r.extra] ELSE c
      BY <3>1
    <3>4. d.id = c.id /\ d.by = c.by
      BY <2>1, <3>2, <3>3
    <3> QED
      BY <3>4
  <2> QED
    BY <2>2 DEF madeView, MadeFor
<1>3. CASE ServeDelete(r)
  BY <1>3 DEF ServeDelete, madeView, MadeFor
<1> QED
  BY <1>1, <1>2, <1>3 DEF Serve

\* What it makes for one that is served more than once.
LEMMA ServeRepeatedlyMakes ==
  ASSUME NEW r \in Request, ServeRepeatedly(r)
  PROVE  \E last \in nextId + 1 .. nextId + MaxAttempts - 1 :
           madeView' = [k \in Resources |-> IF k = r.by THEN madeView[k] \cup (nextId .. last)
                                                        ELSE madeView[k]]
<1>1. PICK last \in nextId + 1 .. nextId + MaxAttempts - 1 :
        central' = central \cup {[id |-> i, spec |-> r.spec, extra |-> r.extra, by |-> r.by] :
                                 i \in nextId .. last}
  BY DEF ServeRepeatedly
<1>2. \A k \in Resources :
        MadeFor(k)' = IF k = r.by THEN MadeFor(k) \cup (nextId .. last) ELSE MadeFor(k)
  <2> DEFINE new == {[id |-> i, spec |-> r.spec, extra |-> r.extra, by |-> r.by] : i \in nextId .. last}
  <2>1. central' = central \cup new
    BY <1>1
  <2>2. (\A d \in new : d.by = r.by) /\ {d.id : d \in new} = nextId .. last
    <3>1. \A d \in new : \E i \in nextId .. last : d.id = i /\ d.by = r.by
      OBVIOUS
    <3>2. \A i \in nextId .. last : \E d \in new : d.id = i
      <4> SUFFICES ASSUME NEW i \in nextId .. last
                   PROVE  \E d \in new : d.id = i
        OBVIOUS
      <4>1. [id |-> i, spec |-> r.spec, extra |-> r.extra, by |-> r.by] \in new
        OBVIOUS
      <4> QED
        BY <4>1
    <3> QED
      BY <3>1, <3>2
  <2> HIDE DEF new
  <2> SUFFICES ASSUME NEW k \in Resources
               PROVE  MadeFor(k)' = IF k = r.by THEN MadeFor(k) \cup (nextId .. last) ELSE MadeFor(k)
    OBVIOUS
  <2>3. CASE k = r.by
    <3>1. {d \in central' : d.by = k} = {d \in central : d.by = k} \cup new
      BY <2>1, <2>2, <2>3
    <3> QED
      BY <2>2, <2>3, <3>1 DEF MadeFor
  <2>4. CASE k # r.by
    <3>1. {d \in central' : d.by = k} = {d \in central : d.by = k}
      BY <2>1, <2>2, <2>4
    <3> QED
      BY <2>4, <3>1 DEF MadeFor
  <2> QED
    BY <2>3, <2>4
<1> QED
  BY <1>1, <1>2 DEF madeView

\* One call makes no more than its attempts, and for its caller alone.
LEMMA CallMakes ==
  ASSUME CommonTypeOK, NEW r \in Request, r.op = "post", NEW m \in Resources, r.by = m,
         CallSucceeds(r) \/ CallFails(r)
  PROVE  Life!Makes(m, PerCall)
<1>1. nextId \in Nat
  BY DEF CommonTypeOK
<1>2. CASE UNCHANGED central
  BY <1>2, ViewOfCentral DEF Life!Makes
<1>3. CASE Serve(r)
  <2>1. ServePost(r)
    BY <1>3 DEF Serve, ServePut, ServeDelete
  <2>2. \A k \in Resources : MadeFor(k)' = IF k = m THEN MadeFor(k) \cup {nextId} ELSE MadeFor(k)
    BY <2>1, PostMakes
  <2>3. PerCall \in Nat /\ PerCall > 0
    BY DEF PerCall, MaxAttempts
  <2> QED
    BY <1>1, <2>2, <2>3 DEF Life!Makes, madeView
<1>4. CASE ServeRepeatedly(r)
  <2>1. PICK last \in nextId + 1 .. nextId + MaxAttempts - 1 :
          madeView' = [k \in Resources |-> IF k = r.by THEN madeView[k] \cup (nextId .. last)
                                                       ELSE madeView[k]]
    BY <1>4, ServeRepeatedlyMakes
  <2>2. PerCall = MaxAttempts /\ MaxAttempts \in Nat
    BY <1>4 DEF ServeRepeatedly, PerCall, MaxAttempts
  <2>3. \A i, j \in nextId .. last : j < i + PerCall
    BY <1>1, <2>1, <2>2
  <2> QED
    BY <2>1, <2>3 DEF Life!Makes
<1> QED
  BY <1>2, <1>3, <1>4 DEF CallSucceeds, CallFails, centralVars

\* A call that asks for nothing new makes nothing.
LEMMA CallLoses ==
  ASSUME CommonTypeOK, NEW r \in Request, r.op # "post", CallSucceeds(r) \/ CallFails(r)
  PROVE  \A k \in Resources : madeView'[k] \subseteq madeView[k]
<1>1. Serve(r) \/ UNCHANGED central
  BY DEF CallSucceeds, CallFails, ServeRepeatedly, centralVars
<1> QED
  BY <1>1, ServeMakes, ViewOfCentral

\* What others do in Central makes nothing for a resource.
LEMMA AdminLives ==
  ASSUME CommonTypeOK, AdminStep
  PROVE  [Life!Next]_Life!vars
<1>1. PICK r \in AdminRequests : Serve(r)
  BY DEF AdminStep
<1>2. r \in Request /\ r.by = Admin
  BY AdminRequestsType DEF AdminRequests
<1>3. \A k \in Resources : madeView'[k] \subseteq madeView[k]
  BY <1>1, <1>2, ServeMakes, ReconcilerAssumption DEF madeView
<1>4. UNCHANGED <<objectView, intentView>>
  BY DEF AdminStep, kubeVars, workerVars, objectView, intentView, ObjectOf, IntentOf
<1> QED
  BY <1>3, <1>4 DEF Life!Next, Life!Lose

\* A late request makes one object, where requests may be late.
LEMMA ArriveLives ==
  ASSUME CommonTypeOK, LateIfAllowed, ArriveStep
  PROVE  [Life!Next]_Life!vars
<1>1. PICK r \in wire : Serve(r) \/ UNCHANGED central
  BY DEF ArriveStep
<1>2. r \in Request /\ AllowDelays /\ r.by \in Resources \cup {Admin} /\ nextId \in Nat
  BY DEF LateIfAllowed, CommonTypeOK, Request
<1>3. UNCHANGED <<objectView, intentView>>
  BY DEF ArriveStep, kubeVars, workerVars, objectView, intentView, ObjectOf, IntentOf
<1>4. CASE \A k \in Resources : madeView'[k] \subseteq madeView[k]
  BY <1>3, <1>4 DEF Life!Next, Life!Lose
<1>5. CASE madeView' = [k \in Resources |-> IF k = r.by THEN madeView[k] \cup {nextId}
                                                         ELSE madeView[k]]
  <2>1. CASE r.by \in Resources
    <3>1. Life!Makes(r.by, 1)
      BY <1>2, <1>5, <2>1 DEF Life!Makes
    <3> QED
      BY <1>2, <1>3, <2>1, <3>1 DEF Life!Next, Life!ArriveLate
  <2>2. CASE r.by = Admin
    BY <1>4, <1>5, <2>2, ReconcilerAssumption
  <2> QED
    BY <1>2, <2>1, <2>2
<1>6. UNCHANGED central => \A k \in Resources : madeView'[k] \subseteq madeView[k]
  BY ViewOfCentral
<1> QED
  BY <1>1, <1>2, <1>4, <1>5, <1>6, ServeMakes

-----------------------------------------------------------------------------
(***************************************************************************)
(* The handlers.                                                           *)
(***************************************************************************)

\* Create is the one call of an intention on record.
LEMMA CreateLives ==
  ASSUME CommonTypeOK, ReconcileInv, NEW m \in Resources, NEW r \in Request,
         r.op = "post", r.by = m, CallSucceeds(r) \/ CallFails(r),
         pc[m] = "create", UNCHANGED api,
         pc' = [pc EXCEPT ![m] = "succeeded"] \/ pc' = [pc EXCEPT ![m] = "failed"]
  PROVE  [Life!Next]_Life!vars
<1>1. pc'[m] # "create" /\ \A k \in Resources \ {m} : pc'[k] = pc[k]
  BY DEF CommonTypeOK
<1>2. ObjectOf(m)' = ObjectOf(m) /\ IntentOf(m) = "intended" /\ IntentOf(m)' = "tried"
  BY <1>1 DEF ObjectOf, IntentOf, ReconcileInv, CreateIsRecoverable
<1>3. /\ objectView' = objectView /\ intentView' = [intentView EXCEPT ![m] = "tried"]
      /\ intentView[m] = "intended"
  BY <1>1, <1>2, ViewsOfOne DEF objectView, intentView
<1>4. Life!Makes(m, PerCall)
  BY CallMakes
<1>5. Life!Try(m)
  BY <1>3, <1>4 DEF Life!Try, Life!Record
<1> QED
  BY <1>5 DEF Life!Next

\* Every other handler makes nothing, nor does it show in Kubernetes.
LEMMA OtherHandlerLives ==
  ASSUME CommonTypeOK, NEW m \in Resources, UNCHANGED api, pc[m] # "create",
         NEW phase, pc' = [pc EXCEPT ![m] = phase], phase # "create",
         \/ UNCHANGED central
         \/ \E r \in Request : r.op # "post" /\ (CallSucceeds(r) \/ CallFails(r))
  PROVE  [Life!Next]_Life!vars
<1>1. pc'[m] # "create" /\ \A k \in Resources \ {m} : pc'[k] = pc[k]
  BY DEF CommonTypeOK
<1>2. UNCHANGED <<objectView, intentView>>
  BY <1>1 DEF objectView, intentView, ObjectOf, IntentOf
<1>3. \A k \in Resources : madeView'[k] \subseteq madeView[k]
  BY CallLoses, ViewOfCentral
<1> QED
  BY <1>2, <1>3 DEF Life!Next, Life!Lose

\* Before anything has happened nothing is there.
LEMMA CommonInitLives == CommonInit => Life!Init
  BY DEF CommonInit, Blank, Life!Init, objectView, intentView, madeView, ObjectOf, IntentOf, MadeFor

\* A request gets late by a call alone.
LEMMA CallLate ==
  ASSUME LateIfAllowed, NEW r, CallSucceeds(r) \/ CallFails(r)
  PROVE  LateIfAllowed'
  BY DEF LateIfAllowed, CallSucceeds, CallFails, Linger, Fault, centralVars

=============================================================================
