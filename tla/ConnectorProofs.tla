-------------------------- MODULE ConnectorProofs --------------------------
(***************************************************************************)
(* Proofs about Connector, for any number of workers of either controller. *)
(***************************************************************************)
EXTENDS Connector, TLAPS

\* What is stored is a connection, and stays in the field until another is:
\* the part of the typing that does not follow from the types alone.
StoredIsDialled ==
  \A w \in Workers :
    /\ pc[w] = "stored" => external[KindOf[w]] # 0
    /\ Connected(w) => dialled[w] # 0

\* Every reachable state is well typed; in particular Connect never returns
\* a nil client without an error.
THEOREM Typing == Spec => []TypeOK
<1> USE ConnectorAssumption DEF Kinds, Connections, Connected
<1>1. Init => TypeOK /\ StoredIsDialled
  BY DEF Init, TypeOK, StoredIsDialled
<1>2. TypeOK /\ StoredIsDialled /\ [Next]_vars => (TypeOK /\ StoredIsDialled)'
  <2> SUFFICES ASSUME TypeOK, StoredIsDialled, [Next]_vars
               PROVE  TypeOK' /\ StoredIsDialled'
    OBVIOUS
  <2>1. ASSUME NEW w \in Workers, Reconcile(w)
        PROVE  TypeOK' /\ StoredIsDialled'
    BY <2>1 DEF Reconcile, TypeOK, StoredIsDialled
  <2>2. ASSUME NEW w \in Workers, ConnectFails(w)
        PROVE  TypeOK' /\ StoredIsDialled'
    BY <2>2 DEF ConnectFails, TypeOK, StoredIsDialled
  <2>3. ASSUME NEW w \in Workers, ConnectStores(w)
        PROVE  TypeOK' /\ StoredIsDialled'
    <3>1. overlapped' \subseteq Connections
      <4>1. dials' \in Connections
        BY <2>3 DEF ConnectStores, TypeOK
      <4>2. \A v \in Others(w) : dialled[v] \in Connections
        BY DEF Others, TypeOK, StoredIsDialled
      <4>3. overlapped \subseteq Connections
        BY DEF TypeOK
      <4>4. Share(w)
        BY <2>3 DEF ConnectStores
      <4> HIDE DEF Connections
      <4> QED
        BY <4>1, <4>2, <4>3, <4>4 DEF Share
    <3>2. TypeOK'
      <4>1. dials' \in Connections /\ dials' \in 0 .. MaxDials
        BY <2>3 DEF ConnectStores, TypeOK
      <4>2. /\ external' \in [Kinds -> 0 .. MaxDials]
            /\ open' \in [Kinds -> SUBSET Connections]
        BY <2>3, <4>1 DEF ConnectStores, TypeOK
      <4>3. /\ pc' \in [Workers -> {"idle", "connect", "stored", "use", "disconnect"}]
            /\ dialled' \in [Workers -> 0 .. MaxDials]
            /\ client' \in [Workers -> 0 .. MaxDials]
            /\ \A v \in Workers : pc'[v] = "use" => client'[v] # 0
        BY <2>3, <4>1 DEF ConnectStores, TypeOK
      <4> QED
        BY <3>1, <4>1, <4>2, <4>3 DEF TypeOK
    <3>3. StoredIsDialled'
      <4>1. dials' # 0
        BY <2>3 DEF ConnectStores, TypeOK
      <4> QED
        BY <2>3, <4>1 DEF ConnectStores, TypeOK, StoredIsDialled
    <3> QED
      BY <3>2, <3>3
  <2>4. ASSUME NEW w \in Workers, ConnectReturns(w)
        PROVE  TypeOK' /\ StoredIsDialled'
    BY <2>4 DEF ConnectReturns, TypeOK, StoredIsDialled
  <2>5. ASSUME NEW w \in Workers, HandlersReturn(w)
        PROVE  TypeOK' /\ StoredIsDialled'
    BY <2>5 DEF HandlersReturn, TypeOK, StoredIsDialled
  <2>6. ASSUME NEW w \in Workers, Disconnect(w)
        PROVE  TypeOK' /\ StoredIsDialled'
    BY <2>6 DEF Disconnect, TypeOK, StoredIsDialled
  <2>7. CASE UNCHANGED vars
    BY <2>7 DEF vars, TypeOK, StoredIsDialled
  <2> QED
    BY <2>1, <2>2, <2>3, <2>4, <2>5, <2>6, <2>7 DEF Next
<1> QED
  BY <1>1, <1>2, PTL DEF Spec

-----------------------------------------------------------------------------
\* When all the reconciles of the InitBundle controller are over, the
\* connection its connector refers to is closed, for any number of workers
\* and whatever they overwrote.  The property is inductive.
THEOREM FieldIsClosedAtRest == Spec => []FieldClosedAtRest
<1> USE ConnectorAssumption DEF Kinds, Connections, Connected
<1>1. Init => FieldClosedAtRest
  BY DEF Init, FieldClosedAtRest
<1>2. TypeOK /\ FieldClosedAtRest /\ [Next]_vars => FieldClosedAtRest'
  <2> SUFFICES ASSUME TypeOK, FieldClosedAtRest, [Next]_vars
               PROVE  FieldClosedAtRest'
    OBVIOUS
  <2>1. ASSUME NEW w \in Workers, Reconcile(w) \/ ConnectFails(w)
        PROVE  FieldClosedAtRest'
    BY <2>1 DEF Reconcile, ConnectFails, TypeOK, FieldClosedAtRest
  <2>2. ASSUME NEW w \in Workers, ConnectStores(w)
        PROVE  FieldClosedAtRest'
    <3>1. pc'[w] = "stored"
      BY <2>2 DEF ConnectStores, TypeOK
    <3>2. CASE KindOf[w] = "InitBundle"
      BY <3>1, <3>2 DEF FieldClosedAtRest
    <3>3. CASE KindOf[w] = "Cluster"
      BY <2>2, <3>3 DEF ConnectStores, TypeOK, FieldClosedAtRest
    <3> QED
      BY <3>2, <3>3
  <2>3. ASSUME NEW w \in Workers, ConnectReturns(w) \/ HandlersReturn(w)
        PROVE  FieldClosedAtRest'
    BY <2>3 DEF ConnectReturns, HandlersReturn, TypeOK, FieldClosedAtRest
  <2>4. ASSUME NEW w \in Workers, Disconnect(w)
        PROVE  FieldClosedAtRest'
    <3>1. CASE KindOf[w] = "InitBundle"
      BY <2>4, <3>1 DEF Disconnect, TypeOK, FieldClosedAtRest
    <3>2. CASE KindOf[w] = "Cluster"
      BY <2>4, <3>2 DEF Disconnect, TypeOK, FieldClosedAtRest
    <3> QED
      BY <3>1, <3>2
  <2>5. CASE UNCHANGED vars
    BY <2>5 DEF vars, FieldClosedAtRest
  <2> QED
    BY <2>1, <2>2, <2>3, <2>4, <2>5 DEF Next
<1> QED
  BY <1>1, <1>2, Typing, PTL DEF Spec

-----------------------------------------------------------------------------
\* Two workers that use one connector at the same time are both on record; a
\* worker that is not has its connection in the field, open, and is given it.
Overlaps ==
  \A w \in Workers : Connected(w) =>
    /\ Others(w) # {} => dialled[w] \in overlapped
    /\ dialled[w] \notin overlapped =>
         /\ external[KindOf[w]] = dialled[w]
         /\ dialled[w] \in open[KindOf[w]]
         /\ pc[w] = "use" => client[w] = dialled[w]

LEMMA OverlapsKept ==
  ASSUME TypeOK, Overlaps, [Next]_vars
  PROVE  Overlaps'
<1> USE ConnectorAssumption DEF Kinds, Connections, Connected
<1>1. ASSUME NEW w \in Workers, Reconcile(w) \/ ConnectFails(w)
      PROVE  Overlaps'
  BY <1>1 DEF Reconcile, ConnectFails, TypeOK, Overlaps, Others
<1>2. ASSUME NEW w \in Workers, ConnectStores(w)
      PROVE  Overlaps'
  <2>1. /\ ~Connected(w) /\ Connected(w)'
        /\ \A v \in Workers \ {w} :
             /\ pc'[v] = pc[v] /\ client'[v] = client[v] /\ dialled'[v] = dialled[v]
             /\ Connected(v)' <=> Connected(v)
    BY <1>2 DEF ConnectStores, TypeOK
  <2>2. dialled'[w] = dials' /\ pc'[w] = "stored"
    BY <1>2 DEF ConnectStores, TypeOK
  <2>3. /\ external'[KindOf[w]] = dials'
        /\ dials' \in open'[KindOf[w]]
        /\ \A k \in Kinds \ {KindOf[w]} : external'[k] = external[k] /\ open'[k] = open[k]
    BY <1>2 DEF ConnectStores, TypeOK
  <2>4. /\ overlapped \subseteq overlapped'
        /\ Others(w) # {} => dials' \in overlapped'
        /\ \A v \in Others(w) : dialled[v] \in overlapped'
    BY <1>2 DEF ConnectStores, Share
  <2>5. \A v \in Workers \ {w} :
          \/ KindOf[v] # KindOf[w]
          \/ ~Connected(v)
          \/ v \in Others(w)
    BY DEF Others
  <2>6. Others(w)' = Others(w)
    BY <2>1 DEF Others
  <2>7. ASSUME NEW v \in Workers \ {w}, KindOf[v] # KindOf[w]
        PROVE  Others(v)' = Others(v)
    BY <2>1, <2>7 DEF Others
  <2>8. ASSUME NEW v \in Workers \ {w}, Connected(v)'
        PROVE  /\ Others(v)' # {} => dialled'[v] \in overlapped'
               /\ dialled'[v] \notin overlapped' =>
                    /\ external'[KindOf[v]] = dialled'[v]
                    /\ dialled'[v] \in open'[KindOf[v]]
                    /\ pc'[v] = "use" => client'[v] = dialled'[v]
    <3>1. CASE KindOf[v] = KindOf[w]
      BY <2>1, <2>4, <2>5, <2>8, <3>1
    <3>2. CASE KindOf[v] # KindOf[w]
      BY <2>1, <2>3, <2>4, <2>7, <2>8, <3>2 DEF Overlaps
    <3> QED
      BY <3>1, <3>2
  <2> QED
    BY <2>2, <2>3, <2>4, <2>6, <2>8 DEF Overlaps
<1>3. ASSUME NEW w \in Workers, ConnectReturns(w) \/ HandlersReturn(w)
      PROVE  Overlaps'
  BY <1>3 DEF ConnectReturns, HandlersReturn, TypeOK, Overlaps, Others
<1>4. ASSUME NEW w \in Workers, Disconnect(w)
      PROVE  Overlaps'
  <2>1. /\ Connected(w) /\ ~Connected(w)'
        /\ \A v \in Workers \ {w} :
             /\ pc'[v] = pc[v] /\ client'[v] = client[v] /\ dialled'[v] = dialled[v]
             /\ Connected(v)' <=> Connected(v)
        /\ UNCHANGED <<external, overlapped>>
    BY <1>4 DEF Disconnect, TypeOK
  <2>2. \A v \in Workers : Others(v)' \subseteq Others(v)
    BY <2>1 DEF Others
  <2>3. ASSUME NEW v \in Workers \ {w}, Connected(v), KindOf[v] = KindOf[w]
        PROVE  dialled[v] \in overlapped
    <3>1. w \in Others(v)
      BY <2>1, <2>3 DEF Others
    <3> QED
      BY <2>3, <3>1 DEF Overlaps
  <2>4. \A k \in Kinds \ {KindOf[w]} : open'[k] = open[k]
    BY <1>4 DEF Disconnect, TypeOK
  <2> QED
    BY <2>1, <2>2, <2>3, <2>4 DEF Overlaps
<1>5. CASE UNCHANGED vars
  BY <1>5 DEF vars, Overlaps, Others
<1> QED
  BY <1>1, <1>2, <1>3, <1>4, <1>5 DEF Next

\* So it is in every reachable state.
LEMMA OverlapsAreKnown == Spec => []Overlaps
<1>1. Init => Overlaps
  BY DEF Init, Overlaps, Connected
<1> QED
  BY <1>1, OverlapsKept, Typing, PTL DEF Spec

\* For any number of workers of either controller: a reconcile that had its
\* connector for itself uses the connection it dialled, and it is open.
THEOREM SeparateReconciles == Spec => []SeparateAreSafe
<1>1. Overlaps => SeparateAreSafe
  BY DEF Overlaps, SeparateAreSafe, Connected
<1> QED
  BY <1>1, OverlapsAreKnown, PTL

-----------------------------------------------------------------------------
\* What a Cluster worker finds in the field was dialled by one of them, and is
\* never closed.
ClusterStaysOpen ==
  \A w \in Workers : KindOf[w] = "Cluster" =>
    /\ pc[w] = "stored" => external["Cluster"] \in open["Cluster"]
    /\ pc[w] = "use" => client[w] \in open["Cluster"]

\* For any number of workers of either controller: no connection is closed
\* under the handlers of a Cluster, their own or another's.
THEOREM ClustersOpen == Spec => []ClustersStayOpen
<1> USE ConnectorAssumption DEF Kinds, Connections
<1>1. Init => ClusterStaysOpen
  BY DEF Init, ClusterStaysOpen
<1>2. TypeOK /\ ClusterStaysOpen /\ [Next]_vars => ClusterStaysOpen'
  <2> SUFFICES ASSUME TypeOK, ClusterStaysOpen, [Next]_vars
               PROVE  ClusterStaysOpen'
    OBVIOUS
  <2>1. ASSUME NEW w \in Workers, Reconcile(w) \/ ConnectFails(w) \/ HandlersReturn(w)
        PROVE  ClusterStaysOpen'
    BY <2>1 DEF Reconcile, ConnectFails, HandlersReturn, TypeOK, ClusterStaysOpen
  <2>2. ASSUME NEW w \in Workers, ConnectStores(w)
        PROVE  ClusterStaysOpen'
    BY <2>2 DEF ConnectStores, TypeOK, ClusterStaysOpen
  <2>3. ASSUME NEW w \in Workers, ConnectReturns(w)
        PROVE  ClusterStaysOpen'
    BY <2>3 DEF ConnectReturns, TypeOK, ClusterStaysOpen
  <2>4. ASSUME NEW w \in Workers, Disconnect(w)
        PROVE  ClusterStaysOpen'
    BY <2>4 DEF Disconnect, TypeOK, ClusterStaysOpen
  <2>5. CASE UNCHANGED vars
    BY <2>5 DEF vars, ClusterStaysOpen
  <2> QED
    BY <2>1, <2>2, <2>3, <2>4, <2>5 DEF Next
<1>3. ClusterStaysOpen => ClustersStayOpen
  BY DEF ClusterStaysOpen, ClustersStayOpen
<1> QED
  BY <1>1, <1>2, <1>3, Typing, PTL DEF Spec

-----------------------------------------------------------------------------
\* For any number of workers: only connections that were overwritten while
\* they were used are left open by the InitBundle controller.
THEOREM OverlapsLeak == Spec => []LeaksOnlyByOverlap
<1> USE ConnectorAssumption DEF Kinds, Connections, Connected
<1>1. Init => LeaksOnlyByOverlap
  BY DEF Init, LeaksOnlyByOverlap
<1>2. TypeOK /\ Overlaps /\ LeaksOnlyByOverlap /\ [Next]_vars => LeaksOnlyByOverlap'
  <2> SUFFICES ASSUME TypeOK, Overlaps, LeaksOnlyByOverlap, [Next]_vars
               PROVE  LeaksOnlyByOverlap'
    OBVIOUS
  <2>1. ASSUME NEW w \in Workers, Reconcile(w) \/ ConnectFails(w)
        PROVE  LeaksOnlyByOverlap'
    BY <2>1 DEF Reconcile, ConnectFails, TypeOK, LeaksOnlyByOverlap
  <2>2. ASSUME NEW w \in Workers, ConnectStores(w)
        PROVE  LeaksOnlyByOverlap'
    <3>1. \A c \in open'["InitBundle"] :
            c \in open["InitBundle"] \/ (c = dialled'[w] /\ KindOf[w] = "InitBundle")
      BY <2>2 DEF ConnectStores, TypeOK
    <3>2. pc'[w] = "stored" /\ overlapped \subseteq overlapped'
      BY <2>2 DEF ConnectStores, Share, TypeOK
    <3>3. \A v \in Workers : Connected(v) =>
            Connected(v)' /\ dialled'[v] = dialled[v]
      BY <2>2 DEF ConnectStores, TypeOK
    <3> QED
      BY <3>1, <3>2, <3>3 DEF LeaksOnlyByOverlap
  <2>3. ASSUME NEW w \in Workers, ConnectReturns(w) \/ HandlersReturn(w)
        PROVE  LeaksOnlyByOverlap'
    BY <2>3 DEF ConnectReturns, HandlersReturn, TypeOK, LeaksOnlyByOverlap
  <2>4. ASSUME NEW w \in Workers, Disconnect(w)
        PROVE  LeaksOnlyByOverlap'
    <3>1. \A v \in Workers \ {w} : pc'[v] = pc[v] /\ dialled'[v] = dialled[v]
      BY <2>4 DEF Disconnect, TypeOK
    <3>2. Connected(w) /\ overlapped' = overlapped
      BY <2>4 DEF Disconnect
    <3>3. CASE KindOf[w] = "InitBundle"
      <4>1. open'["InitBundle"] = open["InitBundle"] \ {external["InitBundle"]}
        BY <2>4, <3>3 DEF Disconnect, TypeOK
      <4>2. dialled[w] \notin overlapped => external["InitBundle"] = dialled[w]
        BY <3>2, <3>3 DEF Overlaps
      <4> QED
        BY <3>1, <3>2, <4>1, <4>2 DEF LeaksOnlyByOverlap
    <3>4. CASE KindOf[w] = "Cluster"
      <4>1. open' = open
        BY <2>4, <3>4 DEF Disconnect
      <4> QED
        BY <3>1, <3>2, <3>4, <4>1 DEF LeaksOnlyByOverlap
    <3> QED
      BY <3>3, <3>4
  <2>5. CASE UNCHANGED vars
    BY <2>5 DEF vars, LeaksOnlyByOverlap
  <2> QED
    BY <2>1, <2>2, <2>3, <2>4, <2>5 DEF Next
<1> QED
  BY <1>1, <1>2, OverlapsAreKnown, Typing, PTL DEF Spec

=============================================================================
