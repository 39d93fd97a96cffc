----------------------------- MODULE Connector -----------------------------
(***************************************************************************)
(* How the workers of a controller share its connector, the struct with    *)
(* the methods Connect and Disconnect and the field external               *)
(* (pkg/controller/cluster/cluster.go, pkg/controller/initbundle/          *)
(* initbundle.go).                                                         *)
(*                                                                         *)
(* Setup makes one connector for each controller, and the controller runs  *)
(* as many workers as --max-reconcile-rate says (cmd/provider/main.go).    *)
(* Connect dials Central, stores the client in the field and returns what  *)
(* it then reads from the field; Disconnect closes what it reads from it.  *)
(* No lock orders these accesses; a read returns the last value written.   *)
(***************************************************************************)
EXTENDS Naturals

CONSTANTS
  Workers,    \* the workers of all controllers
  KindOf,     \* the controller each of them belongs to
  MaxDials    \* bound: the connections dialled

Kinds == {"Cluster", "InitBundle"}

ASSUME ConnectorAssumption ==
  /\ KindOf \in [Workers -> Kinds]
  /\ MaxDials \in Nat

VARIABLES
  pc,         \* what each worker does
  dialled,    \* the connection each worker dialled in this reconcile, or 0
  client,     \* the connection each worker was returned, or 0
  external,   \* the connection in the field of each connector, 0 for nil
  open,       \* the open connections, by the connector that dialled them
  dials,      \* how many connections were dialled
  overlapped  \* history: the connections of reconciles that shared the
              \* connector with another, from Connect to Disconnect

vars == <<pc, dialled, client, external, open, dials, overlapped>>

Connections == 1 .. MaxDials

TypeOK ==
  /\ pc \in [Workers -> {"idle", "connect", "stored", "use", "disconnect"}]
  /\ dialled \in [Workers -> 0 .. MaxDials]
  /\ client \in [Workers -> 0 .. MaxDials]
  /\ \A w \in Workers : pc[w] = "use" => client[w] # 0
  /\ external \in [Kinds -> 0 .. MaxDials]
  /\ open \in [Kinds -> SUBSET Connections]
  /\ dials \in 0 .. MaxDials
  /\ overlapped \subseteq Connections

Init ==
  /\ pc = [w \in Workers |-> "idle"]
  /\ dialled = [w \in Workers |-> 0]
  /\ client = [w \in Workers |-> 0]
  /\ external = [k \in Kinds |-> 0]
  /\ open = [k \in Kinds |-> {}]
  /\ dials = 0
  /\ overlapped = {}

-----------------------------------------------------------------------------
\* w has written the field and is not done with it.
Connected(w) == pc[w] \in {"stored", "use", "disconnect"}

\* The other workers that are using the connector of w.
Others(w) == {v \in Workers \ {w} : KindOf[v] = KindOf[w] /\ Connected(v)}

\* w comes to share its connector with them, or with nobody.
Share(w) ==
  overlapped' = IF Others(w) = {} THEN overlapped
                ELSE overlapped \cup {dials'} \cup {dialled[v] : v \in Others(w)}

Reconcile(w) ==
  /\ pc[w] = "idle"
  /\ pc' = [pc EXCEPT ![w] = "connect"]
  /\ UNCHANGED <<dialled, client, external, open, dials, overlapped>>

\* Faulty: an error is not returned.
ConnectFails_Ignored(w) ==
  /\ pc[w] = "connect"
  /\ client' = [client EXCEPT ![w] = external[KindOf[w]]]
  /\ pc' = [pc EXCEPT ![w] = "use"]
  /\ UNCHANGED <<dialled, external, open, dials, overlapped>>

\* No usage, no ProviderConfig, no credentials or no connection: the field
\* is not written, and the reconciler does not call Disconnect.
ConnectFails(w) ==
  /\ pc[w] = "connect"
  /\ pc' = [pc EXCEPT ![w] = "idle"]
  /\ UNCHANGED <<dialled, client, external, open, dials, overlapped>>

\* Faulty: a client the field already has is not replaced.
ConnectStores_Reuses(w) ==
  /\ pc[w] = "connect"
  /\ dials < MaxDials
  /\ dials' = dials + 1
  /\ dialled' = [dialled EXCEPT ![w] = dials']
  /\ external' = [external EXCEPT ![KindOf[w]] = IF @ = 0 THEN dials' ELSE @]
  /\ open' = [open EXCEPT ![KindOf[w]] = @ \cup {dials'}]
  /\ Share(w)
  /\ pc' = [pc EXCEPT ![w] = "stored"]
  /\ UNCHANGED client

ConnectStores(w) ==
  /\ pc[w] = "connect"
  /\ dials < MaxDials
  /\ dials' = dials + 1
  /\ dialled' = [dialled EXCEPT ![w] = dials']
  /\ external' = [external EXCEPT ![KindOf[w]] = dials']
  /\ open' = [open EXCEPT ![KindOf[w]] = @ \cup {dials'}]
  /\ Share(w)
  /\ pc' = [pc EXCEPT ![w] = "stored"]
  /\ UNCHANGED client

\* Faulty: Connect defers closing what it dialled.
ConnectReturns_Closes(w) ==
  /\ pc[w] = "stored"
  /\ client' = [client EXCEPT ![w] = external[KindOf[w]]]
  /\ open' = [open EXCEPT ![KindOf[w]] = @ \ {dialled[w]}]
  /\ pc' = [pc EXCEPT ![w] = "use"]
  /\ UNCHANGED <<dialled, external, dials, overlapped>>

ConnectReturns(w) ==
  /\ pc[w] = "stored"
  /\ client' = [client EXCEPT ![w] = external[KindOf[w]]]
  /\ pc' = [pc EXCEPT ![w] = "use"]
  /\ UNCHANGED <<dialled, external, open, dials, overlapped>>

\* Observe and the handler after it have returned.
HandlersReturn(w) ==
  /\ pc[w] = "use"
  /\ pc' = [pc EXCEPT ![w] = "disconnect"]
  /\ UNCHANGED <<dialled, client, external, open, dials, overlapped>>

\* Faulty: no connector has its Disconnect called.
Disconnect_Nop(w) ==
  /\ pc[w] = "disconnect"
  /\ pc' = [pc EXCEPT ![w] = "idle"]
  /\ dialled' = [dialled EXCEPT ![w] = 0]
  /\ client' = [client EXCEPT ![w] = 0]
  /\ UNCHANGED <<external, open, dials, overlapped>>

\* Faulty: cluster.Setup installs its connector the way initbundle.Setup does.
Disconnect_Every(w) ==
  /\ pc[w] = "disconnect"
  /\ open' = [open EXCEPT ![KindOf[w]] = @ \ {external[KindOf[w]]}]
  /\ pc' = [pc EXCEPT ![w] = "idle"]
  /\ dialled' = [dialled EXCEPT ![w] = 0]
  /\ client' = [client EXCEPT ![w] = 0]
  /\ UNCHANGED <<external, dials, overlapped>>

\* Only initbundle.Setup has its Disconnect called (it passes the connector
\* as WithExternalConnectDisconnecter, cluster.Setup as WithExternalConnecter).
\* Closing a connection twice is an error the reconciler only reports.
Disconnect(w) ==
  /\ pc[w] = "disconnect"
  /\ open' = IF KindOf[w] = "InitBundle"
                THEN [open EXCEPT !["InitBundle"] = @ \ {external["InitBundle"]}]
                ELSE open
  /\ pc' = [pc EXCEPT ![w] = "idle"]
  /\ dialled' = [dialled EXCEPT ![w] = 0]
  /\ client' = [client EXCEPT ![w] = 0]
  /\ UNCHANGED <<external, dials, overlapped>>

Next ==
  \E w \in Workers :
    \/ Reconcile(w)
    \/ ConnectFails(w)
    \/ ConnectStores(w)
    \/ ConnectReturns(w)
    \/ HandlersReturn(w)
    \/ Disconnect(w)

Spec == Init /\ [][Next]_vars

-----------------------------------------------------------------------------
(***************************************************************************)
(* Safety.  With several workers for one connector, the default, what the  *)
(* comments promise of Connect and Disconnect does not hold of every       *)
(* reconcile; overlapped tells those of which it does.                     *)
(***************************************************************************)

\* The handlers of a reconcile talk to the Central of their own
\* ProviderConfig: through the connection that Connect dialled for them.
\* (Not so when two workers share a connector.)
UsesOwnConnection ==
  \A w \in Workers : pc[w] = "use" => client[w] = dialled[w]

\* No connection is closed under the handlers that use it.  (Not so when two
\* workers share a connector.)
OpenWhileUsed ==
  \A w \in Workers : pc[w] = "use" => client[w] \in open[KindOf[w]]

\* Overlapping is all that goes wrong: a reconcile that had its connector for
\* itself since Connect uses the connection it dialled, and that is open,
\* whatever other reconciles did to the field and to each other before.
SeparateAreSafe ==
  \A w \in Workers :
    pc[w] = "use" /\ dialled[w] \notin overlapped =>
      client[w] = dialled[w] /\ client[w] \in open[KindOf[w]]

\* The handlers of a Cluster, though they may have been given the connection
\* of another one, never have it closed under them: nothing in that
\* controller closes any.
ClustersStayOpen ==
  \A w \in Workers :
    pc[w] = "use" /\ KindOf[w] = "Cluster" => client[w] \in open["Cluster"]

\* A connection of the InitBundle connector that is left open was overwritten
\* while it was used: every other one is closed by the reconcile that dialled
\* it, whatever overlaps before and after it.
LeaksOnlyByOverlap ==
  \A c \in open["InitBundle"] \ overlapped :
    \E w \in Workers : KindOf[w] = "InitBundle" /\ Connected(w) /\ dialled[w] = c

\* What an InitBundle connector still refers to is closed once its last
\* reconcile is over, however many workers share it and whatever they
\* overwrote: the next overlap starts from nothing open in the field.
FieldClosedAtRest ==
  (\A w \in Workers : KindOf[w] = "InitBundle" => ~Connected(w)) =>
    external["InitBundle"] \notin open["InitBundle"]

=============================================================================
