---------------------------- MODULE ManagedLife ----------------------------
(***************************************************************************)
(* What the provider promises about the life of a managed resource and of  *)
(* what it has Central make for it, with no word of caches, workers,       *)
(* resource versions or handlers.  Cluster and InitBundle implement it.    *)
(*                                                                         *)
(* Central makes something for a resource only by a call that was intended *)
(* first, on record, while the resource was there and not being deleted;   *)
(* each intention is for one call; there is no new intention before the    *)
(* outcome of the last is on record; and no resource goes away while its   *)
(* call may be under way.  The one thing that escapes the record is a      *)
(* request that reaches Central after its call has ended.                  *)
(***************************************************************************)
EXTENDS Naturals

CONSTANTS
  Resources,    \* the managed resources
  PerCall,      \* the most objects one call can make: it may be repeated
  MayBeLate     \* may a request arrive after its call has ended?

VARIABLES
  object,       \* object[m]: is the resource there?
  intent,       \* intent[m]: the latest creation on record
  made          \* made[m]: what Central has that was made for m

vars == <<object, intent, made>>

Init ==
  /\ object = [m \in Resources |-> "absent"]
  /\ intent = [m \in Resources |-> "never"]
  /\ made = [m \in Resources |-> {}]

-----------------------------------------------------------------------------
\* Central makes at most n objects for m, one after the other, and no other.
Makes(m, n) ==
  /\ made[m] \subseteq made'[m]
  /\ \A i, j \in made'[m] \ made[m] : j < i + n
  /\ \A k \in Resources \ {m} : made'[k] = made[k]

Become(m, from, to) == object[m] \in from /\ object' = [object EXCEPT ![m] = to]

Record(m, from, to) == intent[m] \in from /\ intent' = [intent EXCEPT ![m] = to]

Appear(m) == Become(m, {"absent"}, "present") /\ UNCHANGED <<intent, made>>

\* What nothing was ever created for may vanish at once, all else lingers.
Withdraw(m) ==
  /\ \/ intent[m] = "never" /\ Become(m, {"present"}, "absent")
     \/ Become(m, {"present"}, "deleting")
  /\ UNCHANGED <<intent, made>>

\* The provider lets a deleted resource go; its record goes with it.
Vanish(m) ==
  /\ Become(m, {"deleting"}, "absent")
  /\ Record(m, {"never", "tried", "succeeded", "failed"}, "never")
  /\ UNCHANGED made

Intend(m) ==
  /\ object[m] = "present"
  /\ Record(m, {"never", "succeeded", "failed"}, "intended")
  /\ UNCHANGED <<object, made>>

Try(m) == Record(m, {"intended"}, "tried") /\ Makes(m, PerCall) /\ UNCHANGED object

\* The provider dies: what was intended is not known to have been tried.
Die ==
  /\ intent' = [m \in Resources |-> IF intent[m] = "intended" THEN "tried" ELSE intent[m]]
  /\ UNCHANGED <<object, made>>

Conclude(m) ==
  /\ Record(m, {"tried"}, "succeeded") \/ Record(m, {"tried"}, "failed")
  /\ UNCHANGED <<object, made>>

ArriveLate(m) == MayBeLate /\ Makes(m, 1) /\ UNCHANGED <<object, intent>>

\* What was made is deleted, by whomever and whenever.
Lose ==
  /\ \A m \in Resources : made'[m] \subseteq made[m]
  /\ UNCHANGED <<object, intent>>

Next ==
  \/ \E m \in Resources :
       \/ Appear(m)
       \/ Withdraw(m)
       \/ Vanish(m)
       \/ Intend(m)
       \/ Try(m)
       \/ Conclude(m)
       \/ ArriveLate(m)
  \/ Die
  \/ Lose

Spec == Init /\ [][Next]_vars

=============================================================================
