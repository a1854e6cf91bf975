---------------------------- MODULE DurableLedger ----------------------------
(***************************************************************************)
(* What the session store promises its callers, without a cache, batches   *)
(* or files: per session, a set of recorded events that only grows until   *)
(* the session is deleted, of which a growing part is durable.  A restart  *)
(* falls back to the durable part.  Nothing is promised of a session in    *)
(* lossy until the next restart, except that it never holds an event that  *)
(* was not recorded.                                                       *)
(***************************************************************************)
CONSTANTS Session, Event

VARIABLES recorded, durable, lossy

vars == <<recorded, durable, lossy>>

Init ==
  /\ recorded = [s \in Session |-> {}]
  /\ durable = [s \in Session |-> {}]
  /\ lossy = {}

(* A session may become lossy in any step.                                 *)
MayWeaken == lossy \subseteq lossy'

RecordEvent(s, e) ==
  /\ e \notin recorded[s]
  /\ recorded' = [recorded EXCEPT ![s] = @ \cup {e}]
  /\ durable' = durable
  /\ MayWeaken

(* The durable part of one session catches up, perhaps not all the way.    *)
Persist(s) ==
  /\ \E D \in SUBSET recorded[s] :
       /\ s \notin lossy => durable[s] \subseteq D
       /\ durable' = [durable EXCEPT ![s] = D]
  /\ recorded' = recorded
  /\ MayWeaken

Forget(s) ==
  /\ recorded' = [recorded EXCEPT ![s] = {}]
  /\ durable' = [durable EXCEPT ![s] = {}]
  /\ MayWeaken

Weaken == MayWeaken /\ UNCHANGED <<recorded, durable>>

Crash ==
  /\ recorded' = durable
  /\ durable' = durable
  /\ lossy' = {}

Next ==
  \/ \E s \in Session :
       \/ \E e \in Event : RecordEvent(s, e)
       \/ Persist(s)
       \/ Forget(s)
  \/ Weaken
  \/ Crash

Spec == Init /\ [][Next]_vars
=============================================================================
