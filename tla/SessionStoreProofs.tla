------------------------- MODULE SessionStoreProofs -------------------------
(***************************************************************************)
(* Theorems about SessionStore, for every set of sessions, cap and bound.  *)
(***************************************************************************)
EXTENDS SessionStore, TLAPS

(* Records and lookups are built from records.                             *)
LEMMA RecordFacts ==
  /\ Absent \in Record
  /\ NoLoad \in Load
  /\ \A r \in Record : /\ [phase |-> "issued", rec |-> r] \in Load
                        /\ [phase |-> "read", rec |-> r] \in Load
  /\ \A k \in Load : k.rec \in Record
  /\ \A r \in Record : r.events \in SUBSET Event
  BY BoundAssumption DEF Absent, Record, NoLoad, Load

(* The event that follows the clock can be added to a record.              *)
LEMMA NextEvent ==
  ASSUME clock \in 0 .. MaxEvents, clock < MaxEvents
  PROVE  /\ clock + 1 \in 0 .. MaxEvents
         /\ clock + 1 \in Event
         /\ \A r \in Record :
              /\ [events |-> r.events \cup {clock + 1}, last |-> clock + 1] \in Record
              /\ [events |-> r.events \cup {clock + 1}, last |-> r.last] \in Record
  <1>1. clock + 1 \in 0 .. MaxEvents /\ clock + 1 \in Event
    BY BoundAssumption DEF Event
  <1>2. QED
    BY <1>1 DEF Record

(* A record an event was added to is there.                                *)
LEMMA NextRecord ==
  \A E, l, e : [events |-> E \cup {e}, last |-> l] # Absent
  BY DEF Absent

(* A lookup under way differs from no lookup.                              *)
LEMMA LoadFacts ==
  \A k \in Load : k.phase = "issued" \/ k.phase = "read" => k # NoLoad
  BY DEF NoLoad

(* A drain leaves no id dirty.                                             *)
LEMMA DrainClears == ASSUME NEW ids, Drain(ids) PROVE dirtySessionIds' = {}
  BY DEF Drain

(* Striking an id from the batch being written leaves a chain of batches.  *)
LEMMA StruckChain ==
  ASSUME NEW c \in Seq(SUBSET Session), c # <<>>, NEW s
  PROVE  /\ [c EXCEPT ![1] = @ \ {s}] \in Seq(SUBSET Session)
         /\ Len([c EXCEPT ![1] = @ \ {s}]) = Len(c)
         /\ DOMAIN [c EXCEPT ![1] = @ \ {s}] = DOMAIN c
  <1>1. 1 \in DOMAIN c /\ c[1] \in SUBSET Session
    OBVIOUS
  <1>2. QED
    BY <1>1

(* The chain stays a sequence of batches when it grows and when it shrinks. *)
LEMMA ChainFacts ==
  /\ <<>> \in Seq(SUBSET Session)
  /\ \A c \in Seq(SUBSET Session) :
       /\ Len(c) \in Nat
       /\ \A ids \in SUBSET Session : Append(c, ids) \in Seq(SUBSET Session)
       /\ c # <<>> => /\ Tail(c) \in Seq(SUBSET Session)
                      /\ Head(c) \in SUBSET Session
  OBVIOUS

(* Every step keeps the types of the variables.                            *)
LEMMA StepKeepsTypes == TypeOK /\ [Next]_vars => TypeOK'
  <1> SUFFICES ASSUME TypeOK, [Next]_vars PROVE TypeOK'
    OBVIOUS
  <1> USE DEF TypeOK, memVars, writeVars, requestVars, phaseVars, ghostVars
  <1>1. ASSUME NEW s \in Session, TrackActivity(s) PROVE TypeOK'
    BY <1>1, RecordFacts, NextEvent DEF TrackActivity, RegisterKnown, ActivityBase, SchedulePersist
  <1>2. ASSUME NEW s \in Session, Amend(s) PROVE TypeOK'
    BY <1>2, RecordFacts, NextEvent DEF Amend, SchedulePersist
  <1>3. ASSUME NEW s \in Session, Sweep(s) PROVE TypeOK'
    BY <1>3, ChainFacts, RecordFacts, NextEvent DEF Sweep, Drain
  <1>4. ASSUME NEW s \in Session, LookupStart(s) PROVE TypeOK'
    BY <1>4, RecordFacts DEF LookupStart
  <1>5. ASSUME NEW s \in Session, LookupRead(s) PROVE TypeOK'
    BY <1>5, RecordFacts DEF LookupRead
  <1>6. ASSUME NEW s \in Session, LookupInstall(s) PROVE TypeOK'
    BY <1>6, RecordFacts DEF LookupInstall, VictimSets
  <1>7. ASSUME NEW s \in Session, Delete(s) PROVE TypeOK'
    BY <1>7, RecordFacts DEF Delete, Forget
  <1>8. ASSUME NEW s \in Session, ClearNext(s) PROVE TypeOK'
    BY <1>8, RecordFacts DEF ClearNext, Forget
  <1>9. ASSUME NEW s \in Session, Unlinked(s) PROVE TypeOK'
    BY <1>9, RecordFacts DEF Unlinked
  <1>10. ASSUME NEW ids \in SUBSET Session, ClearStart(ids) PROVE TypeOK'
    BY <1>10 DEF ClearStart
  <1>11. CASE PersistTimerFires
    BY <1>11, ChainFacts DEF PersistTimerFires, Drain
  <1>12. ASSUME NEW s \in Session, BeginSave(s) PROVE TypeOK'
    BY <1>12, StruckChain DEF BeginSave
  <1>13. CASE SaveLands
    BY <1>13, RecordFacts DEF SaveLands
  <1>14. CASE BatchDone
    BY <1>14, ChainFacts DEF BatchDone, BatchLeaves
  <1>15. CASE SaveFails
    BY <1>15, ChainFacts, RecordFacts, BoundAssumption DEF SaveFails, BatchLeaves
  <1>16. CASE FlushStart
    <2>1. writeChain' \in Seq(SUBSET Session)
      BY <1>16, ChainFacts DEF FlushStart, Drain
    <2>2. awaited' \in Nat
      BY <1>16, ChainFacts, <2>1 DEF FlushStart
    <2>3. QED
      BY <1>16, <2>1, <2>2 DEF FlushStart, Drain
  <1>17. CASE FlushAgain
    BY <1>17, ChainFacts DEF FlushAgain
  <1>18. CASE FlushReturns
    BY <1>18 DEF FlushReturns
  <1>19. CASE Restart
    <2>1. sessions' \in [Session -> Record]
      BY <1>19, RecordFacts DEF Restart
    <2>2. accepted' \in [Session -> SUBSET Event]
      BY <1>19, RecordFacts DEF Restart
    <2>3. faults' \in 0 .. MaxFaults
      BY <1>19, BoundAssumption DEF Restart
    <2>4. loads' \in [Session -> Load] /\ payload' \in Record
      BY <1>19, RecordFacts DEF Restart
    <2>5. QED
      BY <1>19, ChainFacts, <2>1, <2>2, <2>3, <2>4 DEF Restart
  <1>20. CASE UNCHANGED vars
    BY <1>20 DEF vars
  <1>21. QED
    BY <1>1, <1>2, <1>3, <1>4, <1>5, <1>6, <1>7, <1>8, <1>9, <1>10, <1>11,
       <1>12, <1>13, <1>14, <1>15, <1>16, <1>17, <1>18, <1>19, <1>20
    DEF Next, Write

(* The initial state has the types of the variables.                       *)
LEMMA InitTypes == Init => TypeOK
  <1>1. 0 \in 0 .. MaxEvents /\ 0 \in 0 .. MaxFaults
    BY BoundAssumption
  <1>2. QED
    BY <1>1, RecordFacts, ChainFacts DEF Init, TypeOK

(* The variables keep their types.                                         *)
THEOREM TypeCorrect == Spec => []TypeOK
  <1>1. Init => TypeOK
    BY InitTypes
  <1>2. TypeOK /\ [Next]_vars => TypeOK'
    BY StepKeepsTypes
  <1>3. QED
    BY <1>1, <1>2, PTL DEF Spec

-----------------------------------------------------------------------------
(* The inductive invariant.  NoSilentLoss alone is not inductive: that a   *)
(* record may be evicted without loss rests on UnsavedIsQueued; that a     *)
(* save which lands does not put an older document over a newer one, on    *)
(* SavingIsQueued; and that an unlink which completes takes nothing that   *)
(* was recorded after the deletion, on UnlinkIsQuiet.                      *)

(* An id the process holds anything of is known, so that trackActivity     *)
(* reads its file back instead of starting over.                           *)
HeldIsKnown ==
  \A s \in Session :
    Resident(s) \/ OnDisk(s) \/ saving = s \/ loads[s] # NoLoad =>
      s \in knownSessionIds

(* A record whose save is in flight is still resident, and if it moved on  *)
(* since, it will be saved again.                                          *)
SavingIsQueued ==
  \A s \in Session \ exposed :
    saving = s => /\ Resident(s)
                  /\ payload = sessions[s] \/ s \in dirtySessionIds \/ InChain(s)

(* While an unlink is pending nothing else holds the deleted session.      *)
UnlinkIsQuiet ==
  \A s \in Session \ exposed :
    unlinking[s] # "no" =>
      ~Resident(s) /\ saving # s /\ loads[s] = NoLoad /\ accepted[s] = {}

IInv ==
  /\ TypeOK
  /\ HeldIsKnown
  /\ DirtyHasTimer
  /\ UnsavedIsQueued
  /\ SavingIsQueued
  /\ NoSilentLoss
  /\ UnlinkIsQuiet
  /\ DeletedStaysDeleted

(* What the steps of the write chain do to the ids waiting in it: a drain  *)
(* adds ids and loses none, an id struck from the batch being written      *)
(* stays wherever else it waits, and a batch that leaves takes no id with  *)
(* it but its own.                                                         *)
LEMMA DrainKeeps ==
  ASSUME TypeOK, NEW ids \in SUBSET Session, Drain(ids)
  PROVE  \A t \in Session : InChain(t) \/ t \in ids => InChain(t)'
  <1>1. CASE ids = {}
    BY <1>1 DEF TypeOK, Drain, InChain
  <1>2. CASE ids # {}
    <2>1. writeChain' = Append(writeChain, ids) /\ Len(writeChain) \in Nat
      BY <1>2 DEF TypeOK, Drain
    <2>2. /\ DOMAIN writeChain' = 1 .. Len(writeChain) + 1
          /\ DOMAIN writeChain = 1 .. Len(writeChain)
          /\ \A i \in DOMAIN writeChain : writeChain'[i] = writeChain[i]
          /\ writeChain'[Len(writeChain) + 1] = ids
      BY <2>1 DEF TypeOK
    <2>3. DOMAIN writeChain \subseteq DOMAIN writeChain'
      BY <2>1, <2>2
    <2>4. Len(writeChain) + 1 \in DOMAIN writeChain'
      BY <2>1, <2>2
    <2>5. QED
      BY <2>2, <2>3, <2>4 DEF InChain
  <1>3. QED
    BY <1>1, <1>2

LEMMA StrikeKeeps ==
  ASSUME TypeOK, NEW s \in Session, writeChain # <<>>,
         writeChain' = [writeChain EXCEPT ![1] = @ \ {s}]
  PROVE  \A t \in Session \ {s} : InChain(t) => InChain(t)'
  BY StruckChain DEF TypeOK, InChain

LEMMA LeaveKeeps ==
  ASSUME TypeOK, writeChain # <<>>, writeChain' = Tail(writeChain)
  PROVE  \A t \in Session : InChain(t) /\ t \notin Head(writeChain) => InChain(t)'
  <1> SUFFICES ASSUME NEW t \in Session, NEW i \in DOMAIN writeChain,
                      t \in writeChain[i], t \notin Head(writeChain)
               PROVE  \E j \in DOMAIN writeChain' : t \in writeChain'[j]
    BY DEF InChain
  <1>1. i \in 1 .. Len(writeChain) /\ i # 1 /\ Len(writeChain) \in Nat
    BY DEF TypeOK
  <1>2. /\ i - 1 \in DOMAIN writeChain'
        /\ writeChain'[i - 1] = writeChain[i]
    BY <1>1 DEF TypeOK
  <1>3. QED
    BY <1>2

(* Every step keeps the inductive invariant.                               *)
LEMMA StepKeepsIInv == IInv /\ [Next]_vars => IInv'
  <1> SUFFICES ASSUME IInv, [Next]_vars PROVE IInv'
    OBVIOUS
  <1>0. TypeOK /\ TypeOK'
    BY StepKeepsTypes DEF IInv
  <1> USE DEF memVars, writeVars, requestVars, phaseVars, ghostVars
  <1>1. ASSUME NEW s \in Session, TrackActivity(s) PROVE IInv'
    <2>1. /\ sessions'[s] # Absent
          /\ sessions'[s].events = ActivityBase(s).events \cup {clock + 1}
          /\ \A t \in Session \ {s} : sessions'[t] = sessions[t]
      BY <1>0, <1>1, NextRecord DEF TypeOK, TrackActivity
    <2>2. /\ accepted'[s] = accepted[s] \cup {clock + 1}
          /\ \A t \in Session \ {s} : accepted'[t] = accepted[t]
          /\ dirtySessionIds' = dirtySessionIds \cup {s} /\ persistTimer'
          /\ knownSessionIds' = knownSessionIds \cup {s} /\ gone' = gone \ {s}
          /\ exposed \subseteq exposed' /\ (unlinking[s] # "no" => s \in exposed')
          /\ UNCHANGED <<writeVars, requestVars>>
      BY <1>0, <1>1 DEF TypeOK, TrackActivity, RegisterKnown, SchedulePersist
    <2>3. HeldIsKnown'
      BY <1>0, <2>1, <2>2
      DEF IInv, TypeOK, HeldIsKnown, Resident, OnDisk
    <2>4. DirtyHasTimer'
      BY <1>0, <2>1, <2>2
      DEF IInv, TypeOK, DirtyHasTimer, Resident, OnDisk
    <2>5. UnsavedIsQueued'
      BY <1>0, <2>1, <2>2
      DEF IInv, TypeOK, UnsavedIsQueued, Resident, OnDisk, InChain
    <2>6. SavingIsQueued'
      BY <1>0, <2>1, <2>2
      DEF IInv, TypeOK, SavingIsQueued, Resident, OnDisk, InChain
    <2>7. NoSilentLoss'
      BY <1>0, <2>1, <2>2
      DEF IInv, TypeOK, HeldIsKnown, NoSilentLoss, Resident, OnDisk, InChain, ActivityBase
    <2>8. UnlinkIsQuiet'
      BY <1>0, <2>1, <2>2
      DEF IInv, TypeOK, UnlinkIsQuiet, Resident, OnDisk
    <2>9. DeletedStaysDeleted'
      BY <1>0, <2>1, <2>2
      DEF IInv, TypeOK, DeletedStaysDeleted, Resident, OnDisk
    <2>10. QED
      BY <1>0, <2>3, <2>4, <2>5, <2>6, <2>7, <2>8, <2>9 DEF IInv
  <1>2. ASSUME NEW s \in Session, Amend(s) PROVE IInv'
    <2>1. /\ sessions'[s] # Absent
          /\ sessions'[s].events = sessions[s].events \cup {clock + 1}
          /\ \A t \in Session \ {s} : sessions'[t] = sessions[t]
      BY <1>0, <1>2, NextRecord DEF TypeOK, Amend
    <2>2. /\ accepted'[s] = accepted[s] \cup {clock + 1}
          /\ \A t \in Session \ {s} : accepted'[t] = accepted[t]
          /\ dirtySessionIds' = dirtySessionIds \cup {s} /\ persistTimer'
          /\ UNCHANGED <<knownSessionIds, exposed, gone>>
          /\ UNCHANGED <<writeVars, requestVars>>
      BY <1>0, <1>2 DEF TypeOK, Amend, SchedulePersist
    <2>3. Resident(s)
      BY <1>2 DEF Amend
    <2>4. HeldIsKnown'
      BY <1>0, <2>1, <2>2, <2>3
      DEF IInv, TypeOK, HeldIsKnown, Resident, OnDisk
    <2>5. DirtyHasTimer'
      BY <1>0, <2>1, <2>2, <2>3
      DEF IInv, TypeOK, DirtyHasTimer, Resident, OnDisk
    <2>6. UnsavedIsQueued'
      BY <1>0, <2>1, <2>2, <2>3
      DEF IInv, TypeOK, UnsavedIsQueued, Resident, OnDisk, InChain
    <2>7. SavingIsQueued'
      BY <1>0, <2>1, <2>2, <2>3
      DEF IInv, TypeOK, SavingIsQueued, Resident, OnDisk, InChain
    <2>8. NoSilentLoss'
      BY <1>0, <2>1, <2>2, <2>3
      DEF IInv, TypeOK, NoSilentLoss, Resident, OnDisk, InChain
    <2>9. UnlinkIsQuiet'
      BY <1>0, <2>1, <2>2, <2>3
      DEF IInv, TypeOK, UnlinkIsQuiet, Resident, OnDisk
    <2>10. DeletedStaysDeleted'
      BY <1>0, <2>1, <2>2, <2>3
      DEF IInv, TypeOK, DeletedStaysDeleted, Resident, OnDisk
    <2>11. QED
      BY <1>0, <2>4, <2>5, <2>6, <2>7, <2>8, <2>9, <2>10 DEF IInv
  <1>3. ASSUME NEW s \in Session, Sweep(s) PROVE IInv'
    <2>1. /\ sessions'[s] # Absent
          /\ sessions'[s].events = sessions[s].events \cup {clock + 1}
          /\ \A t \in Session \ {s} : sessions'[t] = sessions[t]
      BY <1>0, <1>3, NextRecord DEF TypeOK, Sweep
    <2>2. /\ dirtySessionIds' = {}
          /\ \A t \in Session :
               InChain(t) \/ t \in dirtySessionIds \cup {s} => InChain(t)'
          /\ UNCHANGED <<knownSessionIds, persistTimer, saving, payload, disk,
                        requestVars, ghostVars>>
      BY <1>0, <1>3, DrainKeeps, DrainClears DEF TypeOK, Sweep
    <2>3. Resident(s)
      BY <1>3 DEF Sweep
    <2>4. HeldIsKnown'
      BY <1>0, <2>1, <2>2, <2>3
      DEF IInv, TypeOK, HeldIsKnown, Resident, OnDisk
    <2>5. DirtyHasTimer'
      BY <1>0, <2>1, <2>2, <2>3
      DEF IInv, TypeOK, DirtyHasTimer, Resident, OnDisk
    <2>6. UnsavedIsQueued'
      BY <1>0, <2>1, <2>2, <2>3
      DEF IInv, TypeOK, UnsavedIsQueued, Resident, OnDisk
    <2>7. SavingIsQueued'
      BY <1>0, <2>1, <2>2, <2>3
      DEF IInv, TypeOK, SavingIsQueued, Resident, OnDisk
    <2>8. NoSilentLoss'
      BY <1>0, <2>1, <2>2, <2>3
      DEF IInv, TypeOK, NoSilentLoss, Resident, OnDisk
    <2>9. UnlinkIsQuiet'
      BY <1>0, <2>1, <2>2, <2>3
      DEF IInv, TypeOK, UnlinkIsQuiet, Resident, OnDisk
    <2>10. DeletedStaysDeleted'
      BY <1>0, <2>1, <2>2, <2>3
      DEF IInv, TypeOK, DeletedStaysDeleted, Resident, OnDisk
    <2>11. QED
      BY <1>0, <2>4, <2>5, <2>6, <2>7, <2>8, <2>9, <2>10 DEF IInv
  <1>4. ASSUME NEW s \in Session, LookupStart(s) PROVE IInv'
    BY <1>0, <1>4, RecordFacts
    DEF IInv, TypeOK, HeldIsKnown, DirtyHasTimer, UnsavedIsQueued,
        SavingIsQueued, NoSilentLoss, UnlinkIsQuiet, DeletedStaysDeleted,
        Resident, OnDisk, InChain, LookupStart
  <1>5. ASSUME NEW s \in Session, LookupRead(s) PROVE IInv'
    BY <1>0, <1>5, RecordFacts, LoadFacts
    DEF IInv, TypeOK, HeldIsKnown, DirtyHasTimer, UnsavedIsQueued,
        SavingIsQueued, NoSilentLoss, UnlinkIsQuiet, DeletedStaysDeleted,
        Resident, OnDisk, InChain, LookupRead
  <1>6. ASSUME NEW s \in Session, LookupInstall(s) PROVE IInv'
    <2> USE DEF Resident, OnDisk, InChain, LookupInstall, VictimSets, StaleLookup, Queued
    <2>1. HeldIsKnown'
      BY <1>0, <1>6, RecordFacts, LoadFacts
      DEF IInv, TypeOK, HeldIsKnown
    <2>2. DirtyHasTimer'
      BY <1>0, <1>6, RecordFacts, LoadFacts
      DEF IInv, TypeOK, DirtyHasTimer
    <2>3. UnsavedIsQueued'
      BY <1>0, <1>6, RecordFacts, LoadFacts
      DEF IInv, TypeOK, UnsavedIsQueued, SavingIsQueued
    <2>4. SavingIsQueued'
      BY <1>0, <1>6, RecordFacts, LoadFacts
      DEF IInv, TypeOK, SavingIsQueued
    <2>5. NoSilentLoss'
      BY <1>0, <1>6, RecordFacts, LoadFacts
      DEF IInv, TypeOK, UnsavedIsQueued, NoSilentLoss
    <2>6. UnlinkIsQuiet'
      BY <1>0, <1>6, RecordFacts, LoadFacts
      DEF IInv, TypeOK, UnlinkIsQuiet
    <2>7. DeletedStaysDeleted'
      BY <1>0, <1>6, RecordFacts, LoadFacts
      DEF IInv, TypeOK, DeletedStaysDeleted
    <2>8. QED
      BY <1>0, <2>1, <2>2, <2>3, <2>4, <2>5, <2>6, <2>7 DEF IInv
  <1>7. ASSUME NEW s \in Session, Delete(s) PROVE IInv'
    BY <1>0, <1>7, RecordFacts
    DEF IInv, TypeOK, HeldIsKnown, DirtyHasTimer, UnsavedIsQueued,
        SavingIsQueued, NoSilentLoss, UnlinkIsQuiet, DeletedStaysDeleted,
        Resident, OnDisk, InChain, Delete, Forget, InWindow
  <1>8. ASSUME NEW s \in Session, ClearNext(s) PROVE IInv'
    BY <1>0, <1>8, RecordFacts
    DEF IInv, TypeOK, HeldIsKnown, DirtyHasTimer, UnsavedIsQueued,
        SavingIsQueued, NoSilentLoss, UnlinkIsQuiet, DeletedStaysDeleted,
        Resident, OnDisk, InChain, ClearNext, Forget, InWindow
  <1>9. ASSUME NEW s \in Session, Unlinked(s) PROVE IInv'
    BY <1>0, <1>9, RecordFacts
    DEF IInv, TypeOK, HeldIsKnown, DirtyHasTimer, UnsavedIsQueued,
        SavingIsQueued, NoSilentLoss, UnlinkIsQuiet, DeletedStaysDeleted,
        Resident, OnDisk, InChain, Unlinked
  <1>10. ASSUME NEW ids \in SUBSET Session, ClearStart(ids) PROVE IInv'
    BY <1>0, <1>10
    DEF IInv, TypeOK, HeldIsKnown, DirtyHasTimer, UnsavedIsQueued,
        SavingIsQueued, NoSilentLoss, UnlinkIsQuiet, DeletedStaysDeleted,
        Resident, OnDisk, InChain, ClearStart
  <1>11. CASE PersistTimerFires
    BY <1>0, <1>11, DrainKeeps, DrainClears
    DEF IInv, TypeOK, HeldIsKnown, DirtyHasTimer, UnsavedIsQueued,
        SavingIsQueued, NoSilentLoss, UnlinkIsQuiet, DeletedStaysDeleted,
        Resident, OnDisk, InChain, PersistTimerFires
  <1>12. ASSUME NEW s \in Session, BeginSave(s) PROVE IInv'
    BY <1>0, <1>12, StrikeKeeps, SessionAssumption
    DEF IInv, TypeOK, HeldIsKnown, DirtyHasTimer, UnsavedIsQueued,
        SavingIsQueued, NoSilentLoss, UnlinkIsQuiet, DeletedStaysDeleted,
        Resident, OnDisk, InChain, BeginSave
  <1>13. CASE SaveLands
    BY <1>0, <1>13, RecordFacts, SessionAssumption
    DEF IInv, TypeOK, HeldIsKnown, DirtyHasTimer, UnsavedIsQueued,
        SavingIsQueued, NoSilentLoss, UnlinkIsQuiet, DeletedStaysDeleted,
        Resident, OnDisk, InChain, SaveLands
  <1>14. CASE BatchDone
    BY <1>0, <1>14, LeaveKeeps
    DEF IInv, TypeOK, HeldIsKnown, DirtyHasTimer, UnsavedIsQueued,
        SavingIsQueued, NoSilentLoss, UnlinkIsQuiet, DeletedStaysDeleted,
        Resident, OnDisk, InChain, BatchDone, BatchLeaves
  <1>15. CASE SaveFails
    BY <1>0, <1>15, LeaveKeeps, SessionAssumption
    DEF IInv, TypeOK, HeldIsKnown, DirtyHasTimer, UnsavedIsQueued,
        SavingIsQueued, NoSilentLoss, UnlinkIsQuiet, DeletedStaysDeleted,
        Resident, OnDisk, InChain, SaveFails, BatchLeaves
  <1>16. CASE FlushStart
    BY <1>0, <1>16, DrainKeeps, DrainClears
    DEF IInv, TypeOK, HeldIsKnown, DirtyHasTimer, UnsavedIsQueued,
        SavingIsQueued, NoSilentLoss, UnlinkIsQuiet, DeletedStaysDeleted,
        Resident, OnDisk, InChain, FlushStart
  <1>17. CASE FlushAgain
    BY <1>0, <1>17
    DEF IInv, TypeOK, HeldIsKnown, DirtyHasTimer, UnsavedIsQueued,
        SavingIsQueued, NoSilentLoss, UnlinkIsQuiet, DeletedStaysDeleted,
        Resident, OnDisk, InChain, FlushAgain
  <1>18. CASE FlushReturns
    BY <1>0, <1>18
    DEF IInv, TypeOK, HeldIsKnown, DirtyHasTimer, UnsavedIsQueued,
        SavingIsQueued, NoSilentLoss, UnlinkIsQuiet, DeletedStaysDeleted,
        Resident, OnDisk, InChain, FlushReturns
  <1>19. CASE Restart
    BY <1>0, <1>19, RecordFacts, SessionAssumption
    DEF IInv, TypeOK, HeldIsKnown, DirtyHasTimer, UnsavedIsQueued,
        SavingIsQueued, NoSilentLoss, UnlinkIsQuiet, DeletedStaysDeleted,
        Resident, OnDisk, InChain, Restart, LoadSets
  <1>20. CASE UNCHANGED vars
    BY <1>0, <1>20
    DEF IInv, TypeOK, HeldIsKnown, DirtyHasTimer, UnsavedIsQueued,
        SavingIsQueued, NoSilentLoss, UnlinkIsQuiet, DeletedStaysDeleted,
        Resident, OnDisk, InChain, vars
  <1>21. QED
    BY <1>1, <1>2, <1>3, <1>4, <1>5, <1>6, <1>7, <1>8, <1>9, <1>10, <1>11,
       <1>12, <1>13, <1>14, <1>15, <1>16, <1>17, <1>18, <1>19, <1>20
    DEF Next, Write

LEMMA InductiveInvariant == Spec => []IInv
  <1>1. Init => IInv
    <2>1. Init => TypeOK
      BY InitTypes
    <2>2. QED
      BY <2>1, SessionAssumption
      DEF Init, IInv, HeldIsKnown, DirtyHasTimer, UnsavedIsQueued, SavingIsQueued,
          NoSilentLoss, UnlinkIsQuiet, DeletedStaysDeleted, Resident, OnDisk
  <1>2. QED
    BY <1>1, StepKeepsIInv, PTL DEF Spec

(* A change that is not on disk is never forgotten: outside the windows it *)
(* is dirty, queued or being saved (schedulePersist, drainDirtySessions).  *)
THEOREM UnsavedAlwaysQueued == Spec => []UnsavedIsQueued
  BY InductiveInvariant, PTL DEF IInv

(* No event is lost but through a failed save, the eviction of a queued    *)
(* record, an outdated lookup, or an overtaken deletion.                   *)
THEOREM LossOnlyInWindows == Spec => []NoSilentLoss
  BY InductiveInvariant, PTL DEF IInv

(* trackActivity never starts a second record over an existing file.       *)
THEOREM FilesAreKnown == Spec => []KnownCoversDisk
  <1>1. IInv => KnownCoversDisk
    BY DEF IInv, HeldIsKnown, KnownCoversDisk
  <1>2. QED
    BY <1>1, InductiveInvariant, PTL

(* A dirty session always has an armed debounce timer.                     *)
THEOREM DirtyAlwaysTimed == Spec => []DirtyHasTimer
  BY InductiveInvariant, PTL DEF IInv

(* An acknowledged deletion is undone by no queued save, lookup or restart, *)
(* the windows apart.                                                      *)
THEOREM DeletionIsFinal == Spec => []DeletedStaysDeleted
  BY InductiveInvariant, PTL DEF IInv

-----------------------------------------------------------------------------
(* What flush() waits for.  Its first await is on the chain as it stood    *)
(* when the dirty ids had been drained into it; sweeps may lengthen the    *)
(* chain behind that.                                                      *)
AwaitedIn(s) == \E i \in DOMAIN writeChain : i <= awaited /\ s \in writeChain[i]

(* What is being saved is of the batch at the head of the chain.           *)
SavingHasBatch == saving # NoSession => writeChain # <<>>

(* Once flush() has begun, what was accepted of a session is in its file,  *)
(* or is being written, or waits in a batch that flush() waits for; and    *)
(* what is being written holds it, or is followed by such a batch.         *)
FlushCovers ==
  phase # "running" =>
    \A s \in Session \ exposed :
      /\ \/ accepted[s] \subseteq disk[s].events
         \/ saving = s /\ awaited > 0 /\ accepted[s] \subseteq payload.events
         \/ AwaitedIn(s)
      /\ saving = s => accepted[s] \subseteq payload.events \/ AwaitedIn(s)

(* flush() returns when nothing is left that it waits for.                 *)
StoppedIsThrough == phase = "stopped" => awaited = 0

FlushInv == SavingHasBatch /\ FlushCovers /\ StoppedIsThrough

(* A drain lengthens the chain behind what is awaited, an id is struck     *)
(* from the first batch only, and a batch that leaves has been written.    *)
LEMMA DrainAwaited ==
  ASSUME TypeOK, NEW ids \in SUBSET Session, Drain(ids), awaited' = awaited
  PROVE  /\ \A t \in Session : AwaitedIn(t) => AwaitedIn(t)'
         /\ writeChain # <<>> => writeChain' # <<>>
  <1>1. CASE ids = {}
    BY <1>1 DEF Drain, AwaitedIn
  <1>2. CASE ids # {}
    <2>1. writeChain' = Append(writeChain, ids) /\ Len(writeChain) \in Nat
      BY <1>2 DEF TypeOK, Drain
    <2>2. /\ DOMAIN writeChain \subseteq DOMAIN writeChain'
          /\ \A i \in DOMAIN writeChain : writeChain'[i] = writeChain[i]
          /\ writeChain' # <<>>
      BY <2>1 DEF TypeOK
    <2>3. QED
      BY <2>2 DEF AwaitedIn
  <1>3. QED
    BY <1>1, <1>2

LEMMA StrikeAwaited ==
  ASSUME TypeOK, NEW s \in Session, writeChain # <<>>, awaited' = awaited,
         writeChain' = [writeChain EXCEPT ![1] = @ \ {s}]
  PROVE  /\ \A t \in Session \ {s} : AwaitedIn(t) => AwaitedIn(t)'
         /\ AwaitedIn(s) => awaited > 0
         /\ writeChain' # <<>>
  <1>1. /\ DOMAIN writeChain' = DOMAIN writeChain
        /\ writeChain' \in Seq(SUBSET Session) /\ Len(writeChain') = Len(writeChain)
        /\ \A i \in DOMAIN writeChain : writeChain[i] \ {s} \subseteq writeChain'[i]
    BY StruckChain DEF TypeOK
  <1>2. \A i \in DOMAIN writeChain : i > 0 /\ i \in Nat
    BY DEF TypeOK
  <1>3. QED
    BY <1>1, <1>2 DEF AwaitedIn, TypeOK

LEMMA LeaveAwaited ==
  ASSUME TypeOK, writeChain # <<>>, BatchLeaves
  PROVE  \A t \in Session : AwaitedIn(t) /\ t \notin Head(writeChain) => AwaitedIn(t)'
  <1> SUFFICES ASSUME NEW t \in Session, NEW i \in DOMAIN writeChain, i <= awaited,
                      t \in writeChain[i], t \notin Head(writeChain)
               PROVE  \E j \in DOMAIN writeChain' : j <= awaited' /\ t \in writeChain'[j]
    BY DEF AwaitedIn
  <1>1. i \in 1 .. Len(writeChain) /\ i # 1 /\ Len(writeChain) \in Nat
    BY DEF TypeOK
  <1>2. /\ i - 1 \in DOMAIN writeChain'
        /\ writeChain'[i - 1] = writeChain[i]
    BY <1>1 DEF TypeOK, BatchLeaves
  <1>3. awaited \in Nat /\ awaited' = awaited - 1
    BY <1>1 DEF TypeOK, BatchLeaves
  <1>4. QED
    BY <1>1, <1>2, <1>3

LEMMA FlushKept == IInv /\ FlushInv /\ [Next]_vars => FlushInv'
  <1> SUFFICES ASSUME IInv, FlushInv, [Next]_vars PROVE FlushInv'
    OBVIOUS
  <1>0. TypeOK /\ TypeOK' /\ IInv'
    BY StepKeepsTypes, StepKeepsIInv DEF IInv
  <1> USE DEF memVars, writeVars, requestVars, phaseVars, ghostVars
  <1>a. ASSUME phase' # "running" => phase # "running",
               phase' = "stopped" => phase = "stopped",
               awaited' = awaited, UNCHANGED <<saving, payload, disk>>,
               exposed \subseteq exposed',
               \A t \in Session : accepted'[t] \subseteq accepted[t] \/ phase = "running",
               \A t \in Session : AwaitedIn(t) => AwaitedIn(t)',
               writeChain # <<>> => writeChain' # <<>>
        PROVE  FlushInv'
    BY <1>a DEF FlushInv, SavingHasBatch, FlushCovers, StoppedIsThrough
  <1>b. ASSUME UNCHANGED <<phase, writeVars, awaited>>,
               exposed \subseteq exposed',
               \A t \in Session : accepted'[t] \subseteq accepted[t] \/ phase = "running"
        PROVE  FlushInv'
    <2>1. \A t \in Session : AwaitedIn(t) => AwaitedIn(t)'
      BY <1>b DEF AwaitedIn
    <2>2. QED
      BY <1>a, <1>b, <2>1
  <1>1. ASSUME NEW s \in Session, TrackActivity(s) PROVE FlushInv'
    BY <1>1, <1>b DEF TrackActivity
  <1>2. ASSUME NEW s \in Session, Amend(s) PROVE FlushInv'
    BY <1>2, <1>b DEF Amend
  <1>3. ASSUME NEW s \in Session, Sweep(s) PROVE FlushInv'
    BY <1>0, <1>3, <1>a, DrainAwaited DEF Sweep, TypeOK
  <1>4. ASSUME NEW s \in Session, LookupStart(s) \/ LookupRead(s) \/ LookupInstall(s)
        PROVE  FlushInv'
    BY <1>4, <1>b DEF LookupStart, LookupRead, LookupInstall
  <1>5. ASSUME NEW s \in Session, Delete(s) \/ ClearNext(s) PROVE FlushInv'
    <2>1. /\ UNCHANGED <<phase, writeVars, awaited>> /\ exposed \subseteq exposed'
          /\ accepted' = [accepted EXCEPT ![s] = {}]
      BY <1>5 DEF Delete, ClearNext, Forget
    <2>2. QED
      BY <1>0, <1>b, <2>1 DEF TypeOK
  <1>6. ASSUME NEW s \in Session, Unlinked(s) PROVE FlushInv'
    <2>1. /\ \A t \in Session \ {s} : disk'[t] = disk[t]
          /\ s \notin exposed => accepted[s] = {}
          /\ UNCHANGED <<writeChain, saving, payload, phase, awaited, accepted, exposed>>
      BY <1>0, <1>6 DEF Unlinked, TypeOK, IInv, UnlinkIsQuiet
    <2>2. \A t \in Session : AwaitedIn(t)' <=> AwaitedIn(t)
      BY <2>1 DEF AwaitedIn
    <2>3. QED
      BY <2>1, <2>2 DEF FlushInv, SavingHasBatch, FlushCovers, StoppedIsThrough
  <1>7. ASSUME NEW ids \in SUBSET Session, ClearStart(ids) PROVE FlushInv'
    BY <1>7, <1>b DEF ClearStart
  <1>8. CASE PersistTimerFires
    BY <1>0, <1>8, <1>a, DrainAwaited DEF PersistTimerFires, TypeOK
  <1>9. ASSUME NEW s \in Session, BeginSave(s) PROVE FlushInv'
    <2>1. /\ \A t \in Session \ {s} : AwaitedIn(t) => AwaitedIn(t)'
          /\ AwaitedIn(s) => awaited > 0
          /\ writeChain' # <<>>
      BY <1>0, <1>9, StrikeAwaited DEF BeginSave
    <2>2. /\ saving = NoSession /\ UNCHANGED <<disk, phase, awaited, accepted, exposed>>
          /\ IF Resident(s) THEN saving' = s /\ payload' = sessions[s]
             ELSE UNCHANGED <<saving, payload>>
      BY <1>9 DEF BeginSave
    <2>3. s \notin exposed =>
            accepted[s] \subseteq (IF Resident(s) THEN sessions[s] ELSE disk[s]).events
      BY DEF IInv, NoSilentLoss
    <2>4. QED
      BY <2>1, <2>2, <2>3, SessionAssumption DEF FlushInv, SavingHasBatch, FlushCovers, StoppedIsThrough
  <1>10. CASE SaveLands
    <2>1. /\ saving \in Session /\ disk'[saving] = payload /\ saving' = NoSession
          /\ \A t \in Session \ {saving} : disk'[t] = disk[t]
          /\ UNCHANGED <<writeChain, phase, awaited, accepted, exposed>>
      BY <1>0, <1>10 DEF SaveLands, TypeOK
    <2>2. \A t \in Session : AwaitedIn(t)' <=> AwaitedIn(t)
      BY <2>1 DEF AwaitedIn
    <2>3. QED
      BY <2>1, <2>2, SessionAssumption DEF FlushInv, SavingHasBatch, FlushCovers, StoppedIsThrough
  <1>11. CASE BatchDone
    <2>1. /\ saving = NoSession /\ UNCHANGED <<saving, payload, disk, phase, accepted, exposed>>
          /\ \A t \in Session : AwaitedIn(t) => AwaitedIn(t)'
      BY <1>0, <1>11, LeaveAwaited DEF BatchDone
    <2>2. awaited = 0 => awaited' = 0
      BY <1>11 DEF BatchDone, BatchLeaves
    <2>3. QED
      BY <2>1, <2>2, <1>11, SessionAssumption
      DEF BatchDone, FlushInv, SavingHasBatch, FlushCovers, StoppedIsThrough
  <1>12. CASE SaveFails
    <2>1. /\ saving' = NoSession /\ UNCHANGED <<disk, phase, accepted>>
          /\ exposed' = exposed \cup {saving} \cup Head(writeChain)
          /\ \A t \in Session \ Head(writeChain) : AwaitedIn(t) => AwaitedIn(t)'
      BY <1>0, <1>12, LeaveAwaited DEF SaveFails
    <2>2. awaited = 0 => awaited' = 0
      BY <1>12 DEF SaveFails, BatchLeaves
    <2>3. QED
      BY <2>1, <2>2, SessionAssumption DEF FlushInv, SavingHasBatch, FlushCovers, StoppedIsThrough
  <1>13. CASE FlushStart
    <2>1. /\ UNCHANGED <<saving, payload, disk, sessions, accepted, exposed>>
          /\ awaited' = Len(writeChain')
          /\ \A t \in Session : InChain(t) \/ t \in dirtySessionIds => InChain(t)'
      BY <1>0, <1>13, DrainKeeps DEF FlushStart, TypeOK
    <2>2. \A t \in Session : InChain(t)' => AwaitedIn(t)'
      BY <1>0, <2>1 DEF InChain, AwaitedIn, TypeOK
    <2>3. writeChain # <<>> => writeChain' # <<>> /\ awaited' > 0
      <3>1. writeChain' = writeChain
              \/ writeChain' = Append(writeChain, dirtySessionIds)
        BY <1>13 DEF FlushStart, Drain
      <3>2. writeChain # <<>> => Len(writeChain') > 0
        BY <1>0, <3>1 DEF TypeOK
      <3>3. QED
        BY <1>0, <2>1, <3>2 DEF TypeOK
    <2>4. ASSUME NEW s \in Session \ exposed
          PROVE  /\ \/ accepted[s] \subseteq disk[s].events
                    \/ /\ saving = s /\ writeChain # <<>>
                       /\ accepted[s] \subseteq payload.events
                    \/ AwaitedIn(s)'
                 /\ saving = s => accepted[s] \subseteq payload.events \/ AwaitedIn(s)'
      BY <2>1, <2>2, SessionAssumption
      DEF IInv, NoSilentLoss, UnsavedIsQueued, SavingIsQueued, FlushInv, SavingHasBatch
    <2>5. QED
      BY <1>13, <2>1, <2>3, <2>4 DEF FlushStart, FlushInv, SavingHasBatch, FlushCovers, StoppedIsThrough
  <1>14. CASE FlushAgain
    <2>1. ASSUME NEW s \in Session PROVE ~AwaitedIn(s)
      BY <1>0, <1>14 DEF FlushAgain, AwaitedIn, TypeOK
    <2>2. QED
      BY <1>14, <2>1 DEF FlushAgain, FlushInv, SavingHasBatch, FlushCovers, StoppedIsThrough
  <1>15. CASE FlushReturns
    <2>1. \A t \in Session : AwaitedIn(t)' <=> AwaitedIn(t)
      BY <1>15 DEF FlushReturns, AwaitedIn
    <2>2. QED
      BY <1>15, <2>1 DEF FlushReturns, FlushInv, SavingHasBatch, FlushCovers, StoppedIsThrough
  <1>16. CASE Restart
    BY <1>16 DEF Restart, FlushInv, SavingHasBatch, FlushCovers, StoppedIsThrough
  <1>17. CASE UNCHANGED vars
    BY <1>17, <1>b DEF vars
  <1>18. QED
    BY <1>1, <1>2, <1>3, <1>4, <1>5, <1>6, <1>7, <1>8, <1>9, <1>10, <1>11,
       <1>12, <1>13, <1>14, <1>15, <1>16, <1>17
    DEF Next, Write

(* When flush() returns, what was accepted before it is in the files,      *)
(* whatever the sweeps, lookups and clears that went on while it waited    *)
(* (SessionManager.flush, InspectorHookCore.stop).                         *)
THEOREM FlushIsComplete == Spec => []FlushSavesAll
  <1>1. Init => FlushInv
    BY DEF Init, FlushInv, SavingHasBatch, FlushCovers, StoppedIsThrough
  <1>2. IInv /\ FlushInv /\ [Next]_vars => FlushInv'
    BY FlushKept
  <1>3. IInv /\ FlushInv => FlushSavesAll
    <2>1. TypeOK /\ awaited = 0 => \A s \in Session : ~AwaitedIn(s)
      BY DEF TypeOK, AwaitedIn
    <2>2. QED
      BY <2>1 DEF IInv, FlushInv, FlushCovers, StoppedIsThrough, FlushSavesAll
  <1>4. QED
    BY <1>1, <1>2, <1>3, InductiveInvariant, PTL DEF Spec

-----------------------------------------------------------------------------
(* The store keeps the promise of DurableLedger.  Two facts of its own are *)
(* needed: an event is numbered by the clock, so that the next one is new  *)
(* to every copy of a record; and a save that lands takes nothing off the  *)
(* file that was accepted, the windows apart.                              *)
OfThePast(E) == E \subseteq 1 .. clock

CopiesAreOfThePast ==
  /\ OfThePast(payload.events)
  /\ \A s \in Session : /\ OfThePast(sessions[s].events)
                        /\ OfThePast(disk[s].events)
                        /\ OfThePast(loads[s].rec.events)
                        /\ OfThePast(accepted[s])

SaveTakesNothing ==
  \A s \in Session \ exposed :
    saving = s => accepted[s] \cap disk[s].events \subseteq payload.events

LedgerInv == CopiesAreOfThePast /\ SaveTakesNothing

(* What happens at the tick of the clock is of the past after it.          *)
LEMMA ClockTicks ==
  ASSUME clock \in 0 .. MaxEvents, clock' = clock + 1
  PROVE  /\ clock + 1 \notin 1 .. clock
         /\ 1 .. clock \subseteq 1 .. clock'
         /\ clock + 1 \in 1 .. clock'
  BY BoundAssumption

(* Every step keeps the copies of the past.                                *)
LEMMA CopiesKept == IInv /\ CopiesAreOfThePast /\ [Next]_vars => CopiesAreOfThePast'
  <1> SUFFICES ASSUME IInv, CopiesAreOfThePast, [Next]_vars PROVE CopiesAreOfThePast'
    OBVIOUS
  <1>0. TypeOK
    BY DEF IInv
  <1> USE DEF TypeOK, CopiesAreOfThePast, OfThePast, memVars, writeVars, requestVars,
              phaseVars, ghostVars
  <1>a. ASSUME NEW s \in Session, NEW E, OfThePast(E), NEW l, clock' = clock + 1,
               sessions' = [sessions EXCEPT ![s] =
                              [events |-> E \cup {clock + 1}, last |-> l]],
               accepted' = [accepted EXCEPT ![s] = @ \cup {clock + 1}]
                 \/ accepted' = accepted,
               UNCHANGED <<payload, disk, loads>>
        PROVE  CopiesAreOfThePast'
    <2>1. 1 .. clock \subseteq 1 .. clock' /\ clock + 1 \in 1 .. clock'
      BY <1>0, <1>a, ClockTicks
    <2>2. \A t \in Session : OfThePast(sessions[t].events)' /\ OfThePast(accepted[t])'
      <3>1. /\ sessions'[s].events = E \cup {clock + 1}
            /\ accepted'[s] \subseteq accepted[s] \cup {clock + 1}
        BY <1>0, <1>a
      <3>2. \A t \in Session \ {s} : sessions'[t] = sessions[t] /\ accepted'[t] = accepted[t]
        BY <1>0, <1>a
      <3>3. /\ sessions'[s].events \subseteq 1 .. clock'
            /\ accepted'[s] \subseteq 1 .. clock'
        BY <1>a, <2>1, <3>1
      <3>4. QED
        BY <2>1, <3>2, <3>3
    <2>3. /\ payload'.events \subseteq 1 .. clock'
          /\ \A t \in Session : /\ disk'[t].events \subseteq 1 .. clock'
                               /\ loads'[t].rec.events \subseteq 1 .. clock'
      BY <1>a, <2>1
    <2>4. QED
      BY <2>2, <2>3
  <1>1. ASSUME NEW s \in Session, TrackActivity(s) \/ Amend(s) \/ Sweep(s)
        PROVE  CopiesAreOfThePast'
    <2>1. OfThePast(ActivityBase(s).events) /\ OfThePast(sessions[s].events)
      BY DEF ActivityBase
    <2>2. QED
      BY <1>0, <1>1, <1>a, <2>1 DEF TrackActivity, Amend, Sweep
  <1>2. ASSUME NEW s \in Session, LookupStart(s) \/ LookupRead(s) \/ LookupInstall(s)
        PROVE  CopiesAreOfThePast'
    BY <1>0, <1>2 DEF LookupStart, LookupRead, LookupInstall, NoLoad, Absent
  <1>3. ASSUME NEW s \in Session, Delete(s) \/ ClearNext(s) \/ Unlinked(s)
        PROVE  CopiesAreOfThePast'
    BY <1>0, <1>3 DEF Delete, ClearNext, Unlinked, Forget, Absent
  <1>4. ASSUME NEW s \in Session, BeginSave(s) PROVE CopiesAreOfThePast'
    BY <1>0, <1>4 DEF BeginSave
  <1>5. CASE SaveLands \/ SaveFails
    BY <1>0, <1>5 DEF SaveLands, SaveFails, Absent
  <1>6. CASE Restart
    BY <1>0, <1>6 DEF Restart, NoLoad, Absent
  <1>7. CASE \/ \E ids \in SUBSET Session : ClearStart(ids)
             \/ PersistTimerFires \/ BatchDone \/ FlushStart \/ FlushAgain \/ FlushReturns
             \/ UNCHANGED vars
    BY <1>7 DEF ClearStart, PersistTimerFires, BatchDone, FlushStart, FlushAgain,
                FlushReturns, vars
  <1>8. QED
    BY <1>1, <1>2, <1>3, <1>4, <1>5, <1>6, <1>7 DEF Next, Write

(* Every step keeps what the save under way must hold.                     *)
LEMMA SaveTakesNothingKept ==
  IInv /\ LedgerInv /\ [Next]_vars => SaveTakesNothing'
  <1> SUFFICES ASSUME IInv, LedgerInv, [Next]_vars PROVE SaveTakesNothing'
    OBVIOUS
  <1>0. TypeOK
    BY DEF IInv
  <1> USE DEF TypeOK, SaveTakesNothing, LedgerInv, memVars, writeVars, requestVars,
              phaseVars, ghostVars
  <1>a. ASSUME UNCHANGED <<saving, payload, disk>>, exposed \subseteq exposed',
               \A t \in Session : accepted'[t] \subseteq accepted[t]
        PROVE  SaveTakesNothing'
    BY <1>a
  <1>1. ASSUME NEW s \in Session, TrackActivity(s) \/ Amend(s) PROVE SaveTakesNothing'
    <2>1. /\ accepted' = [accepted EXCEPT ![s] = @ \cup {clock + 1}]
          /\ UNCHANGED <<saving, payload, disk>> /\ exposed \subseteq exposed'
          /\ clock' = clock + 1
      BY <1>1 DEF TrackActivity, Amend
    <2>2. clock + 1 \notin disk[s].events
      BY <1>0, <2>1, ClockTicks DEF CopiesAreOfThePast, OfThePast
    <2>3. QED
      BY <1>0, <2>1, <2>2
  <1>2. ASSUME NEW s \in Session,
               Sweep(s) \/ LookupStart(s) \/ LookupRead(s) \/ LookupInstall(s)
        PROVE  SaveTakesNothing'
    BY <1>2, <1>a DEF Sweep, LookupStart, LookupRead, LookupInstall
  <1>3. ASSUME NEW s \in Session, Delete(s) \/ ClearNext(s) PROVE SaveTakesNothing'
    BY <1>0, <1>3, <1>a DEF Delete, ClearNext, Forget
  <1>4. ASSUME NEW s \in Session, Unlinked(s) PROVE SaveTakesNothing'
    BY <1>0, <1>4 DEF Unlinked, Absent
  <1>5. ASSUME NEW s \in Session, BeginSave(s) PROVE SaveTakesNothing'
    BY <1>0, <1>5, SessionAssumption DEF BeginSave, IInv, NoSilentLoss
  <1>6. CASE SaveLands \/ SaveFails \/ Restart
    BY <1>6, SessionAssumption DEF SaveLands, SaveFails, Restart
  <1>7. CASE \/ \E ids \in SUBSET Session : ClearStart(ids)
             \/ PersistTimerFires \/ BatchDone \/ FlushStart \/ FlushAgain \/ FlushReturns
             \/ UNCHANGED vars
    BY <1>7, <1>a DEF ClearStart, PersistTimerFires, BatchDone, FlushStart,
                      FlushAgain, FlushReturns, vars
  <1>8. QED
    BY <1>1, <1>2, <1>3, <1>4, <1>5, <1>6, <1>7 DEF Next, Write

(* Every step of the store is a step of the ledger, or changes nothing the *)
(* ledger shows.                                                           *)
LEMMA StepIsLedgerStep ==
  IInv /\ LedgerInv /\ [Next]_vars => [Ledger!Next]_(Ledger!vars)
  <1> SUFFICES ASSUME IInv, LedgerInv, [Next]_vars
               PROVE  Ledger!Next \/ UNCHANGED Ledger!vars
    OBVIOUS
  <1>0. TypeOK
    BY DEF IInv
  <1> DEFINE durable == [s \in Session |-> accepted[s] \cap disk[s].events]
  <1> USE DEF TypeOK, memVars, writeVars, requestVars, phaseVars, ghostVars
  <1>a. ASSUME UNCHANGED <<accepted, disk>>, exposed \subseteq exposed'
        PROVE  Ledger!Next
    BY <1>a DEF Ledger!Next, Ledger!Weaken, Ledger!MayWeaken
  <1>1. ASSUME NEW s \in Session, TrackActivity(s) \/ Amend(s) PROVE Ledger!Next
    <2>1. /\ accepted' = [accepted EXCEPT ![s] = @ \cup {clock + 1}]
          /\ disk' = disk /\ exposed \subseteq exposed'
          /\ clock' = clock + 1 /\ clock < MaxEvents
      BY <1>1 DEF TrackActivity, Amend
    <2>2. /\ clock + 1 \notin disk[s].events /\ clock + 1 \notin accepted[s]
          /\ clock + 1 \in Event
      BY <1>0, <2>1, ClockTicks, NextEvent DEF LedgerInv, CopiesAreOfThePast, OfThePast
    <2>3. durable' = durable
      BY <1>0, <2>1, <2>2
    <2>4. Ledger!RecordEvent(s, clock + 1)
      BY <2>1, <2>2, <2>3 DEF Ledger!RecordEvent, Ledger!MayWeaken
    <2>5. QED
      BY <2>2, <2>4 DEF Ledger!Next, Ledger!RecordEvent, Ledger!MayWeaken
  <1>2. ASSUME NEW s \in Session, Delete(s) \/ ClearNext(s) PROVE Ledger!Next
    <2>1. /\ accepted' = [accepted EXCEPT ![s] = {}]
          /\ disk' = disk /\ exposed \subseteq exposed'
      BY <1>2 DEF Delete, ClearNext, Forget
    <2>2. durable' = [durable EXCEPT ![s] = {}]
      BY <1>0, <2>1
    <2>3. QED
      BY <2>1, <2>2 DEF Ledger!Next, Ledger!Forget, Ledger!MayWeaken
  <1>3. ASSUME NEW s \in Session, Unlinked(s) PROVE Ledger!Next
    <2>1. UNCHANGED <<accepted, exposed>> /\ disk' = [disk EXCEPT ![s] = Absent]
      BY <1>3 DEF Unlinked
    <2>2. durable' = [durable EXCEPT ![s] = {}]
      BY <1>0, <2>1 DEF Absent
    <2>3. s \notin exposed => durable[s] \subseteq {}
      BY <1>3 DEF IInv, UnlinkIsQuiet, Unlinked
    <2>4. Ledger!Persist(s)
      BY <2>1, <2>2, <2>3 DEF Ledger!Persist, Ledger!MayWeaken
    <2>5. QED
      BY <2>4 DEF Ledger!Next
  <1>4. CASE SaveLands
    <2> DEFINE D == accepted[saving] \cap payload.events
    <2>1. /\ saving \in Session /\ UNCHANGED <<accepted, exposed>>
          /\ disk' = [disk EXCEPT ![saving] = payload]
      BY <1>0, <1>4 DEF SaveLands
    <2>2. durable' = [durable EXCEPT ![saving] = D]
      BY <1>0, <2>1
    <2>3. saving \notin exposed => durable[saving] \subseteq D
      BY <2>1 DEF LedgerInv, SaveTakesNothing
    <2>4. D \in SUBSET accepted[saving]
      OBVIOUS
    <2>5. Ledger!Persist(saving)
      BY <2>1, <2>2, <2>3, <2>4 DEF Ledger!Persist, Ledger!MayWeaken
    <2>6. QED
      BY <2>1, <2>5 DEF Ledger!Next, Ledger!Persist, Ledger!MayWeaken
  <1>5. CASE Restart
    <2>1. accepted' = durable /\ disk' = disk /\ exposed' = {}
      BY <1>5 DEF Restart
    <2>2. durable' = durable
      BY <1>0, <2>1
    <2>3. QED
      BY <2>1, <2>2 DEF Ledger!Next, Ledger!Crash
  <1>6. ASSUME NEW s \in Session,
               \/ Sweep(s) \/ LookupStart(s) \/ LookupRead(s) \/ LookupInstall(s)
               \/ BeginSave(s)
        PROVE  Ledger!Next
    BY <1>6, <1>a DEF Sweep, LookupStart, LookupRead, LookupInstall, BeginSave
  <1>7. CASE \/ \E ids \in SUBSET Session : ClearStart(ids)
             \/ PersistTimerFires \/ BatchDone \/ SaveFails
             \/ FlushStart \/ FlushAgain \/ FlushReturns
             \/ UNCHANGED vars
    BY <1>7, <1>a DEF ClearStart, PersistTimerFires, BatchDone, SaveFails, FlushStart,
                      FlushAgain, FlushReturns, vars
  <1>8. QED
    BY <1>1, <1>2, <1>3, <1>4, <1>5, <1>6, <1>7 DEF Next, Write

(* The write-behind cache implements the ledger: per session a set of      *)
(* events that only a deletion or a crash shrinks, a crash to the durable  *)
(* part, and a durable part no save ever sets back, the windows of exposed *)
(* apart (SessionManager over PersistenceStore).                           *)
THEOREM StoreKeepsLedger == Spec => RefinesLedger
  <1>1. Init => LedgerInv
    BY BoundAssumption
    DEF Init, LedgerInv, CopiesAreOfThePast, OfThePast, SaveTakesNothing, Absent, NoLoad
  <1>2. IInv /\ LedgerInv /\ [Next]_vars => LedgerInv'
    BY CopiesKept, SaveTakesNothingKept DEF LedgerInv
  <1>3. Init => Ledger!Init
    BY DEF Init, Ledger!Init, Absent
  <1>4. IInv /\ LedgerInv /\ [Next]_vars => [Ledger!Next]_(Ledger!vars)
    BY StepIsLedgerStep
  <1>5. QED
    BY <1>1, <1>2, <1>3, <1>4, InductiveInvariant, PTL
    DEF Spec, RefinesLedger, Ledger!Spec

=============================================================================
