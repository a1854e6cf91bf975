---------------------------- MODULE SessionStore ----------------------------
(***************************************************************************)
(* The write-behind cache of session records kept by SessionManager        *)
(* (packages/core/src/managers/session-manager.ts) over the JSON files of  *)
(* PersistenceStore (packages/core/src/persistence/store.ts).              *)
(*                                                                         *)
(* The core is one JavaScript thread: a handler runs without interruption  *)
(* up to its next await.  One action is therefore one synchronous stretch  *)
(* of a handler, or one file operation of the operating system that an     *)
(* awaiting handler started.                                               *)
(*                                                                         *)
(* A session record is abstracted to the set of events (hook events,       *)
(* amendments, sweeps) it holds, and to the newest event that set its      *)
(* lastActivityTime.  What a status or a tool execution becomes under an   *)
(* event is the subject of module ToolLifecycle.                           *)
(***************************************************************************)
EXTENDS Integers, Sequences, FiniteSets

CONSTANTS
  Session,              \* session ids
  NoSession,            \* not a session id
  MaxSessionsInMemory,  \* options.maxSessionsInMemory
  MinResidentSessions,  \* MIN_RESIDENT_SESSIONS
  MaxEvents,            \* bound: events in one behaviour
  MaxFaults             \* bound: failed writes and restarts in one behaviour

ASSUME SessionAssumption == NoSession \notin Session
ASSUME BoundAssumption == MaxEvents \in Nat /\ MaxFaults \in Nat
ASSUME ResidencyAssumption == /\ MaxSessionsInMemory \in Nat
                              /\ MinResidentSessions \in Nat

VARIABLES
  sessions,         \* the resident records, Absent where there is none
  knownSessionIds,  \* every id seen on disk or created by this process
  dirtySessionIds,  \* ids with a change no drain has picked up
  persistTimer,     \* is the debounce timer armed?
  writeChain,       \* the batches of ids still to write, oldest first
  saving,           \* the id whose saveJSON is in flight, or NoSession
  payload,          \* the document that saveJSON serialised
  disk,             \* the session files
  loads,            \* per id, the loadJSON a getSession is awaiting
  unlinking,        \* per id, who awaits its deleteJSON: "no", "delete", "clear"
  clearing,         \* the ids a clear() has still to delete
  phase,            \* "running", then the two awaits of flush(), then "stopped"
  awaited,          \* batches the current await of flush() still waits for
  clock,            \* events so far
  faults,           \* failed writes and restarts so far
  (* History variables: they record the past and guard nothing.            *)
  accepted,         \* per id, the events recorded since its last deletion
  exposed,          \* ids that went through a window in which changes get lost
  gone              \* ids whose deletion was acknowledged, no event since

memVars == <<sessions, knownSessionIds, dirtySessionIds, persistTimer>>
writeVars == <<writeChain, saving, payload, disk>>
requestVars == <<loads, unlinking, clearing>>
phaseVars == <<phase, awaited>>
ghostVars == <<accepted, exposed, gone>>
vars == <<memVars, writeVars, requestVars, phaseVars, clock, faults, ghostVars>>

-----------------------------------------------------------------------------
Event == 1 .. MaxEvents
Record == [events : SUBSET Event, last : 0 .. MaxEvents]
Absent == [events |-> {}, last |-> 0]
NoLoad == [phase |-> "none", rec |-> Absent]
Load == [phase : {"none", "issued", "read"}, rec : Record]

Resident(s) == sessions[s] # Absent
OnDisk(s) == disk[s] # Absent

(* Is a write of s waiting in the chain, or in flight?                     *)
InChain(s) == \E i \in DOMAIN writeChain : s \in writeChain[i]
Queued(s) == InChain(s) \/ saving = s

(* Does some other request hold, or is about to change, the record of s?   *)
InWindow(s) == saving = s \/ loads[s] # NoLoad \/ unlinking[s] # "no"

-----------------------------------------------------------------------------
(* Broken: a second session changed inside the debounce window is unmarked. *)
SchedulePersistOnce(s) ==
  /\ dirtySessionIds' = IF persistTimer THEN dirtySessionIds
                                        ELSE dirtySessionIds \cup {s}
  /\ persistTimer' = TRUE

(* schedulePersist: mark dirty, and arm the debounce unless it is armed.   *)
SchedulePersist(s) ==
  /\ dirtySessionIds' = dirtySessionIds \cup {s}
  /\ persistTimer' = TRUE

(* drainDirtySessions: move the dirty ids to the end of the write chain.   *)
(* They stop being dirty here, before a byte of them is written.           *)
Drain(ids) ==
  /\ dirtySessionIds' = {}
  /\ writeChain' = IF ids = {} THEN writeChain ELSE Append(writeChain, ids)

(* Broken: an event for a session that is not resident starts a new record. *)
ActivityBaseFresh(s) == sessions[s]

(* trackActivity, first part: the record an event lands in.  A session     *)
(* that is known but not resident is read back synchronously; createSession *)
(* starts a record when there is nothing to read.                          *)
ActivityBase(s) ==
  IF Resident(s) \/ s \notin knownSessionIds THEN sessions[s] ELSE disk[s]

(* createSession registers the id as known; for any other session it is.   *)
RegisterKnown(s) == knownSessionIds' = knownSessionIds \cup {s}

TrackActivity(s) ==
  LET e == clock + 1
  IN /\ phase = "running"
     /\ clock < MaxEvents
     /\ clock' = e
     /\ sessions' = [sessions EXCEPT ![s] =
                       [events |-> ActivityBase(s).events \cup {e}, last |-> e]]
     /\ RegisterKnown(s)
     /\ SchedulePersist(s)
     /\ accepted' = [accepted EXCEPT ![s] = @ \cup {e}]
     /\ exposed' = IF unlinking[s] # "no" THEN exposed \cup {s} ELSE exposed
     /\ gone' = gone \ {s}
     /\ UNCHANGED <<writeVars, requestVars, phaseVars, faults>>

(* addFileChange, addToolExecution, completeToolExecution, endSession and  *)
(* terminate: a change to a record that is resident already; lastActivity- *)
(* Time stays.                                                             *)
Amend(s) ==
  LET e == clock + 1
  IN /\ phase = "running"
     /\ Resident(s)
     /\ clock < MaxEvents
     /\ clock' = e
     /\ sessions' = [sessions EXCEPT ![s] =
                       [events |-> @.events \cup {e}, last |-> @.last]]
     /\ SchedulePersist(s)
     /\ accepted' = [accepted EXCEPT ![s] = @ \cup {e}]
     /\ UNCHANGED <<knownSessionIds, writeVars, requestVars, phaseVars, faults,
                    exposed, gone>>

(* reconcileStuckExecutions and checkStaleSessions: the sweep changes one  *)
(* resident record and persists it at once (persistSession), which drains  *)
(* every dirty id with it.  A sweep under way goes on while flush() waits. *)
Sweep(s) ==
  LET e == clock + 1
  IN /\ Resident(s)
     /\ clock < MaxEvents
     /\ clock' = e
     /\ sessions' = [sessions EXCEPT ![s] =
                       [events |-> @.events \cup {e}, last |-> @.last]]
     /\ Drain(dirtySessionIds \cup {s})
     /\ UNCHANGED <<knownSessionIds, persistTimer, saving, payload, disk,
                    requestVars, phaseVars, faults, ghostVars>>

-----------------------------------------------------------------------------
(* The debounce timer of schedulePersist fires.                            *)
PersistTimerFires ==
  /\ persistTimer
  /\ persistTimer' = FALSE
  /\ Drain(dirtySessionIds)
  /\ UNCHANGED <<sessions, knownSessionIds, saving, payload, disk, requestVars,
                 phaseVars, clock, faults, ghostVars>>

(* Broken: the file is truncated in place and written afterwards.          *)
BeginSaveTruncating(s) ==
  /\ writeChain # <<>> /\ saving = NoSession /\ s \in Head(writeChain)
  /\ writeChain' = [writeChain EXCEPT ![1] = @ \ {s}]
  /\ saving' = s /\ payload' = sessions[s]
  /\ disk' = [disk EXCEPT ![s] = Absent]
  /\ UNCHANGED <<memVars, requestVars, phaseVars, clock, faults, ghostVars>>

(* The loop of a drained batch reaches id s.  An id that is no longer      *)
(* resident is skipped; otherwise saveJSON serialises the record and       *)
(* starts writing its temporary file.                                      *)
BeginSave(s) ==
  /\ writeChain # <<>>
  /\ saving = NoSession
  /\ s \in Head(writeChain)
  /\ writeChain' = [writeChain EXCEPT ![1] = @ \ {s}]
  /\ IF Resident(s)
       THEN saving' = s /\ payload' = sessions[s]
       ELSE UNCHANGED <<saving, payload>>
  /\ UNCHANGED <<memVars, disk, requestVars, phaseVars, clock, faults, ghostVars>>

(* saveJSON renames the temporary file into place.                         *)
SaveLands ==
  /\ saving # NoSession
  /\ disk' = [disk EXCEPT ![saving] = payload]
  /\ saving' = NoSession
  /\ payload' = Absent
  /\ UNCHANGED <<memVars, writeChain, requestVars, phaseVars, clock, faults,
                 ghostVars>>

(* A batch leaves the chain; the await of flush() sees it.                 *)
BatchLeaves ==
  /\ writeChain' = Tail(writeChain)
  /\ awaited' = IF awaited = 0 THEN 0 ELSE awaited - 1

(* saveJSON throws.  The rejection leaves the loop, and .catch drops the   *)
(* rest of its batch, the head of the chain, with it.                      *)
SaveFails ==
  /\ saving # NoSession
  /\ writeChain # <<>>
  /\ faults < MaxFaults
  /\ faults' = faults + 1
  /\ saving' = NoSession
  /\ payload' = Absent
  /\ BatchLeaves
  /\ exposed' = exposed \cup {saving} \cup Head(writeChain)
  /\ UNCHANGED <<memVars, disk, requestVars, phase, clock, accepted, gone>>

(* The loop of a batch runs off its end.                                   *)
BatchDone ==
  /\ writeChain # <<>>
  /\ saving = NoSession
  /\ Head(writeChain) = {}
  /\ BatchLeaves
  /\ UNCHANGED <<memVars, saving, payload, disk, requestVars, phase, clock,
                 faults, ghostVars>>

-----------------------------------------------------------------------------
(* getSession of an id that is known but not resident awaits loadJSON.     *)
LookupStart(s) ==
  /\ phase = "running"
  /\ ~Resident(s)
  /\ s \in knownSessionIds
  /\ loads[s] = NoLoad
  /\ loads' = [loads EXCEPT ![s] = [phase |-> "issued", rec |-> Absent]]
  /\ exposed' = IF unlinking[s] # "no" THEN exposed \cup {s} ELSE exposed
  /\ UNCHANGED <<memVars, writeVars, unlinking, clearing, phaseVars, clock,
                 faults, accepted, gone>>

(* The file is read.  Without a file getSession answers null and is over.  *)
LookupRead(s) ==
  /\ loads[s].phase = "issued"
  /\ loads' = [loads EXCEPT ![s] = IF OnDisk(s)
                                     THEN [phase |-> "read", rec |-> disk[s]]
                                     ELSE NoLoad]
  /\ UNCHANGED <<memVars, writeVars, unlinking, clearing, phaseVars, clock,
                 faults, ghostVars>>

(* evictIfOverCap on the resident records of res: the sets of ids it may   *)
(* drop.  Sessions that are not dirty, the least recently active first, as *)
(* many as there are over the cap.                                         *)
VictimSets(res) ==
  LET held == {t \in Session : res[t] # Absent}
      clean == held \ dirtySessionIds
      excess == Cardinality(held) - MaxSessionsInMemory
  IN {V \in SUBSET clean :
        /\ \/ Cardinality(V) = excess
           \/ V = {} /\ excess <= 0
           \/ V = clean /\ Cardinality(V) < excess
        /\ \A v \in V, c \in clean \ V : res[v].last <= res[c].last}

(* Does the document a lookup read no longer describe the session?         *)
StaleLookup(s) == Resident(s) \/ saving = s \/ loads[s].rec # disk[s]

(* The continuation of getSession: make the record resident, then evict.   *)
LookupInstall(s) ==
  LET filled == [sessions EXCEPT ![s] = loads[s].rec]
  IN /\ loads[s].phase = "read"
     /\ loads' = [loads EXCEPT ![s] = NoLoad]
     /\ \E V \in VictimSets(filled) :
          /\ sessions' = [t \in Session |-> IF t \in V THEN Absent ELSE filled[t]]
          /\ exposed' = exposed \cup {t \in V : Queued(t)}
                                \cup {t \in {s} : StaleLookup(t)}
     /\ UNCHANGED <<knownSessionIds, dirtySessionIds, persistTimer, writeVars,
                    unlinking, clearing, phaseVars, clock, faults, accepted, gone>>

-----------------------------------------------------------------------------
(* Broken: the record stays in the sessions map.                           *)
ForgetFileOnly(s, who) ==
  /\ unlinking' = [unlinking EXCEPT ![s] = who]
  /\ accepted' = [accepted EXCEPT ![s] = {}]
  /\ UNCHANGED <<sessions, exposed>>

(* What delete and clear do to one session before they await deleteJSON.   *)
Forget(s, who) ==
  /\ sessions' = [sessions EXCEPT ![s] = Absent]
  /\ unlinking' = [unlinking EXCEPT ![s] = who]
  /\ accepted' = [accepted EXCEPT ![s] = {}]
  /\ exposed' = IF InWindow(s) THEN exposed \cup {s} ELSE exposed

(* delete(id) throws unless the session is resident.                       *)
Delete(s) ==
  /\ phase = "running"
  /\ Resident(s)
  /\ unlinking[s] = "no"
  /\ Forget(s, "delete")
  /\ dirtySessionIds' = dirtySessionIds \ {s}
  /\ UNCHANGED <<knownSessionIds, persistTimer, writeVars, loads, clearing,
                 phaseVars, clock, faults, gone>>

(* clear(filter) fixes the ids to delete: resident ones, by any filter.    *)
ClearStart(ids) ==
  /\ phase = "running"
  /\ clearing = {}
  /\ ids # {}
  /\ \A s \in ids : Resident(s)
  /\ clearing' = ids
  /\ UNCHANGED <<memVars, writeVars, loads, unlinking, phaseVars, clock, faults,
                 ghostVars>>

(* One turn of the loop of clear: it awaits each unlink before the next,   *)
(* and leaves the dirty mark of the session where it is.                   *)
ClearNext(s) ==
  /\ s \in clearing
  /\ \A t \in Session : unlinking[t] # "clear"
  /\ unlinking[s] = "no"
  /\ clearing' = clearing \ {s}
  /\ Forget(s, "clear")
  /\ UNCHANGED <<knownSessionIds, dirtySessionIds, persistTimer, writeVars, loads,
                 phaseVars, clock, faults, gone>>

(* deleteJSON unlinks the file and the deletion is acknowledged.           *)
Unlinked(s) ==
  /\ unlinking[s] # "no"
  /\ unlinking' = [unlinking EXCEPT ![s] = "no"]
  /\ disk' = [disk EXCEPT ![s] = Absent]
  /\ gone' = IF accepted[s] = {} THEN gone \cup {s} ELSE gone
  /\ UNCHANGED <<memVars, writeChain, saving, payload, loads, clearing, phaseVars,
                 clock, faults, accepted, exposed>>

-----------------------------------------------------------------------------
(* InspectorHookCore.stop has closed the HTTP and IPC servers and calls    *)
(* flush: disarm the timer, drain, and await the chain as it stands.       *)
FlushStart ==
  /\ phase = "running"
  /\ phase' = "draining"
  /\ persistTimer' = FALSE
  /\ Drain(dirtySessionIds)
  /\ awaited' = Len(writeChain')
  /\ UNCHANGED <<sessions, knownSessionIds, saving, payload, disk, requestVars,
                 clock, faults, ghostVars>>

(* The second await of flush, on whatever the chain has become.            *)
FlushAgain ==
  /\ phase = "draining"
  /\ awaited = 0
  /\ phase' = "settling"
  /\ awaited' = Len(writeChain)
  /\ UNCHANGED <<memVars, writeVars, requestVars, clock, faults, ghostVars>>

FlushReturns ==
  /\ phase = "settling"
  /\ awaited = 0
  /\ phase' = "stopped"
  /\ UNCHANGED <<memVars, writeVars, requestVars, awaited, clock, faults, ghostVars>>

(* The ids load() may make resident: everything while no budget is spent,  *)
(* and at least MinResidentSessions of them; the byte budget may stop it   *)
(* anywhere in between.                                                    *)
LoadSets ==
  LET files == {s \in Session : OnDisk(s)}
      n == Cardinality(files)
      lower == IF n < MinResidentSessions THEN n ELSE MinResidentSessions
      upper == IF MaxSessionsInMemory < MinResidentSessions
                 THEN MinResidentSessions ELSE MaxSessionsInMemory
  IN {R \in SUBSET files : Cardinality(R) >= lower /\ Cardinality(R) <= upper}

(* The process ends, at any moment, and a new one runs load().  What was   *)
(* only in memory is gone; the files are as the last rename left them.     *)
Restart ==
  /\ faults < MaxFaults
  /\ faults' = faults + 1
  /\ \E R \in LoadSets :
       sessions' = [s \in Session |-> IF s \in R THEN disk[s] ELSE Absent]
  /\ knownSessionIds' = {s \in Session : OnDisk(s)}
  /\ dirtySessionIds' = {}
  /\ persistTimer' = FALSE
  /\ writeChain' = <<>>
  /\ saving' = NoSession
  /\ payload' = Absent
  /\ loads' = [s \in Session |-> NoLoad]
  /\ unlinking' = [s \in Session |-> "no"]
  /\ clearing' = {}
  /\ phase' = "running"
  /\ awaited' = 0
  /\ accepted' = [s \in Session |-> accepted[s] \cap disk[s].events]
  /\ exposed' = {}
  /\ gone' = gone \ exposed
  /\ UNCHANGED <<disk, clock>>

-----------------------------------------------------------------------------
Init ==
  /\ sessions = [s \in Session |-> Absent]
  /\ knownSessionIds = {}
  /\ dirtySessionIds = {}
  /\ persistTimer = FALSE
  /\ writeChain = <<>>
  /\ saving = NoSession
  /\ payload = Absent
  /\ disk = [s \in Session |-> Absent]
  /\ loads = [s \in Session |-> NoLoad]
  /\ unlinking = [s \in Session |-> "no"]
  /\ clearing = {}
  /\ phase = "running"
  /\ awaited = 0
  /\ clock = 0
  /\ faults = 0
  /\ accepted = [s \in Session |-> {}]
  /\ exposed = {}
  /\ gone = {}

Write == PersistTimerFires \/ SaveLands \/ BatchDone \/ \E s \in Session : BeginSave(s)

Next ==
  \/ \E s \in Session :
       \/ TrackActivity(s) \/ Amend(s) \/ Sweep(s)
       \/ LookupStart(s) \/ LookupRead(s) \/ LookupInstall(s)
       \/ Delete(s) \/ ClearNext(s) \/ Unlinked(s)
  \/ \E ids \in SUBSET Session : ClearStart(ids)
  \/ Write \/ SaveFails
  \/ FlushStart \/ FlushAgain \/ FlushReturns
  \/ Restart

(* The event loop runs an expired timer, a settled promise and a finished  *)
(* file operation; nothing promises that requests arrive.                  *)
Fairness == WF_vars(Write)

Spec == Init /\ [][Next]_vars
FairSpec == Spec /\ Fairness

-----------------------------------------------------------------------------
(* Where SessionManager's state and the history variables live.            *)
TypeOK ==
  /\ sessions \in [Session -> Record]
  /\ knownSessionIds \in SUBSET Session
  /\ dirtySessionIds \in SUBSET Session
  /\ persistTimer \in BOOLEAN
  /\ writeChain \in Seq(SUBSET Session)
  /\ saving \in Session \cup {NoSession}
  /\ payload \in Record
  /\ disk \in [Session -> Record]
  /\ loads \in [Session -> Load]
  /\ unlinking \in [Session -> {"no", "delete", "clear"}]
  /\ clearing \in SUBSET Session
  /\ phase \in {"running", "draining", "settling", "stopped"}
  /\ awaited \in Nat
  /\ clock \in 0 .. MaxEvents
  /\ faults \in 0 .. MaxFaults
  /\ accepted \in [Session -> SUBSET Event]
  /\ exposed \in SUBSET Session
  /\ gone \in SUBSET Session

(* drainDirtySessions clears the dirty marks before anything is written,   *)
(* so a mark is no record of what is unsaved.  What is: outside the        *)
(* windows in exposed, a resident record that differs from its file is     *)
(* dirty, or waits in a batch, or is the very document being saved.        *)
UnsavedIsQueued ==
  \A s \in Session \ exposed :
    Resident(s) /\ sessions[s] # disk[s] =>
      \/ s \in dirtySessionIds
      \/ InChain(s)
      \/ saving = s /\ payload = sessions[s]

(* Every event recorded since the last deletion is in the record the next  *)
(* event will be added to -- the resident one, or the file it will be read *)
(* back from -- unless a save failed, a record was evicted with its write  *)
(* queued, a lookup installed an outdated document, or a deletion was      *)
(* overtaken.  These windows are all there are.                            *)
NoSilentLoss ==
  \A s \in Session \ exposed :
    accepted[s] \subseteq (IF Resident(s) THEN sessions[s] ELSE disk[s]).events

(* trackActivity starts a new record for an id that is neither resident    *)
(* nor known; no file may be there to be overwritten by it.                *)
KnownCoversDisk == \A s \in Session : OnDisk(s) => s \in knownSessionIds

(* schedulePersist arms the timer only if it is not armed, flush disarms   *)
(* it, a sweep drains under it: a dirty session never waits without it.    *)
DirtyHasTimer == dirtySessionIds # {} => persistTimer

(* An acknowledged deletion lasts until the next event for the session:    *)
(* no queued batch, lookup or restart brings the record back (windows      *)
(* apart).                                                                 *)
DeletedStaysDeleted == \A s \in gone \ exposed : ~Resident(s) /\ ~OnDisk(s)

(* When flush returns during shutdown, each event accepted before it is in *)
(* the file of its session.                                                *)
FlushSavesAll ==
  phase = "stopped" =>
    \A s \in Session \ exposed : accepted[s] \subseteq disk[s].events

(* Every accepted event reaches the file, unless the session is deleted or *)
(* exposed, or the process ends first: the debounce cannot be postponed    *)
(* for ever by further events, nor the chain stay stuck behind a batch.    *)
EventuallyDurable ==
  \A s \in Session, e \in Event :
    e \in accepted[s] ~>
      (e \in disk[s].events \/ e \notin accepted[s] \/ s \in exposed)

(* The store keeps the ledger's promise, with the windows of exposed for   *)
(* the lossy sessions: what is durable is what of the recorded events is   *)
(* in the file.                                                            *)
Ledger == INSTANCE DurableLedger WITH
            recorded <- accepted,
            durable  <- [s \in Session |-> accepted[s] \cap disk[s].events],
            lossy    <- exposed

RefinesLedger == Ledger!Spec

-----------------------------------------------------------------------------
=============================================================================
