---------------------------- MODULE FileChanges ----------------------------
(***************************************************************************)
(* The changes FileTracker (packages/core/src/managers/file-tracker.ts)    *)
(* records of one workspace file, from the hooks around an edit to the     *)
(* archive: tracked, kept, reverted whole or by hunk, edited, deleted,     *)
(* restored, all of them handlers that await file operations and run       *)
(* interleaved.                                                            *)
(*                                                                         *)
(* A content is the set of regions in which the file differs from its      *)
(* first form, so a hunk of a diff is a region in which two contents       *)
(* differ.  A step is what a handler does up to its next await; a file     *)
(* operation takes effect in the step that waits for it.                   *)
(***************************************************************************)
EXTENDS Integers, FiniteSets

CONSTANTS
  Region,      \* the regions edits touch
  Change,      \* change ids
  Task,        \* bound: the handlers that can be under way together
  NoChange,    \* not a change id
  MaxRepeats,  \* bound: firings that a second transport delivers as well
  MaxInputs,   \* bound: edits by the agent and requests by the user
  MaxFaults    \* bound: failed file operations and crashes

ASSUME ChangeAssumption == NoChange \notin Change
ASSUME BoundAssumption ==
  {MaxRepeats, MaxInputs, MaxFaults} \subseteq Nat

VARIABLES
  file,       \* the workspace file
  editing,    \* is the agent between its PreToolUse hook and the edit?
  wire,       \* deliveries under way: [capture |-> , track |-> ]
  capture,    \* pendingCaptures of the file: a set of at most one content
  newest,     \* the newest version in history: a set of at most one content
  op,         \* per task, the handler under way
  obj,        \* the FileChange objects
  changes,    \* the ids in the changes map
  archived,   \* the archived map
  disk,       \* what is stored: changes/, archives/ and the newest version
  repeats, edits, requests, faults,
  (* History variables.                                                    *)
  used,       \* ids given to a change
  stored,     \* ids that were on disk
  discarded,  \* ids the user deleted
  rewritten,  \* ids for which the file was rewritten
  torn,       \* ids with overlapping handlers or a failed file operation
  stale,      \* was a delivery tracked from an outdated content or capture?
  crashed     \* was there a crash?

agentVars == <<editing, wire, repeats, edits>>
memVars == <<capture, newest, obj, changes, archived>>
pastVars == <<used, stored, discarded, rewritten, torn, stale, crashed>>
vars == <<file, agentVars, memVars, op, disk, requests, faults, pastVars>>

-----------------------------------------------------------------------------
Content == SUBSET Region
Status == {"pending", "kept", "reverted"}
Doc == [before : Content, after : Content, status : Status]
None == [before |-> {}, after |-> {}, status |-> "none"]
Kind == {"track", "keep", "revert", "hunk", "delete", "update", "restore"}
Step == {"idle", "read", "check", "write", "version", "save", "archive", "unlink"}
Idle == [kind |-> "track", step |-> "idle", id |-> NoChange, doc |-> None,
         content |-> {}, region |-> {}]

Busy(id) == \E t \in Task : op[t].step # "idle" /\ op[t].id = id
Diff(o) == (o.before \ o.after) \cup (o.after \ o.before)

(* Region r of content c becomes what it is in content d.                  *)
Splice(c, r, d) == (c \ r) \cup (d \cap r)

-----------------------------------------------------------------------------
(* How a handler goes on.  Each of these says what becomes of op, obj,     *)
(* changes and archived.                                                   *)
Ends(t) ==
  /\ op' = [op EXCEPT ![t] = Idle]
  /\ UNCHANGED <<obj, changes, archived>>

(* persistChange serialises the object as it is now.                       *)
Saves(t, id, o) ==
  /\ op' = [op EXCEPT ![t] = [Idle EXCEPT !.step = "save", !.id = id, !.doc = o]]
  /\ obj' = [obj EXCEPT ![id] = o]
  /\ UNCHANGED <<changes, archived>>

(* archiveResolvedChange up to its first await.                            *)
ResolvesWith(t, id, o, resolution, step) ==
  LET resolved == [o EXCEPT !.status = resolution]
  IN /\ op' = [op EXCEPT ![t] = [Idle EXCEPT !.step = step, !.id = id,
                                             !.doc = resolved]]
     /\ obj' = [obj EXCEPT ![id] = resolved]
     /\ archived' = [archived EXCEPT ![id] = resolved]
     /\ changes' = changes \ {id}

(* Broken: the pending record is unlinked and the archive not stored.      *)
ResolvesUnstored(t, id, o, resolution) == ResolvesWith(t, id, o, resolution, "unlink")

Resolves(t, id, o, resolution) == ResolvesWith(t, id, o, resolution, "archive")

(* finishHunk: a change with no hunk left, or no longer in the map, is     *)
(* resolved.                                                               *)
FinishesHunk(t, id, o, resolution) ==
  IF id \notin changes \/ Diff(o) = {} THEN Resolves(t, id, o, resolution)
                                       ELSE Saves(t, id, o)

(* What follows the recording of a version, for each kind of handler.      *)
Continues(t, id, o) ==
  CASE op[t].kind = "track"   -> Saves(t, id, o)
    [] op[t].kind = "revert"  -> Resolves(t, id, o, "reverted")
    [] op[t].kind = "hunk"    -> FinishesHunk(t, id, o, "reverted")
    [] op[t].kind = "restore" -> Ends(t)

(* addVersion: unless the content is the newest version already, it is     *)
(* added at once, and the handler waits for the files.                     *)
AddsVersion(t, id, o, content) ==
  IF newest = {content}
    THEN newest' = newest /\ Continues(t, id, o)
    ELSE /\ newest' = {content}
         /\ op' = [op EXCEPT ![t] = [Idle EXCEPT !.step = "version", !.id = id,
                                                 !.kind = op[t].kind]]
         /\ obj' = [obj EXCEPT ![id] = o]
         /\ UNCHANGED <<changes, archived>>

-----------------------------------------------------------------------------
(* The agent and its hooks: a firing is delivered by one transport or two. *)
Fires(hook) ==
  \E n \in {1, 2} :
    /\ repeats' = repeats + n - 1 /\ repeats' <= MaxRepeats
    /\ wire' = [wire EXCEPT ![hook] = @ + n]

ToolStarts ==
  /\ ~editing /\ edits + requests < MaxInputs
  /\ editing' = TRUE
  /\ Fires("capture")
  /\ UNCHANGED <<file, edits, memVars, op, disk, requests, faults, pastVars>>

ToolEdits(content) ==
  /\ editing /\ edits + requests < MaxInputs
  /\ content # file
  /\ editing' = FALSE
  /\ file' = content
  /\ edits' = edits + 1
  /\ Fires("track")
  /\ UNCHANGED <<memVars, op, disk, requests, faults, pastVars>>

(* captureBeforeContent, at any time after the hook fired.                 *)
CaptureArrives ==
  /\ wire.capture > 0
  /\ wire' = [wire EXCEPT !.capture = @ - 1]
  /\ capture' = {file}
  /\ UNCHANGED <<file, editing, repeats, edits, newest, obj, changes, archived, op, disk,
                 requests, faults, pastVars>>

(* Broken: without a capture the file is taken to have been new.           *)
BaseEmpty == IF capture # {} THEN capture ELSE {{}}

(* trackFromLog: the content before the edit, if it is known.              *)
Base == IF capture # {} THEN capture ELSE newest

Reading(t) == op[t].step = "read"

TrackArrives(t) ==
  /\ wire.track > 0
  /\ op[t] = Idle
  /\ wire' = [wire EXCEPT !.track = @ - 1]
  /\ op' = IF Base = {} THEN op
           ELSE [op EXCEPT ![t] = [Idle EXCEPT !.step = "read",
                                               !.content = CHOOSE c \in Base : TRUE]]
  /\ UNCHANGED <<file, editing, repeats, edits, memVars, disk, requests, faults,
                 pastVars>>

(* It has read the file: a change is made if the content did change.       *)
TrackReads(t) ==
  /\ Reading(t)
  /\ capture' = {}
  /\ IF op[t].content = file
       THEN Ends(t) /\ UNCHANGED <<newest, used>>
       ELSE \E id \in Change \ used :
              LET o == [before |-> op[t].content, after |-> file,
                        status |-> "pending"]
              IN /\ used' = used \cup {id}
                 /\ changes' = changes \cup {id}
                 /\ obj' = [obj EXCEPT ![id] = o]
                 /\ archived' = archived
                 /\ newest' = {file}
                 /\ op' = [op EXCEPT ![t] =
                             IF newest = {file}
                               THEN [Idle EXCEPT !.step = "save", !.id = id, !.doc = o]
                               ELSE [Idle EXCEPT !.step = "version", !.id = id]]
  /\ stale' = \/ stale
              \/ Base # {op[t].content}
              \/ capture # {} /\ newest \notin {{}, capture}
  /\ UNCHANGED <<file, agentVars, disk, requests, faults, stored, discarded,
                 rewritten, torn, crashed>>

-----------------------------------------------------------------------------
(* The user's requests.                                                    *)
Asks(t, id) ==
  /\ op[t] = Idle
  /\ edits + requests < MaxInputs
  /\ requests' = requests + 1
  /\ torn' = IF Busy(id) THEN torn \cup {id} ELSE torn
  /\ UNCHANGED <<file, agentVars, capture, newest, disk, faults, used, stored,
                 rewritten, stale, crashed>>

Awaits(t, kind, step, id, content) ==
  /\ op' = [op EXCEPT ![t] = [Idle EXCEPT !.kind = kind, !.step = step, !.id = id,
                                          !.content = content]]
  /\ UNCHANGED <<obj, changes, archived>>

KeepChange(t, id) ==
  /\ id \in changes
  /\ Asks(t, id)
  /\ Resolves(t, id, obj[id], "kept")
  /\ UNCHANGED discarded

RevertChange(t, id) ==
  /\ id \in changes
  /\ Asks(t, id)
  /\ Awaits(t, "revert", "write", id, obj[id].before)
  /\ UNCHANGED discarded

(* resolveHunk to keep: the hunk's new side moves into the before content. *)
KeepHunk(t, id, r) ==
  /\ id \in changes /\ r \in Diff(obj[id])
  /\ Asks(t, id)
  /\ FinishesHunk(t, id, [obj[id] EXCEPT !.before = Splice(@, {r}, obj[id].after)],
                  "kept")
  /\ UNCHANGED discarded

(* resolveHunk to revert: the hunk is computed, then the file is read.     *)
RevertHunk(t, id, r) ==
  /\ id \in changes /\ r \in Diff(obj[id])
  /\ Asks(t, id)
  /\ op' = [op EXCEPT ![t] = [Idle EXCEPT !.step = "check", !.id = id,
                                          !.doc = obj[id], !.region = {r}]]
  /\ UNCHANGED <<obj, changes, archived>>
  /\ UNCHANGED discarded

DeleteChange(t, id) ==
  /\ id \in changes
  /\ Asks(t, id)
  /\ op' = [op EXCEPT ![t] = [Idle EXCEPT !.step = "unlink", !.id = id]]
  /\ changes' = changes \ {id}
  /\ discarded' = discarded \cup {id}
  /\ UNCHANGED <<obj, archived>>

UpdateChangeContent(t, id, content) ==
  /\ id \in changes
  /\ Asks(t, id)
  /\ Saves(t, id, [obj[id] EXCEPT !.after = content])
  /\ UNCHANGED discarded

RestoreFromArchive(t, id) ==
  /\ archived[id] # None
  /\ Asks(t, id)
  /\ Awaits(t, "restore", "write", id, archived[id].after)
  /\ UNCHANGED discarded

-----------------------------------------------------------------------------
(* File operations that take effect, and what the handler does then.       *)
Lands(t, step) ==
  /\ op[t].step = step
  /\ UNCHANGED <<agentVars, capture, requests, faults, used, discarded, torn,
                 stale, crashed>>

(* "If the file on disk no longer matches the content this change was      *)
(* built from, the operation is REFUSED".  The lines of a hunk computed    *)
(* from an older content may lie anywhere in this one.                     *)
CheckReads(t) ==
  LET o == obj[op[t].id]
  IN /\ Lands(t, "check")
     /\ IF file # o.after
          THEN Ends(t)
          ELSE \E next \in IF op[t].doc.after = o.after
                             THEN {Splice(o.after, op[t].region, op[t].doc.before)}
                             ELSE Content :
                 Awaits(t, "hunk", "write", op[t].id, next)
     /\ UNCHANGED <<file, newest, disk, stored, rewritten>>

(* Broken: no version is recorded of what a revert wrote.                  *)
WriteLandsUnversioned(t) ==
  LET id == op[t].id
  IN /\ Lands(t, "write")
     /\ file' = op[t].content
     /\ rewritten' = rewritten \cup {id}
     /\ newest' = newest
     /\ Continues(t, id, obj[id])
     /\ UNCHANGED <<disk, stored>>

(* writeFile of the workspace file; its content becomes a version.         *)
WriteLands(t) ==
  LET id == op[t].id
      o == IF op[t].kind = "hunk" THEN [obj[id] EXCEPT !.after = op[t].content]
                                  ELSE obj[id]
  IN /\ Lands(t, "write")
     /\ file' = op[t].content
     /\ rewritten' = rewritten \cup {id}
     /\ AddsVersion(t, id, o, IF op[t].kind = "revert" THEN o.before
                                                       ELSE op[t].content)
     /\ UNCHANGED <<disk, stored>>

(* saveVersion and the history's saveJSON.                                 *)
VersionLands(t) ==
  /\ Lands(t, "version")
  /\ disk' = [disk EXCEPT !.newest = newest]
  /\ Continues(t, op[t].id, obj[op[t].id])
  /\ UNCHANGED <<file, newest, stored, rewritten>>

SaveLands(t) ==
  /\ Lands(t, "save")
  /\ disk' = [disk EXCEPT !.changes[op[t].id] = op[t].doc]
  /\ stored' = stored \cup {op[t].id}
  /\ Ends(t)
  /\ UNCHANGED <<file, newest, rewritten>>

(* persistArchived; only then is the pending record unlinked.              *)
ArchiveLands(t) ==
  /\ Lands(t, "archive")
  /\ disk' = [disk EXCEPT !.archives[op[t].id] = op[t].doc]
  /\ stored' = stored \cup {op[t].id}
  /\ op' = [op EXCEPT ![t] = [Idle EXCEPT !.step = "unlink", !.id = op[t].id]]
  /\ UNCHANGED <<file, newest, obj, changes, archived, rewritten>>

(* Broken: the pending record stays.                                       *)
UnlinkLandsNot(t) ==
  /\ Lands(t, "unlink")
  /\ Ends(t)
  /\ UNCHANGED <<file, newest, disk, stored, rewritten>>

UnlinkLands(t) ==
  /\ Lands(t, "unlink")
  /\ disk' = [disk EXCEPT !.changes[op[t].id] = None]
  /\ Ends(t)
  /\ UNCHANGED <<file, newest, stored, rewritten>>

Faulty ==
  /\ faults < MaxFaults
  /\ faults' = faults + 1
  /\ UNCHANGED <<file, agentVars, disk, requests, used, stored, discarded,
                 rewritten, stale>>

(* A file operation fails and the handler throws; but a version that could *)
(* not be stored does not stop a revert or a restore.                      *)
Fails(t) ==
  /\ op[t].step \notin {"idle", "read"}
  /\ Faulty
  /\ IF op[t].step = "version" /\ op[t].kind # "track"
       THEN Continues(t, op[t].id, obj[op[t].id])
       ELSE Ends(t)
  /\ torn' = torn \cup {op[t].id}
  /\ UNCHANGED <<capture, newest, crashed>>

(* The core is killed; load() reads what is stored.                        *)
Restart ==
  /\ Faulty
  /\ op' = [t \in Task |-> Idle]
  /\ capture' = {}
  /\ newest' = disk.newest
  /\ obj' = disk.changes
  /\ changes' = {id \in Change : disk.changes[id] # None}
  /\ archived' = disk.archives
  /\ torn' = {}
  /\ crashed' = TRUE

-----------------------------------------------------------------------------
Init ==
  /\ file = {}
  /\ editing = FALSE
  /\ wire = [capture |-> 0, track |-> 0]
  /\ capture = {} /\ newest = {}
  /\ op = [t \in Task |-> Idle]
  /\ obj = [id \in Change |-> None]
  /\ changes = {}
  /\ archived = [id \in Change |-> None]
  /\ disk = [changes |-> [id \in Change |-> None],
             archives |-> [id \in Change |-> None], newest |-> {}]
  /\ repeats = 0 /\ edits = 0 /\ requests = 0 /\ faults = 0
  /\ used = {} /\ stored = {} /\ discarded = {} /\ rewritten = {} /\ torn = {}
  /\ stale = FALSE /\ crashed = FALSE

AgentSteps ==
  \/ ToolStarts
  \/ \E content \in Content : ToolEdits(content)
  \/ CaptureArrives

Requests(t) ==
  \E id \in Change :
    \/ KeepChange(t, id) \/ RevertChange(t, id)
    \/ \E r \in Region : KeepHunk(t, id, r) \/ RevertHunk(t, id, r)
    \/ DeleteChange(t, id)
    \/ \E content \in Content : UpdateChangeContent(t, id, content)
    \/ RestoreFromArchive(t, id)

Handlers(t) ==
  \/ TrackArrives(t) \/ TrackReads(t)
  \/ CheckReads(t) \/ WriteLands(t) \/ VersionLands(t)
  \/ SaveLands(t) \/ ArchiveLands(t) \/ UnlinkLands(t) \/ Fails(t)

Next == AgentSteps \/ Restart \/ \E t \in Task : Requests(t) \/ Handlers(t)

Spec == Init /\ [][Next]_vars

-----------------------------------------------------------------------------
TypeOK ==
  /\ file \in Content
  /\ editing \in BOOLEAN
  /\ wire \in [{"capture", "track"} -> 0 .. MaxInputs + MaxRepeats + 1]
  /\ {capture, newest, disk.newest} \subseteq {{}} \cup {{c} : c \in Content}
  /\ op \in [Task -> [kind : Kind, step : Step, id : Change \cup {NoChange},
                      doc : Doc \cup {None}, content : Content,
                      region : SUBSET Region]]
  /\ obj \in [Change -> Doc \cup {None}]
  /\ archived \in [Change -> Doc \cup {None}]
  /\ disk.changes \in [Change -> Doc \cup {None}]
  /\ disk.archives \in [Change -> Doc \cup {None}]
  /\ changes \subseteq used /\ used \subseteq Change
  /\ repeats \in 0 .. MaxRepeats /\ edits \in 0 .. MaxInputs
  /\ requests \in 0 .. MaxInputs /\ faults \in 0 .. MaxFaults

(* A change that was ever stored, and that the user did not delete, is on  *)
(* disk as pending or as archived at every moment: through overlapping     *)
(* requests, failed file operations, and a crash between any two steps.    *)
NothingLost ==
  \A id \in stored \ discarded :
    disk.changes[id] # None \/ disk.archives[id] # None

(* The archive says "reverted" only of a change for which the file was     *)
(* rewritten: a revert whose write failed leaves the change pending.       *)
RevertedMeansRewritten ==
  \A id \in Change :
    "reverted" \in {archived[id].status, disk.archives[id].status} =>
      id \in rewritten

(* When no handler is under way, memory and disk agree on every change     *)
(* whose handlers did not overlap and whose file operations did not fail.  *)
Quiet == \A t \in Task : op[t].step = "idle"
SettledAgree ==
  Quiet => \A id \in Change \ torn :
             /\ disk.changes[id] = IF id \in changes THEN obj[id] ELSE None
             /\ disk.archives[id] = archived[id]

(* "Every reader that treats the newest version as the file's current      *)
(* state": once all hooks are delivered and all handlers are through, the  *)
(* newest version is what the file holds, after reverts, hunks and         *)
(* restores too, unless handlers of one change overlapped, a delivery was  *)
(* tracked from a stale content or capture, or the core was killed.        *)
NewestIsFile ==
  (Quiet /\ ~editing /\ wire.track = 0 /\ torn = {} /\ ~stale /\ ~crashed) =>
    newest \in {{}, {file}}

(* A repeated delivery makes no second change of one edit, nor of a file   *)
(* that was reverted or restored since, unless what it took for the        *)
(* content before the edit was stale when the file had been read, requests *)
(* overlapped, or the core was killed.                                     *)
NoPhantomChange ==
  Cardinality(used) > edits => stale \/ crashed \/ torn # {}

-----------------------------------------------------------------------------
(* archiveResolvedChange: before it, resolved changes "lingered in the     *)
(* pending map ... invisible to the pending list".  What the map holds is  *)
(* pending.                                                                *)
MapHoldsPending == \A id \in changes : obj[id].status = "pending"

=============================================================================
