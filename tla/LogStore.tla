------------------------------ MODULE LogStore ------------------------------
(***************************************************************************)
(* The log of hook events: LogManager (managers/log-manager.ts) keeps the  *)
(* newest entries in memory and recognises repeated deliveries;            *)
(* PersistenceStore (persistence/store.ts) appends every entry to a live   *)
(* file, rotates it by size and rewrites it for a filtered clear.          *)
(*                                                                         *)
(* An entry is its number in the order of arrival; a file is the sequence  *)
(* of the entries its lines hold, a torn line being 0.  The file           *)
(* operations of an append and of a clear are awaited, so they interleave. *)
(***************************************************************************)
EXTENDS Integers, Sequences, SequencesExt, Arrays

CONSTANTS
  Firing,        \* hook firings
  KindOf,        \* what identifies each: "tool", "prompt", "session", "bare"
  NoKey,         \* the null key
  MaxInMemory,   \* maxLogsInMemory
  MaxFileLines,  \* maxLogFileSize, in lines
  MaxLogFiles,   \* maxLogFiles
  MaxKeys,       \* MAX_DELIVERY_KEYS
  MaxEntries,    \* bound: entries stored
  MaxSweeps,     \* bound: clears and retention rounds
  MaxCrashes     \* bound: restarts

VARIABLES
  entryOf,           \* the firing that each entry records
  logs,              \* this.logs: entries in memory, oldest first
  recentDeliveries,  \* keys in the order of the Map, with their age
  live, rotated,     \* the files: the live one, the rotated ones oldest first
  appends,           \* calls of appendLog under way
  sweep,             \* the clear or retention round under way
  delivered,         \* how often each firing was delivered
  sweeps, crashes,
  acked,             \* history: entries whose append has returned
  discarded,         \* history: entries a clear, retention or the file limit took
  lingering,         \* history: discarded ones that a clear does not see
  exposed,           \* history: entries in a window where they can be lost
  forgotten          \* history: firings whose repetition is not recognised

memoryVars == <<entryOf, logs, recentDeliveries, delivered>>
fileVars == <<live, rotated>>
historyVars == <<acked, discarded, lingering, exposed, forgotten>>
vars == <<memoryVars, fileVars, appends, sweep, sweeps, crashes, historyVars>>

-----------------------------------------------------------------------------
Entry == 1 .. MaxEntries
Stored == 1 .. Len(entryOf)
Lines(s) == {s[i] : i \in DOMAIN s}
Newest(s, n) == IF Len(s) <= n THEN s ELSE SubSeq(s, Len(s) - n + 1, Len(s))

(* loadLogs: one line that does not parse, and nothing of the file is read. *)
Readable(file) == IF 0 \in Lines(file) THEN <<>> ELSE file

OnDisk == (UNION {Lines(f) : f \in Lines(rotated) \cup {live}}) \ {0}

Idle == [step |-> "idle", drops |-> {}, upto |-> 0, aged |-> FALSE, read |-> <<>>]

-----------------------------------------------------------------------------
(* deliveryKey: the tool call, or else turn and message, or else session   *)
(* and message, which all the firings of kind "session" share.             *)
Key(f) ==
  CASE KindOf[f] = "bare" -> NoKey
    [] KindOf[f] = "session" -> "session"
    [] OTHER -> f

IsRecent(k) ==
  \E i \in DOMAIN recentDeliveries :
    recentDeliveries[i].key = k /\ ~recentDeliveries[i].old

(* Map.set keeps the place of a key that is there already.                 *)
SetKey(k) ==
  IF \E i \in DOMAIN recentDeliveries : recentDeliveries[i].key = k
    THEN [i \in DOMAIN recentDeliveries |->
            IF recentDeliveries[i].key = k THEN [key |-> k, old |-> FALSE]
            ELSE recentDeliveries[i]]
    ELSE Append(recentDeliveries, [key |-> k, old |-> FALSE])

(* Broken: a full table takes no more keys.                                *)
RememberedIfRoom(k) ==
  IF Len(recentDeliveries) >= MaxKeys THEN recentDeliveries ELSE SetKey(k)

(* isDuplicateDelivery, the pruning: those out of the window, then those   *)
(* that come first.                                                        *)
Remembered(k) ==
  LET all == SetKey(k)
      young == {d \in Lines(all) : ~d.old}
  IN IF Len(all) <= MaxKeys THEN all ELSE Newest(Filter(all, young), MaxKeys)

Keys(table) == {table[i].key : i \in DOMAIN table}
Forgets(table) == {f \in Firing : Key(f) \in Keys(recentDeliveries) \ Keys(table)}

(* addLog: a repeat whose record is in memory returns that record.         *)
IsRepeat(f) ==
  /\ Key(f) # NoKey
  /\ IsRecent(Key(f))
  /\ \E i \in DOMAIN logs : Key(entryOf[logs[i]]) = Key(f)

RepeatArrives(f) ==
  /\ delivered[f] < 2
  /\ IsRepeat(f)
  /\ delivered' = [delivered EXCEPT ![f] = @ + 1]
  /\ UNCHANGED <<entryOf, logs, recentDeliveries, fileVars, appends, sweep,
                 sweeps, crashes, historyVars>>

(* Firings whose only record in memory has gone.                           *)
Dropped(left) ==
  {entryOf[n] : n \in Lines(logs) \ Lines(left)}

(* addLog: a new record, trimmed into memory, its append begun.            *)
EventArrives(f) ==
  LET n == Len(entryOf) + 1
      left == Newest(Append(logs, n), MaxInMemory)
      k == Key(f)
      table == IF k = NoKey \/ IsRecent(k) THEN recentDeliveries ELSE Remembered(k)
  IN /\ delivered[f] < 2 /\ n <= MaxEntries
     /\ ~IsRepeat(f)
     /\ delivered' = [delivered EXCEPT ![f] = @ + 1]
     /\ entryOf' = Append(entryOf, f)
     /\ logs' = left
     /\ recentDeliveries' = table
     /\ appends' = appends \cup
          {[entry |-> n, step |-> "check", near |-> FALSE, doomed |-> 0]}
     /\ forgotten' = forgotten \cup Forgets(table) \cup Dropped(left)
     /\ UNCHANGED <<fileVars, sweep, sweeps, crashes, acked, discarded,
                    lingering, exposed>>

(* Ten seconds pass since the oldest delivery that is still in the window. *)
WindowPasses ==
  \E i \in DOMAIN recentDeliveries :
    /\ ~recentDeliveries[i].old
    /\ recentDeliveries' = [recentDeliveries EXCEPT ![i].old = TRUE]
    /\ forgotten' = forgotten \cup
         {f \in Firing : Key(f) = recentDeliveries[i].key}
    /\ UNCHANGED <<entryOf, logs, delivered, fileVars, appends, sweep, sweeps,
                   crashes, acked, discarded, lingering, exposed>>

-----------------------------------------------------------------------------
Moves(a, step) == (appends \ {a}) \cup {[a EXCEPT !.step = step]}

(* rotateLogIfNeeded: the size of the live file.                           *)
AppendChecks(a) ==
  /\ a \in appends /\ a.step = "check"
  /\ appends' = Moves(a, IF Len(live) >= MaxFileLines THEN "list" ELSE "append")
  /\ UNCHANGED <<memoryVars, fileVars, sweep, sweeps, crashes, historyVars>>

(* A live file without lines was emptied by a clear; or it is not there,   *)
(* because another rotation has taken it since a looked at its size.       *)
Presence(a) == IF live = <<>> /\ a.near THEN BOOLEAN ELSE {TRUE}

(* Broken: as many files stay as the limit allows, and one more is made.   *)
DoomedOneFewer(files) == IF files <= MaxLogFiles THEN 0 ELSE files - MaxLogFiles

(* rotateLog: how many of so many files are too many.                      *)
Doomed(files) == IF files < MaxLogFiles THEN 0 ELSE files - MaxLogFiles + 1

(* rotateLog reads the directory, where the live file counts as one.       *)
Lists(a) ==
  /\ a \in appends /\ a.step = "list"
  /\ \E present \in Presence(a) :
       LET files == Len(rotated) + (IF present THEN 1 ELSE 0)
       IN appends' = (appends \ {a}) \cup
                       {[a EXCEPT !.step = "rotate", !.doomed = Doomed(files)]}
  /\ UNCHANGED <<memoryVars, fileVars, sweep, sweeps, crashes, historyVars>>

(* rotateLog unlinks the oldest file that it listed.  Another rotation     *)
(* that has listed it too will not find it: its own unlink throws, which   *)
(* rotateLogIfNeeded takes for a file that is not there yet, and appends.  *)
Unlinks(a) ==
  LET gone == Lines(Head(rotated)) \ {0}
  IN /\ a \in appends /\ a.step = "rotate" /\ a.doomed > 0
     /\ rotated' = Tail(rotated)
     /\ appends' = {IF b = a THEN [a EXCEPT !.doomed = @ - 1]
                    ELSE IF b.doomed = 0 THEN b
                    ELSE [b EXCEPT !.step = "append", !.doomed = 0] : b \in appends}
     /\ discarded' = discarded \cup gone
     /\ lingering' = lingering \cup gone
     /\ UNCHANGED <<memoryVars, live, sweep, sweeps, crashes, acked, exposed,
                    forgotten>>

(* rotateLog: the live file takes the time as its name, which in the       *)
(* millisecond of another rotation is the name of that one's file.         *)
Renames(a) ==
  /\ a \in appends /\ a.step = "rotate" /\ a.doomed = 0
  /\ \E present \in Presence(a),
        sameName \in IF a.near /\ rotated # <<>> THEN BOOLEAN ELSE {FALSE} :
       LET replaced == present /\ sameName
           older == IF replaced THEN Front(rotated) ELSE rotated
       IN /\ rotated' = IF present THEN Append(older, live) ELSE rotated
          /\ exposed' = exposed \cup
               (IF replaced THEN Lines(Last(rotated)) \ {0} ELSE {})
               \cup (IF sweep = Idle THEN {} ELSE Lines(live) \ {0})
          /\ appends' = {[b EXCEPT !.near = @ \/ (present /\ b.step \in {"list", "rotate"})]
                           : b \in Moves(a, "append")}
  /\ live' = <<>>
  /\ lingering' = lingering \cup (IF sweep = Idle THEN {} ELSE Stored)
  /\ UNCHANGED <<memoryVars, sweep, sweeps, crashes, acked, discarded, forgotten>>

(* appendFile: the line is on disk and addLog returns.                     *)
Appends(a) ==
  /\ a \in appends /\ a.step = "append"
  /\ live' = Append(live, a.entry)
  /\ appends' = appends \ {a}
  /\ acked' = acked \cup {a.entry}
  /\ exposed' = exposed \cup
       (IF sweep # Idle \/ 0 \in Lines(live) THEN {a.entry} ELSE {})
  /\ UNCHANGED <<memoryVars, rotated, sweep, sweeps, crashes, discarded,
                 lingering, forgotten>>

-----------------------------------------------------------------------------
(* The predicate of a clear: by session, which later entries may meet too, *)
(* or by age.                                                              *)
Meets(n, drops, upto) == entryOf[n] \in drops \/ n <= upto

Without(s, drops, upto) ==
  Filter(s, {n \in Lines(s) : n = 0 \/ ~Meets(n, drops, upto)})

(* What a clear removes from memory, and begins to remove from disk.       *)
SweepBegins(drops, upto, aged, step) ==
  /\ sweep = Idle /\ sweeps < MaxSweeps
  /\ sweeps' = sweeps + 1
  /\ sweep' = [step |-> step, drops |-> drops, upto |-> upto, aged |-> aged, read |-> <<>>]
  /\ logs' = Without(logs, drops, upto)
  /\ discarded' = discarded \cup {n \in Stored : Meets(n, drops, upto)}
  /\ lingering' = lingering \cup {a.entry : a \in appends}
       \cup (IF aged THEN {} ELSE (UNION {Lines(f) : f \in Lines(rotated)}) \ {0})
       \cup (IF 0 \in Lines(live) THEN Stored ELSE {})
  /\ forgotten' = forgotten \cup Dropped(Without(logs, drops, upto))
  /\ exposed' = exposed \cup {a.entry : a \in appends}
  /\ UNCHANGED <<entryOf, recentDeliveries, delivered, fileVars, appends, crashes, acked>>

(* clear(): everything, or what a filter by session or by age selects.     *)
ClearsAll == SweepBegins({}, Len(entryOf), FALSE, "truncate")
ClearsSession == \E f \in Firing : SweepBegins({f}, 0, FALSE, "read")

(* enforceRetention and the log part of cleanup(): what is older than the  *)
(* cutoff.                                                                 *)
Retires == \E n \in Stored : SweepBegins({}, n, TRUE, "read")

(* Broken: a filtered clear leaves the file alone.                         *)
FilteredNot(file) == Readable(file)

(* filterLog: what a file keeps.                                           *)
Filtered(file) == Without(Readable(file), sweep.drops, sweep.upto)

(* filterLog reads a file; when nothing is to go it writes nothing.        *)
(* cleanup() also filters the rotated files, which nobody else writes.     *)
SweepReads ==
  LET left == Filtered(live)
  IN /\ sweep.step = "read"
     /\ sweep' = IF left = Readable(live) THEN Idle
                 ELSE [sweep EXCEPT !.step = "write", !.read = left]
     /\ rotated' = IF ~sweep.aged THEN rotated
                   ELSE [i \in DOMAIN rotated |->
                           IF 0 \in Lines(rotated[i]) THEN rotated[i]
                           ELSE Filtered(rotated[i])]
     /\ UNCHANGED <<memoryVars, live, appends, sweeps, crashes, historyVars>>

(* Broken: the file is rewritten from the buffer.                          *)
RetainedFromMemory == logs

(* filterLog: the entries to retain, as read from the file.                *)
Retained == sweep.read

(* filterLog puts the retained lines in the place of the live file, or     *)
(* clearLog empties it.                                                    *)
SweepWrites ==
  /\ sweep.step \in {"write", "truncate"}
  /\ live' = IF sweep.step = "write" THEN Retained ELSE <<>>
  /\ sweep' = Idle
  /\ UNCHANGED <<memoryVars, rotated, appends, sweeps, crashes, historyVars>>

-----------------------------------------------------------------------------
(* loadRecentLogs: back across the rotated files.                          *)
Loaded(file) ==
  Newest(FlattenSeq([i \in DOMAIN rotated |-> Readable(rotated[i])])
           \o Readable(file), MaxInMemory)

(* The core is killed, a line perhaps half written, and another one loads. *)
Restarts ==
  /\ crashes < MaxCrashes
  /\ crashes' = crashes + 1
  /\ \E torn \in IF \E a \in appends : a.step = "append" THEN BOOLEAN ELSE {FALSE} :
       LET file == IF torn THEN Append(live, 0) ELSE live
       IN /\ live' = file
          /\ logs' = Loaded(file)
          /\ exposed' = exposed \cup (IF torn THEN Lines(live) \ {0} ELSE {})
  /\ recentDeliveries' = <<>>
  /\ appends' = {}
  /\ sweep' = Idle
  /\ lingering' = lingering \cup (IF sweep = Idle THEN {} ELSE Stored)
  /\ forgotten' = Firing
  /\ UNCHANGED <<entryOf, delivered, rotated, sweeps, acked, discarded>>

-----------------------------------------------------------------------------
Init ==
  /\ entryOf = <<>> /\ logs = <<>> /\ recentDeliveries = <<>>
  /\ delivered = [f \in Firing |-> 0]
  /\ live = <<>> /\ rotated = <<>> /\ appends = {} /\ sweep = Idle
  /\ sweeps = 0 /\ crashes = 0
  /\ acked = {} /\ discarded = {} /\ lingering = {} /\ exposed = {} /\ forgotten = {}

Next ==
  \/ \E f \in Firing : RepeatArrives(f) \/ EventArrives(f)
  \/ WindowPasses
  \/ \E a \in appends : AppendChecks(a) \/ Lists(a) \/ Unlinks(a)
                        \/ Renames(a) \/ Appends(a)
  \/ ClearsAll \/ ClearsSession \/ Retires
  \/ SweepReads \/ SweepWrites
  \/ Restarts

Spec == Init /\ [][Next]_vars

-----------------------------------------------------------------------------
(* A rotation is about to rename, and no other has since it was needed.    *)
RotatesAlone(a) == a.step = "rotate" /\ a.doomed = 0 /\ ~a.near

(* The logs in memory and the keys stay within their limits, and so do the *)
(* rotated files, of which a rotation is about to add one, unless another  *)
(* one added one meanwhile: rotations that overlap leave as many more.     *)
TypeOK ==
  /\ entryOf \in Seq(Firing) /\ Len(entryOf) <= MaxEntries
  /\ logs \in Seq(Entry) /\ Len(logs) <= MaxInMemory
  /\ \A i \in DOMAIN recentDeliveries : recentDeliveries[i].old \in BOOLEAN
  /\ Len(recentDeliveries) <= MaxKeys
  /\ live \in Seq(Entry \cup {0}) /\ rotated \in Seq(Seq(Entry \cup {0}))
  /\ appends \subseteq [entry : Entry, step : {"check", "list", "rotate", "append"},
                         near : BOOLEAN, doomed : Nat]
  /\ \A a \in appends : RotatesAlone(a) => Len(rotated) < MaxLogFiles - 1
  /\ sweep.step \in {"idle", "read", "write", "truncate"}
  /\ delivered \in [Firing -> 0 .. 2]
  /\ acked \cup discarded \cup lingering \cup exposed \subseteq Entry

(* An entry whose append has returned stays on disk, through rotations,    *)
(* clears of other entries and restarts, until it is cleared, too old or   *)
(* in a file beyond the limit - unless it was appended or rotated while a  *)
(* clear was between reading the file and replacing it, its file was       *)
(* replaced by one rotated in the same millisecond, or a line was torn.    *)
NothingStoredLost == acked \subseteq OnDisk \cup discarded \cup exposed

(* What was cleared does not come back into memory, not even at a restart, *)
(* unless the clear could not see it: it was in a rotated file or still to *)
(* be appended, or a rotation or a crash came between.                     *)
ClearedStaysCleared == Lines(logs) \cap discarded \subseteq lingering

(* One firing, one record, however many transports deliver it, unless its  *)
(* key left the window or the table, or its record left memory.            *)
OnePerFiring ==
  \A n, o \in Stored :
    n # o /\ entryOf[n] = entryOf[o] =>
      KindOf[entryOf[n]] = "bare" \/ entryOf[n] \in forgotten

=============================================================================
