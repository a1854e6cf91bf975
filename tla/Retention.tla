------------------------------ MODULE Retention ------------------------------
(***************************************************************************)
(* Retention (LogManager.enforceRetention, PersistenceStore.cleanup,       *)
(* InspectorHookCore.collapseSession): what is older than the window goes, *)
(* a session only after a summary of it is saved.  A sweep is one long     *)
(* asynchronous call; hooks, saves and crashes come between its steps.     *)
(***************************************************************************)
EXTENDS Integers, FiniteSets

CONSTANTS
  Session,
  None,
  MaxAge,       \* retentionDays
  MaxDay,       \* bound: days that pass
  MaxActs,      \* bound: hook events of a session
  MaxCrashes    \* bound: crashes

VARIABLES
  today,
  live, stored, \* a session's record in memory and on disk
  logs, lines,  \* the prompts logged, in memory and on disk
  archives,     \* archived changes on disk
  summaries,
  sweep,        \* the sweep under way
  starting,     \* the core is in load() and takes no hooks yet
  crashes,
  pruned,       \* history: how much a sweep deleted since the last summary
  overtaken     \* history: sessions saved anew under a sweep that had read them

recordVars == <<live, stored>>
textVars == <<logs, lines, archives>>
historyVars == <<crashes, pruned, overtaken>>
vars == <<today, recordVars, textVars, summaries, sweep, starting, historyVars>>

-----------------------------------------------------------------------------
Day == 0 .. MaxDay
SessionRecord == [first : Day, last : Day, acts : 1 .. MaxActs]
Line == [of : Session, at : Day]
Summary == [acts : 1 .. MaxActs, prompts : 0 .. MaxDay + 1]

Idle == [step |-> "idle", cutoff |-> 0, read |-> [s \in Session |-> None],
         left |-> {}, saved |-> {}, expired |-> {}]

Aged(S, cutoff) == {l \in S : l.at >= cutoff}

(* trackActivity and addLog for a prompt; a kept change may follow it.     *)
Activity(s) ==
  /\ ~starting
  /\ IF live[s] = None
       THEN live' = [live EXCEPT ![s] = [first |-> today, last |-> today, acts |-> 1]]
       ELSE /\ live[s].acts < MaxActs
            /\ live' = [live EXCEPT ![s].last = today, ![s].acts = @ + 1]
  /\ logs' = logs \cup {[of |-> s, at |-> today]}
  /\ lines' = lines \cup {[of |-> s, at |-> today]}
  /\ \E kept \in BOOLEAN :
       archives' = IF kept THEN archives \cup {[of |-> s, at |-> today]} ELSE archives
  /\ UNCHANGED <<today, stored, summaries, sweep, starting, historyVars>>

(* The session's debounced save.                                           *)
Saves(s) ==
  /\ ~starting /\ live[s] # None /\ live[s] # stored[s]
  /\ stored' = [stored EXCEPT ![s] = live[s]]
  /\ overtaken' = IF sweep.read[s] # None THEN overtaken \cup {s} ELSE overtaken
  /\ UNCHANGED <<today, live, textVars, summaries, sweep, starting, crashes, pruned>>

DayPasses ==
  /\ today < MaxDay
  /\ today' = today + 1
  /\ UNCHANGED <<recordVars, textVars, summaries, sweep, starting, historyVars>>

-----------------------------------------------------------------------------
(* enforceRetention, every minute: the logs in memory go first ...         *)
Begun == [Idle EXCEPT !.step = "lines", !.cutoff = today - MaxAge]

SweepBegins ==
  /\ sweep.step = "idle" /\ ~starting
  /\ sweep' = Begun
  /\ logs' = Aged(logs, Begun.cutoff)
  /\ UNCHANGED <<today, recordVars, lines, archives, summaries, starting, historyVars>>

(* ... then the lines of the log files ...                                 *)
PrunesLines ==
  /\ sweep.step = "lines"
  /\ lines' = Aged(lines, sweep.cutoff)
  /\ sweep' = [sweep EXCEPT !.step = "read"]
  /\ UNCHANGED <<today, recordVars, logs, archives, summaries, starting, historyVars>>

(* Broken: a session is as old as its start.                               *)
ExpiredByStart(record, cutoff) == record # None /\ record.first < cutoff

Expired(record, cutoff) == record # None /\ record.last < cutoff

(* ... then all the sessions are read, and the expired ones gone through.  *)
ReadsSessions ==
  /\ sweep.step = "read"
  /\ LET old == {s \in Session : Expired(stored[s], sweep.cutoff)}
     IN sweep' = [sweep EXCEPT !.step = "collapse", !.left = old,
                    !.read = [s \in Session |-> IF s \in old THEN stored[s] ELSE None]]
  /\ UNCHANGED <<today, recordVars, textVars, summaries, starting, historyVars>>

(* collectDigestInput: the prompts of the session that memory still has.   *)
SummaryOf(s) ==
  [acts |-> sweep.read[s].acts, prompts |-> Cardinality({l \in logs : l.of = s})]

(* Broken: a session that could not be summarised is deleted all the same. *)
PreservedOrNot(ok) == TRUE

Preserved(ok) == ok

(* Collapsing one: its summary is saved, in the place of an earlier one of *)
(* a session that came back, or that fails and it stays.                   *)
Collapses(s) ==
  /\ sweep.step = "collapse" /\ s \in sweep.left
  /\ \E ok \in BOOLEAN :
       /\ summaries' = IF ok THEN [summaries EXCEPT ![s] = SummaryOf(s)] ELSE summaries
       /\ sweep' = IF Preserved(ok)
            THEN [sweep EXCEPT !.step = "delete", !.left = @ \ {s}, !.saved = {s}]
            ELSE [sweep EXCEPT !.left = @ \ {s}, !.read[s] = None]
       /\ pruned' = IF ok THEN [pruned EXCEPT ![s] = 0] ELSE pruned
  /\ UNCHANGED <<today, recordVars, textVars, starting, crashes, overtaken>>

Deletes ==
  /\ sweep.step = "delete"
  /\ \E s \in sweep.saved :
       /\ stored' = [stored EXCEPT ![s] = None]
       /\ pruned' = [pruned EXCEPT ![s] = IF stored[s] = None THEN @ ELSE stored[s].acts]
       /\ sweep' = [sweep EXCEPT !.step = "collapse", !.saved = {}, !.read[s] = None,
                      !.expired = IF stored[s] = None THEN @ ELSE @ \cup {s}]
  /\ UNCHANGED <<today, live, textVars, summaries, starting, crashes, overtaken>>

(* Last the archived changes: the old ones and the expired sessions'.      *)
PrunesArchives ==
  /\ sweep.step = "collapse" /\ sweep.left = {}
  /\ archives' = {l \in Aged(archives, sweep.cutoff) : l.of \notin sweep.expired}
  /\ sweep' = Idle
  /\ starting' = FALSE
  /\ UNCHANGED <<today, recordVars, logs, lines, summaries, historyVars>>

(* The core is killed; the next one loads, and load() ends with a sweep.   *)
Restarts ==
  /\ crashes < MaxCrashes
  /\ crashes' = crashes + 1
  /\ live' = stored
  /\ logs' = Aged(lines, Begun.cutoff)
  /\ sweep' = Begun
  /\ starting' = TRUE
  /\ UNCHANGED <<today, stored, lines, archives, summaries, pruned, overtaken>>

Init ==
  /\ today = 0 /\ crashes = 0 /\ starting = FALSE /\ sweep = Idle
  /\ live = [s \in Session |-> None] /\ stored = live /\ summaries = live
  /\ logs = {} /\ lines = {} /\ archives = {}
  /\ pruned = [s \in Session |-> 0] /\ overtaken = {}

Next ==
  \/ \E s \in Session : Activity(s) \/ Saves(s) \/ Collapses(s)
  \/ DayPasses \/ SweepBegins \/ PrunesLines \/ ReadsSessions \/ Deletes
  \/ PrunesArchives \/ Restarts

Spec == Init /\ [][Next]_vars

-----------------------------------------------------------------------------
TypeOK ==
  /\ today \in Day
  /\ \A f \in {live, stored, sweep.read} : f \in [Session -> SessionRecord \cup {None}]
  /\ logs \subseteq Line /\ lines \subseteq Line /\ archives \subseteq Line
  /\ summaries \in [Session -> Summary \cup {None}]
  /\ sweep.step \in {"idle", "lines", "read", "collapse", "delete"}

(* What a sweep deletes of a session is in the session's summary: a failed *)
(* summary cancels the deletion, and a crash between the two loses neither *)
(* - unless the session was saved anew after the sweep had read it.  (A    *)
(* session that comes back is summarised again over its first summary.)    *)
PrunedIsPreserved ==
  \A s \in Session : pruned[s] > 0 /\ s \notin overtaken =>
    summaries[s] # None /\ summaries[s].acts >= pruned[s]

(* A sweep deletes no session that has been active within the window it    *)
(* enforces, however long it has been open, and however long the sweep     *)
(* takes - with the same exception.                                        *)
SparesActive ==
  \A s \in Session :
    stored[s] # None /\ stored'[s] = None =>
      stored[s].last < sweep.cutoff \/ s \in overtaken

ActiveSessionsStay == [][SparesActive]_vars

(* The summary is "the full input, not a bare session": the prompts of the *)
(* session that are on disk when it expires are in what is left of it.     *)
SummaryHasPrompts ==
  \A s \in Session : summaries[s] # None => summaries[s].prompts > 0

=============================================================================
