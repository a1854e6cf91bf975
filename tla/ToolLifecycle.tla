--------------------------- MODULE ToolLifecycle ---------------------------
(***************************************************************************)
(* One session as SessionManager.trackActivity                             *)
(* (packages/core/src/managers/session-manager.ts) builds it from hook     *)
(* events: its status, and the tool executions that start and completion   *)
(* events are paired into (packages/core/src/managers/tool-executions.ts). *)
(*                                                                         *)
(* A firing of a hook reaches the core once per registered transport (the  *)
(* shell script, the native HTTP hook), at any later moment and in any     *)
(* order; a lost delivery is one that stays on the wire for ever.          *)
(* LogManager.addLog recognises the second delivery of a firing and stores *)
(* no second log, but answers with the stored one, which                   *)
(* HttpServer.ingestLog then hands to trackActivity again: every delivery  *)
(* is tracked.                                                             *)
(*                                                                         *)
(* The sessions map holds a part of the stored sessions only: load() takes *)
(* the newest within a budget, a lookup of another session may evict this  *)
(* one, and the sweeps visit what is resident.  The record is durable      *)
(* here, resident or not; module SessionStore is about what of it          *)
(* survives.                                                               *)
(***************************************************************************)
EXTENDS Integers, Sequences

CONSTANTS
  Call,              \* tool_use_ids
  NoCall,            \* not a tool_use_id
  ToolOf,            \* the tool a call is for
  Verdict,           \* the outcomes terminalStatusFor may read from an event
  Transports,        \* how many transports are registered
  IdleTimeout,       \* idleTimeoutMs
  CompletedTimeout,  \* completedTimeoutMs
  StuckTimeout,      \* STUCK_EXECUTION_TIMEOUT_MS
  LastSend,          \* bound: hooks fire up to this time
  MaxTime            \* bound: the clock stops here

ASSUME CallAssumption == NoCall \notin Call /\ DOMAIN ToolOf = Call
ASSUME VerdictAssumption ==
  Verdict # {} /\ Verdict \subseteq {"completed", "failed", "blocked"}
ASSUME TimeAssumption ==
  /\ IdleTimeout \in Nat \ {0}
  /\ CompletedTimeout \in Nat \ {0}
  /\ StuckTimeout \in Nat \ {0}
ASSUME BoundAssumption ==
  /\ Transports \in Nat
  /\ LastSend \in Nat /\ MaxTime \in Nat \ {0}

VARIABLES
  calls,       \* per call, what Claude Code is doing: "waiting", "running", "ended"
  verdict,     \* per call, the outcome its completion event implies
  sentAt,      \* per firing, the timestamp the hook gave it, 0 before it fires
  wire,        \* per firing, the deliveries under way
  now,         \* the clock
  status,      \* session.status, "none" before the session is created
  lastActivity,\* session.lastActivityTime
  endTime,     \* session.endTime, 0 when undefined
  executions,  \* session.toolExecutions
  resident,    \* is the session in the sessions map, or in its file only?
  sweepNow,    \* the clock as checkStaleSessions read it, 0 when it is not running
  stray        \* history: calls with a completion tracked again, or before the start

claudeVars == <<calls, verdict, sentAt>>
sessionVars == <<status, lastActivity, endTime>>
vars == <<claudeVars, wire, now, sessionVars, executions, resident, sweepNow,
          stray>>

-----------------------------------------------------------------------------
Firing == ({"start", "finish"} \X Call) \cup {<<"end", NoCall>>}
SessionEnd == <<"end", NoCall>>

ExecutionStatus == {"running", "unknown"} \cup Verdict
Execution == [id : Call, startTime : 0 .. MaxTime, status : ExecutionStatus,
              abandoned : BOOLEAN, by : Call \cup {NoCall}]
SessionStatus == {"none", "active", "idle", "completed", "terminated"}

(* Has a delivery of f been tracked?                                       *)
Tracked(f) == sentAt[f] # 0 /\ wire[f] < Transports

(* A hook fires: each registered transport sends it on its way.            *)
Fire(f) ==
  /\ now <= LastSend
  /\ sentAt[f] = 0
  /\ sentAt' = [sentAt EXCEPT ![f] = now]
  /\ wire' = [wire EXCEPT ![f] = Transports]

-----------------------------------------------------------------------------
(* Claude Code starts a tool call, ends it, or ends the session.  A call   *)
(* may also never end: a tool need not produce a completion event.         *)
CallStarts(c) ==
  /\ calls[c] = "waiting"
  /\ calls' = [calls EXCEPT ![c] = "running"]
  /\ Fire(<<"start", c>>)
  /\ UNCHANGED <<verdict, now, sessionVars, executions, resident, sweepNow, stray>>

CallEnds(c, v) ==
  /\ calls[c] = "running"
  /\ calls' = [calls EXCEPT ![c] = "ended"]
  /\ verdict' = [verdict EXCEPT ![c] = v]
  /\ Fire(<<"finish", c>>)
  /\ UNCHANGED <<now, sessionVars, executions, resident, sweepNow, stray>>

SessionEnds ==
  /\ Fire(SessionEnd)
  /\ UNCHANGED <<calls, verdict, now, sessionVars, executions, resident,
                 sweepNow, stray>>

-----------------------------------------------------------------------------
First(S) == {i \in S : \A j \in S : i <= j}

RunningSameTool(c) == {i \in DOMAIN executions :
                         /\ ToolOf[executions[i].id] = ToolOf[c]
                         /\ executions[i].status = "running"}

(* Broken: pairing by tool name alone.                                     *)
MatchByToolOnly(c) == First(RunningSameTool(c))

(* Broken: an execution with the right id matches whatever its status.     *)
MatchClosedToo(c) ==
  LET exact == {i \in DOMAIN executions : executions[i].id = c}
  IN First(IF exact # {} THEN exact ELSE RunningSameTool(c))

(* findRunningExecution: the execution with the event's own id, if it is   *)
(* running or was given up on; otherwise the first running one of the same *)
(* tool.                                                                   *)
Match(c) ==
  LET exact == {i \in DOMAIN executions :
                  executions[i].id = c /\ executions[i].status \in {"running", "unknown"}}
  IN First(IF exact # {} THEN exact ELSE RunningSameTool(c))

(* A completion event closes an execution and clears the reaper's note.  A *)
(* denial, level "blocked" without a completion event, sets status and     *)
(* error the same way.                                                     *)
Closed(exec, c) ==
  [exec EXCEPT !.status = verdict[c], !.by = c, !.abandoned = FALSE]

(* reactivateSession: status and endTime after new activity.               *)
Reactivated(st, e) ==
  <<IF st \in {"none", "idle", "completed"} THEN "active" ELSE st,
    IF st = "completed" THEN 0 ELSE e>>

(* One of the deliveries under way arrives.                                *)
Deliver(f) == wire[f] > 0 /\ wire' = [wire EXCEPT ![f] = @ - 1]

(* trackActivity on one delivery: create the session, or read it back into *)
(* the map, and reactivate it; then start or close an execution, or end    *)
(* the session.                                                            *)
Track(f) ==
  LET c == f[2]
      live == Reactivated(status, endTime)
      ends == f = SessionEnd
  IN /\ Deliver(f)
     /\ resident' = TRUE
     /\ lastActivity' = sentAt[f]
     /\ status' = IF ends THEN "completed" ELSE live[1]
     /\ endTime' = IF ends THEN sentAt[f] ELSE live[2]
     /\ executions' =
          CASE f[1] = "start" ->
                 Append(executions, [id |-> c, startTime |-> sentAt[f],
                                     status |-> "running", abandoned |-> FALSE,
                                     by |-> NoCall])
            [] f[1] = "finish" ->
                 [i \in DOMAIN executions |->
                    IF i \in Match(c) THEN Closed(executions[i], c) ELSE executions[i]]
            [] OTHER -> executions
     /\ stray' = IF f[1] = "finish" /\ (Tracked(f) \/ ~Tracked(<<"start", c>>))
                   THEN stray \cup {c} ELSE stray
     /\ UNCHANGED <<claudeVars, now, sweepNow>>

-----------------------------------------------------------------------------
(* markAbandoned: the call ended, and nobody knows how.                    *)
MarkAbandoned(exec) == [exec EXCEPT !.status = "unknown", !.abandoned = TRUE]

(* Broken: only the oldest running execution is looked at.                 *)
ReapedOldestOnly(age) ==
  [i \in DOMAIN executions |->
     IF /\ i = 1 /\ executions[i].status = "running"
        /\ now - executions[i].startTime >= age
       THEN MarkAbandoned(executions[i])
       ELSE executions[i]]

(* reconcileStuckExecutions: what has run for at least age is given up.    *)
Reaped(age) ==
  [i \in DOMAIN executions |->
     IF executions[i].status = "running" /\ now - executions[i].startTime >= age
       THEN MarkAbandoned(executions[i])
       ELSE executions[i]]

(* checkStaleSessions reads the clock and reaps what is resident; it then  *)
(* awaits the writes, of this session and of others, before it looks at    *)
(* the status.                                                             *)
SweepBegins ==
  /\ status # "none"
  /\ sweepNow = 0
  /\ sweepNow' = now
  /\ executions' = IF resident THEN Reaped(StuckTimeout) ELSE executions
  /\ UNCHANGED <<claudeVars, wire, now, sessionVars, resident, stray>>

(* Broken: only active sessions are looked at.                             *)
SweepAgesActiveOnly ==
  /\ sweepNow # 0
  /\ sweepNow' = 0
  /\ status' = IF resident /\ status = "active" /\ sweepNow - lastActivity >= IdleTimeout
                 THEN "idle" ELSE status
  /\ endTime' = endTime
  /\ UNCHANGED <<claudeVars, wire, now, lastActivity, executions, resident, stray>>

(* The second half of the sweep: a session evicted in the meantime is not  *)
(* visited.                                                                *)
SweepAges ==
  LET quiet == sweepNow - lastActivity
      goesIdle == resident /\ status = "active" /\ quiet >= IdleTimeout
      completes == resident /\ status = "idle" /\ quiet >= CompletedTimeout
  IN /\ sweepNow # 0
     /\ sweepNow' = 0
     /\ status' = IF goesIdle THEN "idle" ELSE IF completes THEN "completed" ELSE status
     /\ endTime' = IF completes THEN lastActivity + CompletedTimeout ELSE endTime
     /\ UNCHANGED <<claudeVars, wire, now, lastActivity, executions, resident, stray>>

(* The user terminates the session: one that is not resident is not found. *)
Terminate ==
  /\ resident
  /\ status' = "terminated"
  /\ endTime' = now
  /\ UNCHANGED <<claudeVars, wire, now, lastActivity, executions, resident,
                 sweepNow, stray>>

(* getSession reads a session that is not resident back from its file, and *)
(* getSession of another session evicts this one.                          *)
LooksUp ==
  /\ status # "none" /\ ~resident
  /\ resident' = TRUE
  /\ UNCHANGED <<claudeVars, wire, now, sessionVars, executions, sweepNow, stray>>

Evicts ==
  /\ resident
  /\ resident' = FALSE
  /\ UNCHANGED <<claudeVars, wire, now, sessionVars, executions, sweepNow, stray>>

(* The core stops and starts again: load() takes the session into the map  *)
(* if it is among the newest within the budget, gives up whatever was      *)
(* running in there, and goes straight on to checkStaleSessions.           *)
Restart ==
  /\ status # "none"
  /\ resident' \in BOOLEAN
  /\ sweepNow' = now
  /\ executions' = IF resident' THEN Reaped(0) ELSE executions
  /\ UNCHANGED <<claudeVars, wire, now, sessionVars, stray>>

Tick ==
  /\ now < MaxTime
  /\ now' = now + 1
  /\ UNCHANGED <<claudeVars, wire, sessionVars, executions, resident, sweepNow, stray>>

-----------------------------------------------------------------------------
Init ==
  /\ calls = [c \in Call |-> "waiting"]
  /\ verdict = [c \in Call |-> CHOOSE v \in Verdict : TRUE]
  /\ sentAt = [f \in Firing |-> 0]
  /\ wire = [f \in Firing |-> 0]
  /\ now = 1
  /\ status = "none"
  /\ lastActivity = 0
  /\ endTime = 0
  /\ executions = <<>>
  /\ resident = FALSE
  /\ sweepNow = 0
  /\ stray = {}

Next ==
  \/ \E c \in Call : CallStarts(c) \/ \E v \in Verdict : CallEnds(c, v)
  \/ SessionEnds
  \/ \E f \in Firing : Track(f)
  \/ SweepBegins \/ SweepAges
  \/ Terminate \/ LooksUp \/ Evicts \/ Restart \/ Tick

(* The clock advances, and the interval of startStaleSessionCheck fires    *)
(* while the core runs.  No delivery is promised, and no lookup: a session *)
(* may stay out of the map for ever.                                       *)
Fairness == WF_vars(Tick) /\ WF_vars(SweepBegins) /\ WF_vars(SweepAges)

Spec == Init /\ [][Next]_vars
FairSpec == Spec /\ Fairness

-----------------------------------------------------------------------------
TypeOK ==
  /\ calls \in [Call -> {"waiting", "running", "ended"}]
  /\ verdict \in [Call -> Verdict]
  /\ sentAt \in [Firing -> 0 .. MaxTime]
  /\ wire \in [Firing -> 0 .. Transports]
  /\ now \in 1 .. MaxTime
  /\ status \in SessionStatus
  /\ lastActivity \in 0 .. MaxTime
  /\ endTime \in 0 .. (MaxTime + CompletedTimeout)
  /\ executions \in Seq(Execution)
  /\ resident \in BOOLEAN
  /\ sweepNow \in 0 .. MaxTime
  /\ stray \in SUBSET Call

(* Outcomes are swapped between calls only once a completion event of that *)
(* very tool was tracked a second time, or without its start event before  *)
(* it (the swap may then pass on to calls that are not stray themselves):  *)
(* parallel calls, failures, reaped executions and restarts alone never    *)
(* cross-pair.                                                             *)
CrossPairsOnlyStray ==
  \A i \in DOMAIN executions :
    executions[i].by \notin {NoCall, executions[i].id} =>
      \E c \in stray : ToolOf[c] = ToolOf[executions[i].id]

(* Completed, failed and blocked are final: no later, repeated or other    *)
(* call's event, sweep or restart changes the outcome on record.           *)
OutcomeIsFinal ==
  [][\A i \in DOMAIN executions :
       executions[i].status \in Verdict => executions'[i] = executions[i]]_vars

(* The note "no completion event was received" is on exactly the           *)
(* executions whose outcome is unknown, also when the event comes late.    *)
NoteIsTrue ==
  \A i \in DOMAIN executions :
    executions[i].abandoned <=> executions[i].status = "unknown"

(* A live session has no end time; a completed one has, and not before its *)
(* last activity, whether a hook, a sweep or both ended it and whatever    *)
(* reactivated it in between.                                              *)
EndTimeFitsStatus ==
  /\ status \in {"none", "active", "idle"} => endTime = 0
  /\ status = "completed" => endTime >= lastActivity /\ endTime > 0
  /\ status = "terminated" => endTime > 0

(* Nothing stays running in a session that stays resident: every execution *)
(* is closed or given up on.  (In a session that is out of the map it may  *)
(* stay running in the file for ever, whatever the comments of             *)
(* reconcileStuckExecutions and load say: nothing visits it.)              *)
Running(i) == i \in DOMAIN executions /\ executions[i].status = "running"
NothingRunsForever ==
  \A i \in 1 .. 2 * Transports :
    (Running(i) /\ resident) ~> (~Running(i) \/ ~resident)

(* A session that stays resident and hears nothing more is ended by the    *)
(* sweeps, by way of idle.                                                 *)
QuietSessionEnds ==
  (status \in {"active", "idle"} /\ resident) ~>
    (status \in {"completed", "terminated"} \/ ~resident)

-----------------------------------------------------------------------------
(* findRunningExecution: matching on tool_use_id "is exact even when       *)
(* several calls to the same tool run in parallel", the fallback serving   *)
(* "only ... logs from hooks that predate the id".  Every event here has   *)
(* an id, so no execution may take another call's outcome.                 *)
PairingIsExact ==
  \A i \in DOMAIN executions : executions[i].by \in {NoCall, executions[i].id}

=============================================================================
