---------------------------- MODULE AgentTracker ----------------------------
(***************************************************************************)
(* The agent tree (AgentTracker, managers/agent-tracker.ts): what the log  *)
(* of hook events says of the agents of one session.  A spawn call has a   *)
(* name but no agent id, the agent's own events have an id but no name, so *)
(* the two halves are linked by guess.  Nothing is saved: a core that      *)
(* starts replays the log in the order of its timestamps, which need not   *)
(* be the order of arrival.                                                *)
(***************************************************************************)
EXTENDS Integers, FiniteSets, SequencesExt

CONSTANTS
  Spawn,        \* spawn calls
  Agent,        \* platform agent ids
  NameOf,       \* the name, or else the type, a spawn call states, or None
  NamesIn,      \* the names an agent id contains
  TurnOf,       \* the turn a spawn call and an agent's events belong to
  None,
  MaxAgents,    \* maxAgents
  MaxEvents,    \* bound: events logged
  MaxLate,      \* bound: events that arrive after a later one
  MaxRestarts   \* bound: restarts

VARIABLES
  tracker,      \* the records, the ids they are linked to, and who was evicted
  log,          \* the events in the order of arrival
  parent,       \* what the transcript directories say: who spawned whom
  restarts

vars == <<tracker, log, parent, restarts>>

-----------------------------------------------------------------------------
Kinds == {"start", "tool", "stop"}
Event == [kind : {"call", "ack", "report"}, of : Spawn, stamp : Int]
           \cup [kind : Kinds, of : Agent, stamp : Int]

Nobody == [records |-> <<>>, byAgent |-> [a \in Agent |-> None], evicted |-> {}]

Record(e, agent) ==
  [id |-> e.of, name |-> IF agent = None THEN NameOf[e.of] ELSE None,
   turn |-> TurnOf[e.of], agent |-> agent, status |-> "running",
   start |-> e.stamp, result |-> "none", calls |-> {}, parent |-> None]

Places(t) == DOMAIN t.records
Least(S) == CHOOSE i \in S : \A j \in S : i <= j

(* Broken: the link to the evicted record stays.                           *)
EvictedLinked(t) ==
  [t EXCEPT !.records = Tail(@), !.evicted = @ \cup ({Head(t.records).agent} \ {None})]

(* put: one record more; the record that was inserted first makes room.    *)
Evicted(t) ==
  LET oldest == Head(t.records)
  IN [records |-> Tail(t.records),
      byAgent |-> [a \in Agent |-> IF a = oldest.agent THEN None ELSE t.byAgent[a]],
      evicted |-> t.evicted \cup ({oldest.agent} \ {None})]

Put(t, r) ==
  LET more == [t EXCEPT !.records = Append(@, r)]
  IN IF Len(more.records) <= MaxAgents THEN more ELSE Evicted(more)

(* resolve: where the record linked to an agent id is.                     *)
Resolved(t, a) == {i \in Places(t) : t.byAgent[a] # None /\ t.records[i].id = t.byAgent[a]}

(* adoptSpawn: the first record with no agent whose name is in the id, or  *)
(* whose turn is the event's; if there is none the agent gets a record.    *)
Adoptable(t, e) ==
  {i \in Places(t) :
     LET r == t.records[i]
     IN r.agent = None /\ r.name # None
        /\ (r.name \in NamesIn[e.of] \/ r.turn = TurnOf[e.of])}

AdoptSpawn(t, e) ==
  IF Adoptable(t, e) # {}
    THEN LET i == Least(Adoptable(t, e))
         IN [t EXCEPT !.records[i].agent = e.of, !.byAgent[e.of] = t.records[i].id]
    ELSE [Put(t, Record(e, e.of)) EXCEPT !.byAgent[e.of] = e.of]

Linked(t, e) == IF Resolved(t, e.of) # {} THEN t ELSE AdoptSpawn(t, e)

-----------------------------------------------------------------------------
Newest(t, S) == CHOOSE i \in S : \A j \in S :
  \/ t.records[j].start < t.records[i].start
  \/ t.records[j].start = t.records[i].start /\ i <= j

Matches(t, i, s) == NameOf[s] # None => t.records[i].name = NameOf[s]

(* Broken: an agent that has stopped is matched too.                       *)
FindSpawnAny(t, s) == {i \in Places(t) : Matches(t, i, s)}

(* findSpawn: the running records that a spawn call's result may be of.    *)
FindSpawn(t, s) ==
  {i \in Places(t) : t.records[i].status = "running" /\ Matches(t, i, s)}

(* onSpawnResult: a report completes the agent, and an acknowledgement     *)
(* says that it is only starting.                                          *)
OnSpawnResult(t, e) ==
  IF FindSpawn(t, e.of) = {} THEN t
  ELSE LET i == Newest(t, FindSpawn(t, e.of))
       IN [t EXCEPT !.records[i] =
             [@ EXCEPT !.result = e.kind,
                       !.status = IF e.kind = "ack" THEN "running" ELSE "completed"]]

(* onLifecycle and onAgentToolCall: the event's agent has a record by now. *)
OnAgentEvent(t, e) ==
  LET linked == Linked(t, e)
      here == Resolved(linked, e.of)
  IN IF here = {} THEN linked
     ELSE LET i == Least(here)
          IN CASE e.kind = "start" -> linked
               [] e.kind = "stop"  -> [linked EXCEPT !.records[i].status = "completed"]
               [] e.kind = "tool"  -> [linked EXCEPT !.records[i].calls = @ \cup {e.of}]

Ingest(t, e) ==
  IF e.kind = "call" THEN Put(t, Record(e, None))
  ELSE IF e.kind \in {"ack", "report"} THEN OnSpawnResult(t, e)
  ELSE OnAgentEvent(t, e)

-----------------------------------------------------------------------------
(* backfill: the log sorted by timestamp, stably, and replayed.            *)
Earlier(events, i) ==
  {j \in DOMAIN events : \/ events[j].stamp < events[i].stamp
                         \/ events[j].stamp = events[i].stamp /\ j < i}

Ordered(events) ==
  [k \in DOMAIN events |->
     events[CHOOSE i \in DOMAIN events : Cardinality(Earlier(events, i)) = k - 1]]

Backfill(events) ==
  LET sorted == Ordered(events)
      upTo[k \in 0 .. Len(events)] ==
        IF k = 0 THEN Nobody ELSE Ingest(upTo[k - 1], sorted[k])
  IN  upTo[Len(events)]

(* loadParentage, once at the start, for the agents it then knows.         *)
LoadParentage(t) ==
  [t EXCEPT !.records = [i \in Places(t) |->
     IF t.records[i].agent = None THEN t.records[i]
     ELSE [t.records[i] EXCEPT !.parent = parent[t.records[i].agent]]]]

(* log:added, live.  A call's result comes after the call.                 *)
Late == {i \in DOMAIN log : \E j \in 1 .. i - 1 : log[j].stamp > log[i].stamp}

Ingests ==
  \E kind \in {"call", "ack", "report"} \cup Kinds, late \in BOOLEAN :
    \E of \in IF kind \in Kinds THEN Agent ELSE Spawn :
      LET n == Len(log) + 1
          e == [kind |-> kind, of |-> of, stamp |-> IF late THEN 2 * n - 3 ELSE 2 * n]
      IN /\ n <= MaxEvents
         /\ late => n > 1 /\ Cardinality(Late) < MaxLate
         /\ ~\E i \in DOMAIN log : log[i].kind = kind /\ log[i].of = of
         /\ kind \in {"ack", "report"} =>
              /\ \E i \in DOMAIN log : log[i].kind = "call" /\ log[i].of = of
              /\ ~\E i \in DOMAIN log : log[i].kind \in {"ack", "report"} /\ log[i].of = of
         /\ log' = Append(log, e)
         /\ tracker' = Ingest(tracker, e)
         /\ UNCHANGED <<parent, restarts>>

Restarts ==
  /\ restarts < MaxRestarts
  /\ restarts' = restarts + 1
  /\ tracker' = LoadParentage(Backfill(log))
  /\ UNCHANGED <<log, parent>>

(* The directories are nested, so nobody is an ancestor of itself.         *)
Nested(p) ==
  \E depth \in [Agent -> 0 .. Cardinality(Agent)] :
    \A a \in Agent : p[a] # None => depth[p[a]] < depth[a]

Init ==
  /\ tracker = Nobody /\ log = <<>> /\ restarts = 0
  /\ parent \in {p \in [Agent -> Agent \cup {None}] : Nested(p)}

Next == Ingests \/ Restarts
Spec == Init /\ [][Next]_vars

-----------------------------------------------------------------------------
(* getTree: a page of the list, newest first; a record whose parent is on  *)
(* the page is its parent's child, and any other one is a root.            *)
Named(page, a) == {i \in page : tracker.records[i].agent = a \/ tracker.records[i].id = a}

ParentsOn(page, i) ==
  LET up == tracker.records[i].parent
  IN IF up = None THEN {} ELSE Named(page, up) \ {i}

(* Broken: a record with a parent is never a root.                         *)
RootsWithoutParent(page) == {i \in page : tracker.records[i].parent = None}

Roots(page) == {i \in page : ParentsOn(page, i) = {}}
Children(page, i) == {j \in page : i \in ParentsOn(page, j)}

(* What is under the roots, down to the last generation there can be.      *)
Shown(page) ==
  LET down[n \in 0 .. Cardinality(page)] ==
        IF n = 0 THEN Roots(page)
        ELSE down[n - 1] \cup UNION {Children(page, i) : i \in down[n - 1]}
  IN down[Cardinality(page)]

-----------------------------------------------------------------------------
RecordType ==
  [id : Spawn \cup Agent, name : {NameOf[s] : s \in Spawn} \cup {None},
   turn : {TurnOf[x] : x \in Spawn \cup Agent}, agent : Agent \cup {None},
   status : {"running", "completed"}, start : Int,
   result : {"none", "ack", "report"}, calls : SUBSET Agent, parent : Agent \cup {None}]

TypeOK ==
  /\ \A i \in Places(tracker) : tracker.records[i] \in RecordType
  /\ Len(tracker.records) <= MaxAgents
  /\ tracker.byAgent \in [Agent -> Spawn \cup Agent \cup {None}]
  /\ log \in Seq(Event)

(* The links and the records agree, after evictions and replays too: an    *)
(* agent has one record, the one its id leads to, a link leads to a record *)
(* that is held, and the calls in a record are its own agent's.            *)
LinkedOneToOne ==
  /\ \A a \in Agent : tracker.byAgent[a] # None =>
       \E i \in Places(tracker) : /\ tracker.records[i].id = tracker.byAgent[a]
                                  /\ tracker.records[i].agent = a
  /\ \A i, j \in Places(tracker) :
       LET a == tracker.records[i].agent
       IN /\ a # None => tracker.byAgent[a] = tracker.records[i].id
          /\ i # j => a = None \/ a # tracker.records[j].agent
          /\ tracker.records[i].calls \subseteq {a}

(* Nothing that arrives after an agent's stop makes it run again: not the  *)
(* acknowledgement of its spawn call, not a start out of order; only an    *)
(* agent that was evicted is begun anew.                                   *)
StopEnds ==
  \A e \in Range(log) : e.kind = "stop" /\ e.of \notin tracker.evicted =>
    \A i \in Resolved(tracker, e.of) : tracker.records[i].status = "completed"

(* "A parent outside this page must not make its child disappear": every   *)
(* record of a page is under one of its roots.                             *)
NobodyDisappears ==
  \A page \in SUBSET Places(tracker) : Shown(page) = page

=============================================================================
